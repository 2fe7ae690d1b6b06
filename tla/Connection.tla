----------------------------- MODULE Connection -----------------------------
(***************************************************************************)
(* The pipelining core of the asynchronous driver: tasks submit requests   *)
(* through the shared InnerClient, one Connection future writes them to    *)
(* the socket and pages the server's answers into one bounded channel per  *)
(* request, and each task reads its own channel through a Responses.       *)
(*                                                                         *)
(* A request is known by its submission number, the order of               *)
(* unbounded_send on the InnerClient's sender.  Every backend message      *)
(* carries, as history, the request that caused it and its place in that   *)
(* request's answer; the driver never looks at either.                     *)
(*                                                                         *)
(* The Connection is a future: one poll is the phases read, write, flush   *)
(* and end, and the task then parks until a waker it registered fires.     *)
(* The other tasks and the server run between any two of its steps.        *)
(***************************************************************************)
EXTENDS Integers, Sequences, FiniteSets

CONSTANTS
  MaxRequests,      \* bound on the requests submitted
  MaxRows,          \* bound on the body messages of one answer
  MaxAsync,         \* bound on the asynchronous messages the server sends
  MaxDelayed,       \* bound on the notices the startup phase hands over
  MaxPut,           \* bound on the items put into one CopyInSink
  SendCap,          \* frontend messages the socket takes before it blocks
  RecvCap,          \* backend messages the socket takes before it blocks
  WriteBoundary,    \* messages Framed buffers before poll_ready must flush
  CopyUsed,         \* TRUE: the application issues COPY ... FROM STDIN
  EarlyCopyError,   \* TRUE: the server may refuse a COPY before copy mode
  ServerMayClose    \* TRUE: the server may close the connection at any time

ASSUME ConnectionAssumption ==
  /\ MaxRequests \in Nat /\ MaxRows \in Nat /\ MaxAsync \in Nat
  /\ MaxDelayed \in Nat /\ MaxPut \in Nat
  /\ SendCap \in Nat \ {0} /\ RecvCap \in Nat \ {0}
  /\ WriteBoundary \in Nat \ {0}
  /\ CopyUsed \in BOOLEAN /\ EarlyCopyError \in BOOLEAN
  /\ ServerMayClose \in BOOLEAN

VARIABLES
  \* InnerClient and the tasks that use it
  clientOpen,       \* the Client lives: the request sender is not closed
  requests,         \* history: the kind of each request, in send order
  task,             \* what the task that sent request r is doing
  chan,             \* chunks in the mpsc channel of request r
  cur,              \* messages left of the chunk its Responses is reading
  got,              \* messages the task has been given
  \* CopyInSink of a copy request
  sink,             \* its SinkState, with "none", "created", "starting", "gone", "closed"
  copyChan,         \* its mpsc channel into the CopyInReceiver
  sinkBuf,          \* items in its BytesMut, at most 4096 bytes of them
  put,              \* items the application has put into it
  \* Connection
  pc,               \* the phase of the poll, or "parked", "finished", "dropped"
  awake,            \* the task has been woken since its last poll began
  wakers,           \* what the poll left its waker registered with
  receiver,         \* queued requests
  pendingRequest,   \* the CopyIn request being written, 0 if none
  copyDone,         \* the done flag of that request's CopyInReceiver
  pendingResponses, \* decoded messages to be looked at before the stream
  responses,        \* requests whose answer is not complete
  state,            \* State; Terminating lasts no longer than one step
  message,          \* poll_read returned an asynchronous message
  result,           \* what the future resolved to
  inbox,            \* history: the messages paged to request r's response
  \* the socket, both directions
  outbound,         \* frontend messages not yet read by the server
  flushed,          \* how many of those have left the write buffer
  fromServer,       \* backend messages not yet decoded
  \* the server
  srv,              \* what it is doing, and for which request
  emitted,          \* history: messages of request r's answer sent so far
  served,           \* history: ReadyForQuery messages sent so far
  copied,           \* items of copy request r that have reached it
  committed,        \* copy requests it has carried out
  asyncs,           \* asynchronous messages sent so far
  serverClosed      \* the server has closed the connection

clientVars == <<clientOpen, requests>>
taskVars   == <<task, chan, cur, got>>
sinkVars   == <<sink, copyChan, sinkBuf, put>>
wakeVars   == <<awake, wakers>>
connVars   == <<receiver, pendingRequest, copyDone, pendingResponses,
                responses, state, message, result, inbox>>
wireVars   == <<outbound, flushed, fromServer>>
serverVars == <<srv, emitted, served, copied, committed, asyncs, serverClosed>>
vars == <<clientVars, taskVars, sinkVars, pc, wakeVars, connVars, wireVars, serverVars>>

(***************************************************************************)
(* Data.                                                                   *)
(***************************************************************************)
Request == 1 .. MaxRequests
Kind    == {"single", "copy"}

\* ChanCap: futures' mpsc::channel(1) with one sender parks that sender when
\* a second message is queued, so poll_ready is pending at two.
ChanCap == 2

AsyncKind  == {"notice", "param"}
AnswerKind == {"row", "copyin", "error", "ready"}
\* "fatal" is an ErrorResponse no request caused (the server shuts down).
LoneKind   == AsyncKind \cup {"fatal"}
Msg        == [kind : LoneKind, req : {0}, idx : {0}]
                \cup [kind : AnswerKind, req : Request, idx : Nat \ {0}]
Lone(k)    == [kind |-> k, req |-> 0, idx |-> 0]
Chunk      == Seq(Msg) \ {<<>>}
IsAsync(m) == m.kind \in AsyncKind

\* BackendMessage: an asynchronous message alone, or a chunk of the others.
IsAsyncChunk(c)    == IsAsync(c[1])
RequestComplete(c) == c[Len(c)].kind = "ready"

OutKind == {"query", "start", "data", "done", "fail", "terminate"}
OutMsg  == [kind : OutKind \ {"terminate"}, req : Request, n : Nat]
             \cup [kind : {"terminate"}, req : {0}, n : {0}]
Out(k, r, n) == [kind |-> k, req |-> r, n |-> n]

CopyMsg == [kind : {"start", "data", "done"}, n : Nat]

TaskState == {"unsent", "waiting", "done", "failed", "closed", "dropped"}
SinkState == {"none", "created", "starting", "active", "finishing", "reading",
              "gone", "closed"}
ServerMode == {"idle", "busy", "copystart", "copy", "complete", "copyerror",
               "failing", "skip", "ending"}
ServerState == [mode : {"idle"}, req : {0}]
                 \cup [mode : ServerMode \ {"idle"}, req : Request]

Smaller(a, b) == IF a < b THEN a ELSE b

-----------------------------------------------------------------------------
Init ==
  /\ clientOpen = TRUE
  /\ requests = <<>>
  /\ task = [r \in Request |-> "unsent"]
  /\ chan = [r \in Request |-> <<>>]
  /\ cur = [r \in Request |-> <<>>]
  /\ got = [r \in Request |-> 0]
  /\ sink = [r \in Request |-> "none"]
  /\ copyChan = [r \in Request |-> <<>>]
  /\ sinkBuf = [r \in Request |-> 0]
  /\ put = [r \in Request |-> 0]
  /\ pc = "parked"
  /\ awake = TRUE
  /\ wakers = {}
  /\ receiver = <<>>
  /\ pendingRequest = 0
  /\ copyDone = FALSE
  /\ \E k \in 0 .. MaxDelayed : pendingResponses = [i \in 1 .. k |-> <<Lone("notice")>>]
  /\ responses = <<>>
  /\ state = "Active"
  /\ message = FALSE
  /\ result = "running"
  /\ inbox = [r \in Request |-> <<>>]
  /\ outbound = <<>>
  /\ flushed = 0
  /\ fromServer = <<>>
  /\ srv = [mode |-> "idle", req |-> 0]
  /\ emitted = [r \in Request |-> 0]
  /\ served = 0
  /\ copied = [r \in Request |-> 0]
  /\ committed = {}
  /\ asyncs = 0
  /\ serverClosed = FALSE

-----------------------------------------------------------------------------
(***************************************************************************)
(* Wakers.  An event on x wakes the Connection's task if the last poll     *)
(* left its waker with x; registrations made by earlier polls are not      *)
(* relied on.                                                              *)
(***************************************************************************)
Wake(x) ==
  /\ awake' = (awake \/ x \in wakers)
  /\ wakers' = wakers \ {x}

\* The response channel of r wakes the Connection when r is the answer it
\* is paging out.
WakeSender(r) ==
  IF responses # <<>> /\ responses[1] = r THEN Wake("sender")
                                          ELSE UNCHANGED wakeVars

-----------------------------------------------------------------------------
(***************************************************************************)
(* InnerClient and Responses.                                              *)
(***************************************************************************)

\* The request channel takes requests until the Client is gone or
\* poll_message has closed the receiver.
ReceiverOpen == result = "running"

Send(k) ==
  LET r == Len(requests) + 1 IN
  /\ clientOpen /\ ReceiverOpen
  /\ Len(requests) < MaxRequests
  /\ requests' = Append(requests, k)
  /\ receiver' = Append(receiver, r)
  /\ task' = [task EXCEPT ![r] = "waiting"]
  /\ sink' = [sink EXCEPT ![r] = IF k = "copy" THEN "created" ELSE "none"]
  /\ Wake("request")
  /\ UNCHANGED <<clientOpen, chan, cur, got, copyChan, sinkBuf, put, pc,
                 pendingRequest, copyDone, pendingResponses, responses, state,
                 message, result, inbox, wireVars, serverVars>>

\* Client dropped, or __private_api_close: the sender closes.
DropClient ==
  /\ clientOpen
  /\ clientOpen' = FALSE
  /\ Wake("request")
  /\ UNCHANGED <<requests, taskVars, sinkVars, pc, connVars, wireVars, serverVars>>

\* The sender of r's channel lives in the request or in its Response.
SenderAlive(r) ==
  /\ pc # "dropped"
  /\ \/ \E i \in 1 .. Len(receiver) : receiver[i] = r
     \/ \E i \in 1 .. Len(responses) : responses[i] = r

\* The Responses of r is dropped, and with it the sender of a CopyInSink.
DropReceiver(r) ==
  /\ chan' = [chan EXCEPT ![r] = <<>>]
  /\ cur' = [cur EXCEPT ![r] = <<>>]
  /\ sink' = [sink EXCEPT ![r] = CASE @ = "none" -> "none"
                                   [] @ \in {"reading", "closed"} -> "closed"
                                   [] OTHER -> "gone"]
  /\ sinkBuf' = [sinkBuf EXCEPT ![r] = 0]

\* The two channels of r a dropped Responses or CopyInSink may wake.
WakeDropped(r) ==
  LET woken == (IF responses # <<>> /\ responses[1] = r THEN {"sender"} ELSE {})
                 \cup (IF pendingRequest = r THEN {"copy"} ELSE {})
  IN /\ awake' = (awake \/ wakers \cap woken # {})
     /\ wakers' = wakers \ woken

\* Mutant: poll_finish takes whatever comes for the end of the copy.
Outcome_AnyEndsCopy(r, m) ==
  CASE sink[r] = "reading"                        -> "done"
    [] m.kind \in {"error", "fatal"}              -> "failed"
    [] sink[r] = "none" /\ m.kind = "ready"       -> "done"
    [] m.kind \in {"row", "copyin"}               -> "waiting"
    [] OTHER                                      -> "failed"

\* What the task of r makes of message m: RowStream::poll_next and its kin
\* for a single request, copy_in and poll_finish for a copy.
Outcome(r, m) ==
  CASE m.kind \in {"error", "fatal"}              -> "failed"
    [] sink[r] = "none" /\ m.kind = "ready"       -> "done"
    [] sink[r] = "none" /\ m.kind = "row"         -> "waiting"
    [] sink[r] = "starting" /\ m.kind = "copyin"  -> "waiting"
    [] sink[r] = "reading" /\ m.kind = "row"      -> "done"
    [] OTHER                                      -> "failed"

\* The task of r is in a call that polls its Responses.
PollsResponses(r) == task[r] = "waiting" /\ sink[r] \in {"none", "starting", "reading"}

\* Responses::poll_next yields a message.
NextMessage(r) ==
  LET fresh == cur[r] = <<>>
      chunk == IF fresh THEN chan[r][1] ELSE cur[r]
      next  == Outcome(r, chunk[1])
  IN
  /\ PollsResponses(r)
  /\ fresh => chan[r] # <<>>
  /\ got' = [got EXCEPT ![r] = @ + 1]
  /\ task' = [task EXCEPT ![r] = next]
  /\ IF next = "waiting"
       THEN /\ cur' = [cur EXCEPT ![r] = Tail(chunk)]
            /\ chan' = IF fresh THEN [chan EXCEPT ![r] = Tail(@)] ELSE chan
            /\ sink' = IF sink[r] = "starting" THEN [sink EXCEPT ![r] = "active"]
                                               ELSE sink
            /\ UNCHANGED sinkBuf
            /\ IF fresh THEN WakeSender(r) ELSE UNCHANGED wakeVars
       ELSE DropReceiver(r) /\ WakeDropped(r)
  /\ UNCHANGED <<clientVars, copyChan, put, pc, connVars, wireVars, serverVars>>

\* Responses::poll_next, or a send into the CopyInSink, finds the other end
\* gone: Error::closed.
SeeClosed(r) ==
  /\ \/ PollsResponses(r) /\ cur[r] = <<>> /\ chan[r] = <<>> /\ ~SenderAlive(r)
     \/ sink[r] \in {"created", "active", "finishing"} /\ pc = "dropped"
  /\ task' = [task EXCEPT ![r] = "closed"]
  /\ DropReceiver(r) /\ WakeDropped(r)
  /\ UNCHANGED <<clientVars, got, copyChan, put, pc, connVars, wireVars, serverVars>>

\* The application drops the future or stream that holds r's Responses.
DropResponses(r) ==
  /\ task[r] = "waiting" /\ sink[r] # "created"
  /\ task' = [task EXCEPT ![r] = "dropped"]
  /\ DropReceiver(r) /\ WakeDropped(r)
  /\ UNCHANGED <<clientVars, got, copyChan, put, pc, connVars, wireVars, serverVars>>

-----------------------------------------------------------------------------
(***************************************************************************)
(* CopyInSink.                                                             *)
(***************************************************************************)
WakeCopy(r) == IF pendingRequest = r THEN Wake("copy") ELSE UNCHANGED wakeVars

\* Sender::poll_ready of the sink's channel.
SinkReady(r) == Len(copyChan[r]) < ChanCap /\ pc # "dropped"

CopySend(r, k, n) ==
  /\ SinkReady(r)
  /\ copyChan' = [copyChan EXCEPT ![r] = Append(@, [kind |-> k, n |-> n])]
  /\ WakeCopy(r)

\* copy_in hands Bind, Execute and Sync to the request it has just queued.
CopyStart(r) ==
  /\ sink[r] = "created"
  /\ CopySend(r, "start", 0)
  /\ sink' = [sink EXCEPT ![r] = "starting"]
  /\ UNCHANGED <<clientVars, taskVars, sinkBuf, put, pc, connVars, wireVars, serverVars>>

\* Sink::start_send after poll_ready: the item joins the buffer, or leaves
\* for the channel with what was buffered once that passes 4096 bytes.
SinkPut(r) ==
  /\ sink[r] = "active" /\ SinkReady(r)
  /\ put[r] < MaxPut
  /\ put' = [put EXCEPT ![r] = @ + 1]
  /\ \/ /\ sinkBuf' = [sinkBuf EXCEPT ![r] = @ + 1]
        /\ UNCHANGED <<copyChan, wakeVars>>
     \/ /\ sinkBuf' = [sinkBuf EXCEPT ![r] = 0]
        /\ CopySend(r, "data", sinkBuf[r] + 1)
  /\ UNCHANGED <<clientVars, taskVars, sink, pc, connVars, wireVars, serverVars>>

\* Sink::poll_flush, called by the application or by poll_finish.
SinkFlush(r) ==
  /\ sink[r] \in {"active", "finishing"} /\ sinkBuf[r] > 0
  /\ CopySend(r, "data", sinkBuf[r])
  /\ sinkBuf' = [sinkBuf EXCEPT ![r] = 0]
  /\ UNCHANGED <<clientVars, taskVars, sink, put, pc, connVars, wireVars, serverVars>>

\* The application calls finish or Sink::close.
BeginFinish(r) ==
  /\ sink[r] = "active"
  /\ sink' = [sink EXCEPT ![r] = "finishing"]
  /\ UNCHANGED <<clientVars, taskVars, copyChan, sinkBuf, put, pc, wakeVars,
                 connVars, wireVars, serverVars>>

\* poll_finish: flushed and ready, it sends Done, closes and reads on.
FinishDone(r) ==
  /\ sink[r] = "finishing" /\ sinkBuf[r] = 0
  /\ CopySend(r, "done", 0)
  /\ sink' = [sink EXCEPT ![r] = "reading"]
  /\ UNCHANGED <<clientVars, taskVars, sinkBuf, put, pc, connVars, wireVars, serverVars>>

-----------------------------------------------------------------------------
(***************************************************************************)
(* Connection::poll.                                                       *)
(***************************************************************************)

\* The future resolves: poll_message closes the request receiver.
Resolve(res) ==
  /\ result' = res
  /\ pc' = "finished"

\* The executor polls the woken task.
PollStart ==
  /\ pc = "parked" /\ awake
  /\ pc' = "read" /\ awake' = FALSE /\ wakers' = {}
  /\ UNCHANGED <<clientVars, taskVars, sinkVars, connVars, wireVars, serverVars>>

readFrame == <<clientVars, cur, task, got, sinkVars, awake, receiver,
               pendingRequest, copyDone, state, outbound, flushed, serverVars>>

\* poll_read does nothing once the connection is being closed.
ReadSkip ==
  /\ state # "Active"
  /\ pc' = "write"
  /\ UNCHANGED <<readFrame, wakers, chan, pendingResponses, responses, message,
                 result, inbox, fromServer>>

\* poll_response is pending on the stream.
ReadPending ==
  /\ pendingResponses = <<>> /\ fromServer = <<>> /\ ~serverClosed
  /\ pc' = "write"
  /\ wakers' = wakers \cup {"stream"}
  /\ UNCHANGED <<readFrame, chan, pendingResponses, responses, message, result,
                 inbox, fromServer>>

\* The stream has ended: Error::closed.
ReadEof ==
  /\ pendingResponses = <<>> /\ fromServer = <<>> /\ serverClosed
  /\ Resolve("error")
  /\ UNCHANGED <<readFrame, wakers, chan, pendingResponses, responses, message,
                 inbox, fromServer>>

\* PostgresCodec::decode makes one BackendMessage of the first k messages
\* received: an asynchronous one alone, or a run of the others that ends
\* with ReadyForQuery, before an asynchronous one, or where the bytes that
\* have arrived end.
Decodes(k) ==
  IF IsAsync(fromServer[1])
    THEN k = 1
    ELSE \A i \in 1 .. k : /\ ~IsAsync(fromServer[i])
                           /\ i < k => fromServer[i].kind # "ready"

\* The arms of poll_read for BackendMessage c.  pend and strm are what
\* poll_response has left in pending_responses and in the stream.

\* A notice or a notification ends poll_read; ParameterStatus does not.
ReadAsync(c, pend, strm) ==
  /\ IsAsyncChunk(c)
  /\ IF c[1].kind = "notice" THEN message' = TRUE /\ pc' = "write"
                             ELSE UNCHANGED <<message, pc>>
  /\ pendingResponses' = pend /\ fromServer' = strm
  /\ UNCHANGED <<readFrame, wakers, chan, responses, result, inbox>>

\* No request is outstanding: a database error or unexpected_message.
ReadUnexpected(c, pend, strm) ==
  /\ ~IsAsyncChunk(c) /\ responses = <<>>
  /\ Resolve("error")
  /\ pendingResponses' = pend /\ fromServer' = strm
  /\ UNCHANGED <<readFrame, wakers, chan, responses, message, inbox>>

\* poll_ready of the first Response's sender.
ReceiverGone(r) == task[r] # "waiting"

\* Mutant: a receiver that hung up is waited for like a full channel.
ChanReady_NotGone(r) == ~ReceiverGone(r) /\ Len(chan[r]) < ChanCap

ChanReady(r)    == ReceiverGone(r) \/ Len(chan[r]) < ChanCap

\* Mutants: the Response goes back to the rear of the queue; it is never put
\* back; it stays although its request is complete.
AfterPage_PushBack(c) ==
  IF RequestComplete(c) THEN Tail(responses)
                        ELSE Append(Tail(responses), responses[1])
AfterPage_Forget(c) == Tail(responses)
AfterPage_Keep(c)   == responses

\* The Response taken from the front goes back there until its request is
\* complete.
AfterPage(c) == IF RequestComplete(c) THEN Tail(responses) ELSE responses

\* The chunk goes to the request at the front, or is dropped with the
\* receiver gone; either way the paging goes on.
ReadPage(c, pend, strm) ==
  LET r == responses[1] IN
  /\ ~IsAsyncChunk(c) /\ responses # <<>> /\ ChanReady(r)
  /\ chan' = IF ReceiverGone(r) THEN chan ELSE [chan EXCEPT ![r] = Append(@, c)]
  /\ inbox' = [inbox EXCEPT ![r] = @ \o c]
  /\ responses' = AfterPage(c)
  /\ pendingResponses' = pend /\ fromServer' = strm
  /\ UNCHANGED <<readFrame, wakers, pc, message, result>>

\* The channel is full: keep the chunk and wait for the sender.
ReadBlocked(c, pend, strm) ==
  /\ ~IsAsyncChunk(c) /\ responses # <<>> /\ ~ChanReady(responses[1])
  /\ pendingResponses' = Append(pend, c) /\ fromServer' = strm
  /\ pc' = "write"
  /\ wakers' = wakers \cup {"sender"}
  /\ UNCHANGED <<readFrame, chan, responses, message, result, inbox>>

ReadMessage(c, pend, strm) ==
  \/ ReadAsync(c, pend, strm)
  \/ ReadUnexpected(c, pend, strm)
  \/ ReadPage(c, pend, strm)
  \/ ReadBlocked(c, pend, strm)

PollRead ==
  /\ pc = "read"
  /\ \/ ReadSkip
     \/ /\ state = "Active"
        /\ \/ ReadPending
           \/ ReadEof
           \/ /\ pendingResponses # <<>>
              /\ ReadMessage(pendingResponses[1], Tail(pendingResponses), fromServer)
           \/ /\ pendingResponses = <<>>
              /\ \E k \in 1 .. Len(fromServer) :
                   /\ Decodes(k)
                   /\ ReadMessage(SubSeq(fromServer, 1, k), <<>>,
                                  SubSeq(fromServer, k + 1, Len(fromServer)))

-----------------------------------------------------------------------------
writeFrame == <<clientVars, taskVars, sink, sinkBuf, put, awake,
                pendingResponses, message, inbox, fromServer, serverVars>>

Unflushed == Len(outbound) - flushed

\* What the socket takes when flushed: a closed one no longer pushes back.
SocketTakes == IF serverClosed THEN Len(outbound) ELSE Smaller(Len(outbound), SendCap)

\* Flush into the socket; pending when it does not take everything.
FlushSocket ==
  /\ flushed' = SocketTakes
  /\ wakers' = IF SocketTakes < Len(outbound) THEN wakers \cup {"socket"} ELSE wakers
  /\ UNCHANGED outbound

\* A write to a socket the server has closed may fail: Error::io.
IoError ==
  /\ pc \in {"write", "flush", "end"}
  /\ serverClosed /\ Unflushed > 0
  /\ Resolve("error")
  /\ UNCHANGED <<writeFrame, wakers, copyChan, receiver, pendingRequest, copyDone,
                 responses, state, outbound, flushed>>

\* poll_write is over; no flush is wanted.
WriteClosing ==
  /\ state = "Closing"
  /\ pc' = "end"
  /\ UNCHANGED <<writeFrame, wakers, copyChan, receiver, pendingRequest, copyDone,
                 responses, state, result, outbound, flushed>>

\* Framed::poll_ready flushes first when its buffer has reached the boundary.
WriteBackpressure ==
  /\ state # "Closing" /\ Unflushed >= WriteBoundary
  /\ FlushSocket
  /\ pc' = IF SocketTakes < Len(outbound) THEN "end" ELSE pc
  /\ UNCHANGED <<writeFrame, copyChan, receiver, pendingRequest, copyDone,
                 responses, state, result>>

StreamReady == state # "Closing" /\ Unflushed < WriteBoundary

\* The request channel is empty and its sender gone.
AtEof == receiver = <<>> /\ ~clientOpen

\* Mutant: outstanding answers are not waited for.
NothingOutstanding_Ignored == TRUE
NothingOutstanding == responses = <<>>

\* At the end of the requests with nothing outstanding: Terminate.
WriteTerminate ==
  /\ StreamReady /\ pendingRequest = 0 /\ AtEof
  /\ NothingOutstanding /\ state = "Active"
  /\ state' = "Closing"
  /\ outbound' = Append(outbound, Out("terminate", 0, 0))
  /\ UNCHANGED <<writeFrame, wakers, pc, copyChan, receiver, pendingRequest,
                 copyDone, responses, result, flushed>>

\* Nothing to write now: answers are outstanding, or no request is queued.
WriteIdle ==
  /\ StreamReady /\ pendingRequest = 0 /\ receiver = <<>>
  /\ AtEof => ~NothingOutstanding
  /\ pc' = "flush"
  /\ wakers' = IF AtEof THEN wakers ELSE wakers \cup {"request"}
  /\ UNCHANGED <<writeFrame, copyChan, receiver, pendingRequest, copyDone,
                 responses, state, result, outbound, flushed>>

\* A request that is one buffer of frontend messages.
WriteSingle ==
  /\ StreamReady /\ pendingRequest = 0 /\ receiver # <<>>
  /\ requests[receiver[1]] = "single"
  /\ receiver' = Tail(receiver)
  /\ responses' = Append(responses, receiver[1])
  /\ outbound' = Append(outbound, Out("query", receiver[1], 0))
  /\ UNCHANGED <<writeFrame, wakers, pc, copyChan, pendingRequest, copyDone,
                 state, result, flushed>>

\* poll_request yields the CopyIn request r: the pending one, or a new one.
TakeCopy(r) ==
  /\ StreamReady
  /\ \/ /\ pendingRequest # 0 /\ r = pendingRequest
        /\ UNCHANGED <<receiver, responses>>
     \/ /\ pendingRequest = 0 /\ receiver # <<>> /\ r = receiver[1]
        /\ requests[r] = "copy"
        /\ receiver' = Tail(receiver)
        /\ responses' = Append(responses, r)

SenderGone(r) == sink[r] \in {"gone", "closed"}

\* Mutant: an abandoned copy is completed.
AbandonedCopy_Done == "done"

\* What CopyInReceiver makes of a sink that is gone without Done.
AbandonedCopy == "fail"

\* CopyInReceiver yields a message: what the sink sent, or CopyFail and Sync
\* when the sink is gone before it sent Done.
WriteCopy(r) ==
  /\ TakeCopy(r) /\ ~copyDone
  /\ \/ /\ copyChan[r] # <<>>
        /\ copyChan' = [copyChan EXCEPT ![r] = Tail(@)]
        /\ outbound' = Append(outbound, Out(copyChan[r][1].kind, r, copyChan[r][1].n))
        /\ copyDone' = (copyChan[r][1].kind = "done")
     \/ /\ copyChan[r] = <<>> /\ SenderGone(r)
        /\ outbound' = Append(outbound, Out(AbandonedCopy, r, 0))
        /\ copyDone' = TRUE
        /\ UNCHANGED copyChan
  /\ pendingRequest' = r
  /\ UNCHANGED <<writeFrame, wakers, pc, state, result, flushed>>

\* CopyInReceiver is pending: keep the request, and nothing behind it moves.
WriteCopyPending(r) ==
  /\ TakeCopy(r) /\ ~copyDone
  /\ copyChan[r] = <<>> /\ ~SenderGone(r)
  /\ pendingRequest' = r
  /\ pc' = "flush"
  /\ wakers' = wakers \cup {"copy"}
  /\ UNCHANGED <<writeFrame, copyChan, copyDone, state, result, outbound, flushed>>

\* CopyInReceiver has ended: the request is written.
WriteCopyEnd ==
  /\ StreamReady /\ pendingRequest # 0 /\ copyDone
  /\ pendingRequest' = 0 /\ copyDone' = FALSE
  /\ UNCHANGED <<writeFrame, wakers, pc, copyChan, receiver, responses, state,
                 result, outbound, flushed>>

PollWrite ==
  /\ pc = "write"
  /\ \/ WriteClosing
     \/ WriteBackpressure
     \/ WriteTerminate
     \/ WriteIdle
     \/ WriteSingle
     \/ \E r \in Request : WriteCopy(r) \/ WriteCopyPending(r)
     \/ WriteCopyEnd

PollFlush ==
  /\ pc = "flush"
  /\ FlushSocket
  /\ pc' = "end"
  /\ UNCHANGED <<writeFrame, copyChan, receiver, pendingRequest, copyDone,
                 responses, state, result>>

\* Mutant: poll returns Pending after an asynchronous message.
AfterMessage_Park == "parked"

\* Future::poll loops on poll_message after an asynchronous message.
AfterMessage == "read"

\* The end of poll_message_inner: a message read makes poll go round again;
\* otherwise poll_shutdown, pending unless closing.
PollEnd ==
  /\ pc = "end"
  /\ \/ /\ message
        /\ message' = FALSE /\ pc' = AfterMessage
        /\ UNCHANGED <<wakers, result, outbound, flushed>>
     \/ /\ ~message /\ state # "Closing"
        /\ pc' = "parked"
        /\ UNCHANGED <<wakers, message, result, outbound, flushed>>
     \/ /\ ~message /\ state = "Closing"
        /\ FlushSocket
        /\ IF SocketTakes < Len(outbound) THEN pc' = "parked" /\ UNCHANGED result
                                          ELSE Resolve("ok")
        /\ UNCHANGED message
  /\ UNCHANGED <<clientVars, taskVars, sinkVars, awake, receiver, pendingRequest,
                 copyDone, pendingResponses, responses, state, inbox, fromServer,
                 serverVars>>

\* The executor drops the resolved future: every sender it holds, and those
\* of the requests still queued, are gone.
DropConnection ==
  /\ pc = "finished"
  /\ pc' = "dropped"
  /\ UNCHANGED <<clientVars, taskVars, sinkVars, wakeVars, connVars, wireVars, serverVars>>

Poll == PollStart \/ PollRead \/ PollWrite \/ PollFlush \/ PollEnd \/ IoError
          \/ DropConnection

-----------------------------------------------------------------------------
(***************************************************************************)
(* The server (external): it reads frontend messages in order and answers  *)
(* each request with a sequence that ends with ReadyForQuery.              *)
(***************************************************************************)
serverFrame == <<clientVars, taskVars, sinkVars, pc, connVars>>

Serve(mode) == srv' = [srv EXCEPT !.mode = mode]

\* The server reads the next frontend message.
ServerRead ==
  LET m == outbound[1] IN
  /\ flushed > 0 /\ ~serverClosed
  /\ outbound' = Tail(outbound) /\ flushed' = flushed - 1
  /\ Wake("socket")
  /\ \/ /\ srv.mode = "idle" /\ m.kind \in {"query", "start"}
        /\ srv' = [mode |-> IF m.kind = "query" THEN "busy" ELSE "copystart",
                   req |-> m.req]
        /\ UNCHANGED <<copied, committed, serverClosed>>
     \/ /\ srv.mode = "copy" /\ m.kind = "data"
        /\ copied' = [copied EXCEPT ![srv.req] = @ + m.n]
        /\ \E mode \in {"copy", "copyerror"} : Serve(mode)
        /\ UNCHANGED <<committed, serverClosed>>
     \/ /\ srv.mode = "copy" /\ m.kind = "done"
        /\ Serve("complete")
        /\ committed' = committed \cup {srv.req}
        /\ UNCHANGED <<copied, serverClosed>>
     \/ /\ srv.mode = "copy" /\ m.kind = "fail"
        /\ Serve("failing")
        /\ UNCHANGED <<copied, committed, serverClosed>>
     \/ \* after an error in copy mode: discard up to the Sync
        /\ srv.mode = "skip"
        /\ Serve(IF m.kind = "data" THEN "skip" ELSE "ending")
        /\ UNCHANGED <<copied, committed, serverClosed>>
     \/ \* copy messages outside copy mode: ignored, but for their Sync
        /\ srv.mode = "idle" /\ m.kind \in {"data", "done", "fail"}
        /\ srv' = IF m.kind = "data" THEN srv ELSE [mode |-> "ending", req |-> m.req]
        /\ UNCHANGED <<copied, committed, serverClosed>>
     \/ /\ srv.mode = "idle" /\ m.kind = "terminate"
        /\ serverClosed' = TRUE
        /\ UNCHANGED <<srv, copied, committed>>
  /\ UNCHANGED <<serverFrame, fromServer, emitted, served, asyncs>>

\* The server sends message k of the current answer and goes on to mode.
Emit(k, mode) ==
  LET r == srv.req IN
  /\ Len(fromServer) < RecvCap /\ ~serverClosed
  /\ fromServer' = Append(fromServer, [kind |-> k, req |-> r, idx |-> emitted[r] + 1])
  /\ emitted' = [emitted EXCEPT ![r] = @ + 1]
  /\ served' = IF k = "ready" THEN served + 1 ELSE served
  /\ srv' = [mode |-> mode, req |-> IF mode = "idle" THEN 0 ELSE r]
  /\ Wake("stream")
  /\ UNCHANGED <<serverFrame, outbound, flushed, copied, committed, asyncs, serverClosed>>

ServerAnswer ==
  \/ srv.mode = "busy" /\ emitted[srv.req] < MaxRows /\ Emit("row", "busy")
  \/ srv.mode = "busy" /\ Emit("error", "ending")
  \/ srv.mode = "busy" /\ Emit("ready", "idle")
  \/ srv.mode = "copystart" /\ Emit("copyin", "copy")
  \/ srv.mode = "complete" /\ Emit("row", "ending")
  \/ srv.mode = "failing" /\ Emit("error", "ending")
  \/ srv.mode = "copyerror" /\ Emit("error", "skip")
  \/ srv.mode = "ending" /\ Emit("ready", "idle")

\* The server refuses the COPY before it has read the Sync that follows
\* Execute, so that this Sync is answered with ReadyForQuery.
ServerRefusesCopy ==
  /\ EarlyCopyError
  /\ srv.mode = "copystart"
  /\ Emit("error", "ending")

\* Something no request asked for: a notice, notification or parameter.
ServerAsync(k) ==
  /\ Len(fromServer) < RecvCap /\ ~serverClosed
  /\ asyncs < MaxAsync
  /\ asyncs' = asyncs + 1
  /\ fromServer' = Append(fromServer, Lone(k))
  /\ Wake("stream")
  /\ UNCHANGED <<serverFrame, outbound, flushed, srv, emitted, served, copied, committed,
                 serverClosed>>

\* The server goes away, with or without a last ErrorResponse.
ServerClose ==
  /\ ServerMayClose /\ ~serverClosed
  /\ serverClosed' = TRUE
  /\ \/ UNCHANGED fromServer
     \/ fromServer' = Append(fromServer, Lone("fatal"))
  /\ awake' = (awake \/ wakers \cap {"stream", "socket"} # {})
  /\ wakers' = wakers \ {"stream", "socket"}
  /\ UNCHANGED <<serverFrame, outbound, flushed, srv, emitted, served, copied, committed, asyncs>>

Server == ServerRead \/ ServerAnswer \/ ServerRefusesCopy

-----------------------------------------------------------------------------
Application ==
  \/ \E k \in Kind : (k = "copy" => CopyUsed) /\ Send(k)
  \/ DropClient
  \/ \E r \in Request :
       \/ NextMessage(r) \/ SeeClosed(r) \/ DropResponses(r)
       \/ CopyStart(r) \/ SinkPut(r) \/ SinkFlush(r) \/ BeginFinish(r) \/ FinishDone(r)

\* Everything is over.
Terminated ==
  /\ pc = "dropped" /\ ~clientOpen
  /\ \A r \in Request : task[r] # "waiting"
  /\ UNCHANGED vars

Next ==
  \/ Application
  \/ Poll
  \/ Server
  \/ \E k \in AsyncKind : ServerAsync(k)
  \/ ServerClose
  \/ Terminated

Spec == Init /\ [][Next]_vars

(***************************************************************************)
(* Fairness: the executor polls a woken Connection and drops a resolved    *)
(* one; the server reads and answers; a task that awaits its Responses or  *)
(* its sink is polled when there is something for it; an application that  *)
(* opens a CopyInSink finishes or drops it.  Nothing makes the Client or a *)
(* Responses be dropped.                                                   *)
(***************************************************************************)
Fairness ==
  /\ WF_vars(Poll)
  /\ WF_vars(Server)
  /\ \A r \in Request :
       /\ WF_vars(NextMessage(r)) /\ WF_vars(SeeClosed(r))
       /\ WF_vars(CopyStart(r))
       /\ WF_vars(BeginFinish(r))
       /\ WF_vars(sink[r] = "finishing" /\ SinkFlush(r))
       /\ WF_vars(FinishDone(r))

FairSpec == Spec /\ Fairness

-----------------------------------------------------------------------------
(***************************************************************************)
(* Properties.                                                             *)
(***************************************************************************)

ClientTypeOK ==
  /\ clientOpen \in BOOLEAN
  /\ requests \in Seq(Kind) /\ Len(requests) <= MaxRequests

TaskTypeOK ==
  /\ task \in [Request -> TaskState]
  /\ chan \in [Request -> Seq(Chunk)]
  /\ cur \in [Request -> Seq(Msg)]
  /\ got \in [Request -> Nat]

SinkTypeOK ==
  /\ sink \in [Request -> SinkState]
  /\ copyChan \in [Request -> Seq(CopyMsg)]
  /\ sinkBuf \in [Request -> Nat]
  /\ put \in [Request -> Nat]

WakeTypeOK ==
  /\ pc \in {"parked", "read", "write", "flush", "end", "finished", "dropped"}
  /\ awake \in BOOLEAN
  /\ wakers \in SUBSET {"stream", "sender", "request", "copy", "socket"}

ConnTypeOK ==
  /\ receiver \in Seq(Request)
  /\ pendingRequest \in 0 .. MaxRequests
  /\ copyDone \in BOOLEAN
  /\ pendingResponses \in Seq(Chunk)
  /\ responses \in Seq(Request)
  /\ state \in {"Active", "Closing"}
  /\ message \in BOOLEAN
  /\ result \in {"running", "ok", "error"}
  /\ inbox \in [Request -> Seq(Msg)]

WireTypeOK ==
  /\ outbound \in Seq(OutMsg)
  /\ flushed \in 0 .. Len(outbound)
  /\ fromServer \in Seq(Msg)

ServerTypeOK ==
  /\ srv \in ServerState
  /\ emitted \in [Request -> Nat]
  /\ served \in Nat
  /\ copied \in [Request -> Nat]
  /\ committed \in SUBSET Request
  /\ asyncs \in 0 .. MaxAsync
  /\ serverClosed \in BOOLEAN

\* Every variable has its type: in particular no chunk is empty, a server at
\* work has a request, and no more is flushed than was written.
TypeOK ==
  /\ ClientTypeOK /\ TaskTypeOK /\ SinkTypeOK /\ WakeTypeOK
  /\ ConnTypeOK /\ WireTypeOK /\ ServerTypeOK

\* Every message paged to a request was caused by that request, whatever else
\* is pipelined, dropped or interleaved (the queue `responses` matched against
\* the stream in poll_read).  The server's last word, which no request caused,
\* is the one exception.
RoutedToOwner ==
  \A r \in Request : \A i \in 1 .. Len(inbox[r]) :
    inbox[r][i].kind # "fatal" => inbox[r][i].req = r

\* A request is paged the messages of its answer in order with none missing:
\* neither the codec's chunks nor the detour through pending_responses
\* reorders or drops one.
PagedInOrder ==
  \A r \in Request : \A i \in 1 .. Len(inbox[r]) :
    inbox[r][i].req = r => inbox[r][i].idx = i

\* No message is lost on the way to the task that waits for it.  It is paged
\* its answer in order; its stream ends normally only after the whole answer,
\* whatever back pressure (pending_responses) and the codec's chunks did to
\* it; and it sees Error::closed only after the Connection has resolved.
NothingLost ==
  /\ PagedInOrder
  /\ \A r \in Request :
       /\ task[r] = "done" /\ sink[r] = "none" => got[r] = emitted[r]
       /\ task[r] = "closed" => result # "running"

\* "only resolves when the connection is closed, either because a fatal error
\* has occurred, or because its associated Client has dropped and all
\* outstanding work has completed": Err only when the server went away, Ok
\* only when the Client is gone and every request was answered to the end.
ResolvesOnlyAtEnd ==
  /\ result = "error" => serverClosed
  /\ result = "ok" =>
       /\ ~clientOpen
       /\ \A r \in 1 .. Len(requests) :
            inbox[r] # <<>> /\ inbox[r][Len(inbox[r])].kind \in {"ready", "fatal"}

\* What the next poll of a parked Connection could do at once.
CanRead ==
  /\ state = "Active"
  /\ IF pendingResponses = <<>>
       THEN fromServer # <<>> \/ serverClosed
       ELSE \/ IsAsyncChunk(pendingResponses[1])
            \/ responses = <<>>
            \/ ChanReady(responses[1])

CanWrite ==
  /\ StreamReady
  /\ IF pendingRequest # 0
       THEN copyDone \/ copyChan[pendingRequest] # <<>> \/ SenderGone(pendingRequest)
       ELSE receiver # <<>> \/ (AtEof /\ responses = <<>>)

CanFlush == Unflushed > 0 /\ SocketTakes > flushed

\* A Connection that sleeps without a wake-up on its way has nothing to do:
\* every early return of poll_read, poll_write and poll_flush leaves the
\* waker with whatever it is waiting for.  A write it could start is held back
\* only while the socket, which holds its waker, owes it room for what is
\* buffered: Framed::poll_ready asks for a full flush once the buffer has
\* reached the boundary, although what is left may then be below it.
NoLostWakeup ==
  pc = "parked" /\ ~awake =>
    /\ ~CanRead /\ ~CanFlush
    /\ CanWrite => Unflushed > 0 /\ "socket" \in wakers

\* "The copy must be explicitly completed via the Sink::close or finish
\* methods. If it is not, the copy will be aborted": a copy is carried out
\* only when finished, and with every item put into the sink.
CopyOnlyIfFinished ==
  \A r \in committed : sink[r] \in {"reading", "closed"} /\ copied[r] = put[r]

\* finish returns a row count only for a copy the server carried out.
FinishMeansCommitted ==
  \A r \in Request : task[r] = "done" /\ sink[r] # "none" => r \in committed

\* Every task that awaits an answer gets one, an error, or Error::closed.
EveryRequestResolves ==
  \A r \in Request : task[r] = "waiting" ~> task[r] # "waiting"

\* Dropping the Client ends the connection, once outstanding work is done.
ClientDropEndsConnection == ~clientOpen ~> result # "running"

-----------------------------------------------------------------------------
(***************************************************************************)
(* The Connection implements the Pipeline: a request is complete once its  *)
(* Response has left `responses`, and counts as received what its inbox    *)
(* holds of its own answer, in place.                                      *)
(***************************************************************************)
PagedOwn(r) ==
  Cardinality({i \in 1 .. Len(inbox[r]) : inbox[r][i].req = r /\ inbox[r][i].idx = i})

Abstract == INSTANCE Pipeline WITH
  MaxPage   <- RecvCap,
  submitted <- Len(requests),
  completed <- Len(requests) - Len(receiver) - Len(responses),
  received  <- [r \in Request |-> PagedOwn(r)],
  closed    <- result # "running"

\* Requests are answered strictly in the order they were sent, each chunk
\* read going to the oldest one that is not complete.
ImplementsPipeline == Abstract!Spec
=============================================================================
