--------------------------- MODULE ConnectionInv ----------------------------
(***************************************************************************)
(* The inductive invariant behind Connection!RoutedToOwner: wherever a     *)
(* request is on its way round (request channel, write buffer, server,     *)
(* stream, pending_responses), the requests are there in the order they    *)
(* were sent, and exactly one ReadyForQuery stands or will stand for each  *)
(* entry of `responses`.  It presumes a server that does not refuse a COPY *)
(* before copy mode (~EarlyCopyError).                                     *)
(***************************************************************************)
EXTENDS Connection

\* Requests taken from the channel, and those answered to the end.
Popped    == Len(requests) - Len(receiver)
Completed == Popped - Len(responses)

\* The queues hold consecutive requests.
QueueInv ==
  /\ Len(receiver) + Len(responses) <= Len(requests)
  /\ \A i \in 1 .. Len(receiver) : receiver[i] = Popped + i
  /\ \A i \in 1 .. Len(responses) : responses[i] = Completed + i
  /\ pendingRequest # 0 => pendingRequest = Popped
  /\ copyDone => pendingRequest # 0
  /\ state = "Closing" => ~clientOpen /\ receiver = <<>> /\ responses = <<>>
                            /\ pendingRequest = 0

\* Requests whose last frontend message has been written.
Written == IF pendingRequest # 0 /\ ~copyDone THEN Popped - 1 ELSE Popped

Final == {"query", "done", "fail"}
First == {"query", "start"}

\* The server has read the last message of its current request, or only some.
AnswerModes == {"busy", "complete", "failing", "ending"}
CopyModes   == {"copystart", "copy", "copyerror", "skip"}

\* Requests whose last frontend message the server has read.
Taken == IF srv.mode \in AnswerModes THEN served + 1 ELSE served

\* The server works on the requests in order and on written ones only.
ServerInv ==
  /\ srv.mode # "idle" => srv.req = served + 1 /\ srv.req <= Popped
  /\ Completed <= served /\ Taken <= Written

\* The frontend messages not yet read: each belongs to a request that is taken
\* from the channel and not yet read to its last message; they are in request
\* order, each request's first message first and its last message last; and
\* every request that is written and not yet taken has its last message there.
OutboundInv ==
  /\ \A i \in 1 .. Len(outbound) :
       IF outbound[i].kind = "terminate"
         THEN i = Len(outbound) /\ state = "Closing"
         ELSE /\ Taken < outbound[i].req /\ outbound[i].req <= Popped
              /\ outbound[i].kind \in Final => outbound[i].req <= Written
              /\ outbound[i].kind \in First /\ srv.mode \in CopyModes =>
                   outbound[i].req > srv.req
  /\ \A i, j \in 1 .. Len(outbound) :
       i < j /\ outbound[j].kind # "terminate" =>
         /\ outbound[i].req <= outbound[j].req
         /\ outbound[i].kind \in Final \/ outbound[j].kind \in First =>
              outbound[i].req < outbound[j].req
  /\ \A n \in Taken + 1 .. Written :
       \E i \in 1 .. Len(outbound) : outbound[i].kind \in Final /\ outbound[i].req = n

\* The copy request r has not yet handed over its Bind, Execute and Sync.
Unstarted(r) ==
  sink[r] = "created" \/ (copyChan[r] # <<>> /\ copyChan[r][1].kind = "start")

\* A copy starts once, and before anything else of it is written.
CopyInv ==
  /\ \A r \in Request :
       /\ r > Len(requests) => sink[r] = "none"
       /\ sink[r] \in {"none", "created"} => copyChan[r] = <<>>
       /\ \A i \in 1 .. Len(copyChan[r]) : copyChan[r][i].kind = "start" => i = 1
       /\ Unstarted(r) =>
            /\ r <= Len(requests) /\ requests[r] = "copy"
            /\ srv.req # r /\ r > served
            /\ \A i \in 1 .. Len(outbound) : outbound[i].req # r

\* A chunk of the answer that is being paged out: the last message of the
\* answer, if it is there, comes last and has been counted by the server.
OwnChunk(c) ==
  \A i \in 1 .. Len(c) :
    /\ ~IsAsync(c[i])
    /\ c[i].kind = "fatal" \/ c[i].req = Completed + 1
    /\ c[i].kind = "ready" => i = Len(c) /\ Completed < served

\* Only the notices of the startup phase wait there in numbers.
HeldAlone ==
  \A i \in 1 .. Len(pendingResponses) :
    IsAsyncChunk(pendingResponses[i]) \/ Len(pendingResponses) = 1

\* pending_responses holds a chunk of the answer at the front of `responses`.
Holds == pendingResponses # <<>> /\ ~IsAsyncChunk(pendingResponses[1])
HeldComplete == Holds /\ RequestComplete(pendingResponses[1])

HeldInv ==
  /\ HeldAlone
  /\ Holds => responses # <<>> /\ OwnChunk(pendingResponses[1])

\* Requests whose last message has left the stream.
Seen == IF HeldComplete THEN Completed + 1 ELSE Completed

\* The stream: answers in request order, one ReadyForQuery per request that
\* the server has served and the Connection has not seen, and the server's
\* last word only once it has gone.
StreamInv ==
  /\ \A i \in 1 .. Len(fromServer) :
       /\ fromServer[i].kind = "fatal" => serverClosed
       /\ fromServer[i].kind \in AnswerKind =>
            /\ Seen < fromServer[i].req /\ fromServer[i].req <= Popped
            /\ fromServer[i].req <= served + 1
            /\ fromServer[i].kind = "ready" => fromServer[i].req <= served
  /\ \A i, j \in 1 .. Len(fromServer) :
       i < j /\ fromServer[i].kind \in AnswerKind /\ fromServer[j].kind \in AnswerKind =>
         /\ fromServer[i].req <= fromServer[j].req
         /\ fromServer[i].kind = "ready" => fromServer[i].req < fromServer[j].req
  /\ \A n \in Seen + 1 .. served :
       \E i \in 1 .. Len(fromServer) :
         fromServer[i].kind = "ready" /\ fromServer[i].req = n

\* A request is in the channel, among the unanswered, or was paged its last
\* message; Err is the server's doing, and Ok comes after Terminate.
EndInv ==
  /\ \A r \in 1 .. Completed : inbox[r] # <<>> /\ inbox[r][Len(inbox[r])].kind = "ready"
  /\ result = "error" => serverClosed
  /\ result = "ok" => state = "Closing"

\* The inductive invariant.
IInv ==
  /\ TypeOK /\ QueueInv /\ ServerInv /\ OutboundInv /\ CopyInv /\ HeldInv
  /\ StreamInv /\ EndInv /\ RoutedToOwner
-----------------------------------------------------------------------------
(***************************************************************************)
(* The inductive invariant behind Connection!NoLostWakeup: what each phase *)
(* of a poll has left behind by the time the next ones run.                *)
(***************************************************************************)

\* poll_read is over: the stream is empty, or the first Response's channel is
\* full, and the waker is there.
ReadWaits ==
  pc \in {"write", "flush", "end", "parked"} /\ ~awake /\ ~message /\ state = "Active" =>
    IF pendingResponses = <<>>
      THEN fromServer = <<>> /\ ~serverClosed /\ "stream" \in wakers
      ELSE /\ ~IsAsyncChunk(pendingResponses[1]) /\ responses # <<>>
           /\ ~ChanReady(responses[1]) /\ "sender" \in wakers

\* Whatever is buffered waits for a socket that took all it could.
SocketWaits ==
  Unflushed > 0 => ~serverClosed /\ flushed = SocketTakes /\ "socket" \in wakers

\* The request being written, or the request channel, has nothing to give.
RequestWaits ==
  IF pendingRequest # 0
    THEN /\ ~copyDone /\ copyChan[pendingRequest] = <<>>
         /\ ~SenderGone(pendingRequest) /\ "copy" \in wakers
    ELSE /\ receiver = <<>>
         /\ IF clientOpen THEN "request" \in wakers ELSE responses # <<>>

\* poll_write is over: it waits for a request, or for the socket.
WriteWaits ==
  pc \in {"flush", "end", "parked"} /\ ~awake /\ state = "Active" =>
    \/ pc # "flush" /\ Unflushed > 0
    \/ RequestWaits

\* poll_flush, or poll_shutdown, is over.
FlushWaits ==
  ~awake /\ (pc = "parked" \/ (pc = "end" /\ state = "Active")) => SocketWaits

\* Terminate is the last thing written, once the Connection is closing.
TerminateLast ==
  state = "Active" => \A i \in 1 .. Len(outbound) : outbound[i].kind # "terminate"

WakeInv ==
  /\ ReadWaits /\ WriteWaits /\ FlushWaits
  /\ HeldAlone /\ TerminateLast
  /\ pc = "parked" => ~message
-----------------------------------------------------------------------------
(***************************************************************************)
(* The inductive invariant behind Connection!NothingLost: the messages of  *)
(* an answer keep their places in the stream, in pending_responses, in     *)
(* what was paged and in what the task has yet to read.                    *)
(***************************************************************************)

\* The messages of s that a request caused: all but the server's last word.
Own(s) == IF s # <<>> /\ s[Len(s)].kind = "fatal" THEN Len(s) - 1 ELSE Len(s)

\* Messages of r's answer that have left the stream.
Decoded(r) ==
  IF Holds /\ r = Completed + 1 THEN Len(inbox[r]) + Own(pendingResponses[1])
                                ELSE Own(inbox[r])

\* Nothing more will come.
Dry == serverClosed /\ fromServer = <<>>

\* The server's last word is the last.
FatalInv ==
  /\ \A i \in 1 .. Len(fromServer) : fromServer[i].kind = "fatal" => i = Len(fromServer)
  /\ Holds => \A i \in 1 .. Len(pendingResponses[1]) :
       pendingResponses[1][i].kind = "fatal" => i = Len(pendingResponses[1]) /\ Dry
  /\ \A r \in Request : \A i \in 1 .. Len(inbox[r]) :
       inbox[r][i].kind = "fatal" => i = Len(inbox[r]) /\ Dry /\ ~Holds

\* Places in the stream: the first message of r there follows what was
\* decoded, the last is the last sent, and one follows the other.
PlaceInv ==
  \A r \in Request :
    /\ (\A i \in 1 .. Len(fromServer) : fromServer[i].req # r) => emitted[r] = Decoded(r)
    /\ \A i \in 1 .. Len(fromServer) : fromServer[i].req = r =>
         /\ (\A j \in 1 .. i - 1 : fromServer[j].req # r) =>
              fromServer[i].idx = Decoded(r) + 1
         /\ (\A j \in i + 1 .. Len(fromServer) : fromServer[j].req # r) =>
              emitted[r] = fromServer[i].idx
         /\ \A j \in i + 1 .. Len(fromServer) : fromServer[j].req = r =>
              /\ (\A k \in i .. j : fromServer[k].req = r) =>
                   fromServer[j].idx = fromServer[i].idx + (j - i)
              /\ (\A k \in i + 1 .. j - 1 : fromServer[k].req # r) =>
                   fromServer[j].idx = fromServer[i].idx + 1

\* Places in what was decoded.
PagedInv ==
  /\ PagedInOrder
  /\ Holds => \A i \in 1 .. Len(pendingResponses[1]) :
       pendingResponses[1][i].kind # "fatal" =>
         pendingResponses[1][i].idx = Len(inbox[Completed + 1]) + i
  /\ \A r \in Request : \A i \in 1 .. Len(inbox[r]) :
       inbox[r][i].kind = "ready" => i = Len(inbox[r]) /\ r <= Completed

\* Messages in a channel of at most ChanCap chunks.
InChan(ch) == (IF Len(ch) > 0 THEN Len(ch[1]) ELSE 0) + (IF Len(ch) > 1 THEN Len(ch[2]) ELSE 0)

\* A task has been given the first g messages of box; cu, the chunk it is
\* reading, and ch, its channel, hold the rest; it has not been given the end.
Splits(box, g, cu, ch) ==
  /\ Len(ch) <= ChanCap
  /\ g + Len(cu) + InChan(ch) = Len(box)
  /\ \A i \in 1 .. Len(cu) : cu[i] = box[g + i]
  /\ Len(ch) > 0 => \A i \in 1 .. Len(ch[1]) : ch[1][i] = box[g + Len(cu) + i]
  /\ Len(ch) > 1 => \A i \in 1 .. Len(ch[2]) : ch[2][i] = box[g + Len(cu) + Len(ch[1]) + i]
  /\ g > 0 => box[g].kind # "ready"

Aligned(r) == Splits(inbox[r], got[r], cur[r], chan[r])

TaskInv ==
  /\ \A r \in Request :
       /\ task[r] = "unsent" <=> r > Len(requests)
       /\ task[r] \in {"unsent", "waiting"} => Aligned(r)
       /\ task[r] = "done" /\ sink[r] = "none" =>
            got[r] = Len(inbox[r]) /\ r <= Completed
       /\ task[r] = "closed" => result # "running"
  /\ pc \in {"finished", "dropped"} => result # "running"

DeliveryInv == FatalInv /\ PlaceInv /\ PagedInv /\ TaskInv
-----------------------------------------------------------------------------
(***************************************************************************)
(* The inductive invariant behind Connection!FinishMeansCommitted.         *)
(***************************************************************************)

\* A CommandComplete is of a query, or of a copy that was carried out.
RowOk(m) ==
  m.kind = "row" =>
    m.req <= Len(requests) /\ (requests[m.req] = "single" \/ m.req \in committed)

\* Only a query makes the server busy, only CopyDone makes it complete.
QueryInv ==
  /\ \A i \in 1 .. Len(outbound) : outbound[i].kind = "query" =>
       outbound[i].req <= Len(requests) /\ requests[outbound[i].req] = "single"
  /\ srv.mode = "busy" => srv.req <= Len(requests) /\ requests[srv.req] = "single"
  /\ srv.mode = "complete" => srv.req <= Len(requests) /\ srv.req \in committed

\* Wherever a CommandComplete is on its way to the task.
RowInv ==
  /\ \A i \in 1 .. Len(fromServer) : RowOk(fromServer[i])
  /\ Holds => \A i \in 1 .. Len(pendingResponses[1]) : RowOk(pendingResponses[1][i])
  /\ \A r \in Request : \A i \in 1 .. Len(inbox[r]) : RowOk(inbox[r][i])

\* A sink belongs to a copy, and one that finished to a copy carried out.
SinksInv ==
  \A r \in Request :
    /\ sink[r] # "none" => r <= Len(requests) /\ requests[r] = "copy"
    /\ task[r] = "done" /\ sink[r] # "none" => r \in committed

CommitInv == QueryInv /\ RowInv /\ SinksInv
-----------------------------------------------------------------------------
(***************************************************************************)
(* What Connection!ImplementsPipeline needs besides: a chunk holds no more *)
(* than the socket took, and a poll goes on only while the future runs.    *)
(***************************************************************************)
PageInv ==
  /\ Own(fromServer) <= RecvCap
  /\ Holds => Own(pendingResponses[1]) <= RecvCap
  /\ result # "running" => pc \in {"finished", "dropped"}
-----------------------------------------------------------------------------
(***************************************************************************)
(* The inductive invariant behind Connection!CopyOnlyIfFinished: the items *)
(* of a copy are in the sink, in its channel, among the frontend messages  *)
(* or copied, and Done is the last thing a sink sends.                     *)
(***************************************************************************)

\* What follows the start of a copy is behind it.
StartInv ==
  /\ \A i \in 1 .. Len(outbound) : outbound[i].kind \in {"data", "done", "fail"} =>
       \/ srv.req = outbound[i].req /\ srv.mode \in CopyModes
       \/ \E j \in 1 .. i - 1 : outbound[j].kind = "start" /\ outbound[j].req = outbound[i].req
  /\ pc # "dropped" => \A r \in Request :
       sink[r] # "none" /\ ~Unstarted(r) /\ r > Taken =>
         \/ srv.req = r /\ srv.mode \in CopyModes
         \/ \E j \in 1 .. Len(outbound) : outbound[j].kind = "start" /\ outbound[j].req = r

\* Done is sent once, by a sink that has flushed and will send no more.
DoneInv ==
  \A r \in Request :
    /\ Len(copyChan[r]) <= ChanCap
    /\ \A i \in 1 .. Len(copyChan[r]) : copyChan[r][i].kind = "done" =>
         i = Len(copyChan[r]) /\ sink[r] \in {"reading", "closed"}
    /\ sink[r] \notin {"active", "finishing"} => sinkBuf[r] = 0
    /\ r \in committed \/ (\E i \in 1 .. Len(outbound) :
                             outbound[i].kind = "done" /\ outbound[i].req = r) =>
         copyChan[r] = <<>> /\ sink[r] \in {"reading", "closed"}
    /\ r \in committed => r <= Taken

\* Items of a message, of r in a frontend message, and in a sink's channel.
Items(x) == IF x.kind = "data" THEN x.n ELSE 0
ItemsOf(m, r) == IF m.req = r THEN Items(m) ELSE 0
ChanItems(ch) ==
  (IF Len(ch) > 0 THEN Items(ch[1]) ELSE 0) + (IF Len(ch) > 1 THEN Items(ch[2]) ELSE 0)

\* The messages out bring the items of r from a to z: f[i] is what they come
\* to after the first i messages.
Sums(out, r, a, z) ==
  \E f \in [0 .. Len(out) -> 0 .. z] :
    /\ f[0] = a /\ f[Len(out)] = z
    /\ \A i \in 1 .. Len(out) : f[i] = f[i - 1] + ItemsOf(out[i], r)
    /\ \A i \in 0 .. Len(out) :
         (\A k \in i + 1 .. Len(out) : ItemsOf(out[k], r) = 0) => f[i] = z

\* The server has carried out copy r, or may still do so.
Live(r) ==
  \/ r \in committed
  \/ r > served /\ (srv.req = r => srv.mode \in {"copystart", "copy"})

\* No item of a copy that may be carried out is lost or counted twice.
AmountInv ==
  \A r \in Request : sink[r] # "gone" /\ Live(r) =>
    Sums(outbound, r, copied[r], put[r] - sinkBuf[r] - ChanItems(copyChan[r]))

ItemsInv == StartInv /\ DoneInv /\ AmountInv
=============================================================================
