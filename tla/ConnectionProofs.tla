-------------------------- MODULE ConnectionProofs --------------------------
(***************************************************************************)
(* Proofs about Connection, for every value of its bounds: its types; that *)
(* no wakeup is lost; and that every answer reaches the request it belongs *)
(* to, where ConnectionInv!IInv is inductive as long as the server does    *)
(* not refuse a COPY before copy mode.                                     *)
(***************************************************************************)
EXTENDS ConnectionInv, TLAPS

\* What a task makes of a message is one of its states.
LEMMA OutcomeType ==
  ASSUME NEW r, NEW m
  PROVE  Outcome(r, m) \in TaskState
BY DEF Outcome, TaskState

\* A chunk of lone messages is a chunk.
LEMMA LoneType == \A k \in LoneKind : Lone(k) \in Msg /\ <<Lone(k)>> \in Chunk
BY DEF Lone, Msg, Chunk

\* The initial state is well typed.
LEMMA InitType == Init => TypeOK
<1> SUFFICES ASSUME Init PROVE TypeOK
  OBVIOUS
<1> USE ConnectionAssumption DEF Init, Request
<1>1. ClientTypeOK
  BY DEF ClientTypeOK, Kind
<1>2. TaskTypeOK
  BY DEF TaskTypeOK, TaskState
<1>3. SinkTypeOK
  BY DEF SinkTypeOK, SinkState
<1>4. WakeTypeOK
  BY DEF WakeTypeOK
<1>5. ConnTypeOK
  <2>1. pendingResponses \in Seq(Chunk)
    BY LoneType DEF LoneKind, AsyncKind
  <2>2. receiver \in Seq(Request) /\ responses \in Seq(Request)
    OBVIOUS
  <2>3. inbox \in [Request -> Seq(Msg)]
    OBVIOUS
  <2>4. pendingRequest \in 0 .. MaxRequests
    OBVIOUS
  <2> QED BY <2>1, <2>2, <2>3, <2>4, Zenon DEF ConnTypeOK
<1>6. WireTypeOK
  BY DEF WireTypeOK
<1>7. ServerTypeOK
  <2>1. srv \in ServerState
    BY DEF ServerState
  <2>2. emitted \in [Request -> Nat] /\ copied \in [Request -> Nat]
    OBVIOUS
  <2>3. committed \in SUBSET Request /\ asyncs \in 0 .. MaxAsync
    OBVIOUS
  <2> QED BY <2>1, <2>2, <2>3, Zenon DEF ServerTypeOK
<1> QED BY <1>1, <1>2, <1>3, <1>4, <1>5, <1>6, <1>7 DEF TypeOK

-----------------------------------------------------------------------------
(***************************************************************************)
(* Type correctness.  An action leaves most parts of TypeOK alone; the     *)
(* parts it changes are the steps of its lemma.                            *)
(***************************************************************************)
\* What an action leaves alone stays well typed.
LEMMA Kept ==
  /\ ClientTypeOK /\ UNCHANGED clientVars => ClientTypeOK'
  /\ TaskTypeOK /\ UNCHANGED taskVars => TaskTypeOK'
  /\ SinkTypeOK /\ UNCHANGED sinkVars => SinkTypeOK'
  /\ WakeTypeOK /\ UNCHANGED <<pc, wakeVars>> => WakeTypeOK'
  /\ ConnTypeOK /\ UNCHANGED connVars => ConnTypeOK'
  /\ WireTypeOK /\ UNCHANGED wireVars => WireTypeOK'
  /\ ServerTypeOK /\ UNCHANGED serverVars => ServerTypeOK'
BY DEF ClientTypeOK, TaskTypeOK, SinkTypeOK, WakeTypeOK, ConnTypeOK, WireTypeOK,
   ServerTypeOK, clientVars, taskVars, sinkVars, wakeVars, connVars, wireVars,
   serverVars

\* Waking keeps the wakers well typed.
LEMMA WakeType ==
  ASSUME WakeTypeOK, UNCHANGED pc, NEW r,
         \/ \E x : Wake(x)
         \/ WakeSender(r) \/ WakeCopy(r) \/ WakeDropped(r)
         \/ UNCHANGED wakeVars
  PROVE  WakeTypeOK'
BY DEF WakeTypeOK, Wake, WakeSender, WakeCopy, WakeDropped, wakeVars

\* InnerClient::send keeps the state well typed.
LEMMA SendType == ASSUME TypeOK, NEW k \in Kind, Send(k) PROVE TypeOK'
<1> USE ConnectionAssumption DEF TypeOK, Send
<1>1. Len(requests) + 1 \in Request
  BY DEF ClientTypeOK, Request
<1>2. ClientTypeOK'
  BY DEF ClientTypeOK
<1>3. TaskTypeOK'
  BY <1>1 DEF TaskTypeOK, TaskState
<1>4. SinkTypeOK'
  BY <1>1 DEF SinkTypeOK, SinkState
<1>5. WakeTypeOK'
  BY WakeType
<1>6. ConnTypeOK'
  BY <1>1 DEF ConnTypeOK
<1> QED BY <1>2, <1>3, <1>4, <1>5, <1>6, Kept

\* Dropping the Client keeps the state well typed.
LEMMA DropClientType == ASSUME TypeOK, DropClient PROVE TypeOK'
<1> USE DEF TypeOK, DropClient
<1>1. ClientTypeOK'
  BY DEF ClientTypeOK
<1>2. WakeTypeOK'
  BY WakeType
<1> QED BY <1>1, <1>2, Kept

\* Dropping a Responses keeps the channels and the sink well typed.
LEMMA DropReceiverType ==
  ASSUME TaskTypeOK, SinkTypeOK, NEW r \in Request, DropReceiver(r),
         UNCHANGED <<copyChan, put>>
  PROVE  /\ chan' \in [Request -> Seq(Chunk)]
         /\ cur' \in [Request -> Seq(Msg)]
         /\ SinkTypeOK'
BY DEF TaskTypeOK, SinkTypeOK, DropReceiver, SinkState

\* Responses::poll_next keeps the state well typed.
LEMMA NextMessageType ==
  ASSUME TypeOK, NEW r \in Request, NextMessage(r) PROVE TypeOK'
<1> USE DEF TypeOK
<1> DEFINE fresh == cur[r] = <<>>
           chunk == IF fresh THEN chan[r][1] ELSE cur[r]
           next  == Outcome(r, chunk[1])
<1>0. /\ fresh => chan[r] # <<>>
      /\ got' = [got EXCEPT ![r] = @ + 1]
      /\ task' = [task EXCEPT ![r] = next]
      /\ UNCHANGED <<clientVars, copyChan, put, pc, connVars, wireVars, serverVars>>
  BY DEF NextMessage
<1>1. task' \in [Request -> TaskState] /\ got' \in [Request -> Nat]
  BY <1>0, OutcomeType DEF TaskTypeOK
<1>2. chunk \in Chunk
  <2>1. CASE fresh
    BY <2>1, <1>0 DEF TaskTypeOK
  <2>2. CASE ~fresh
    BY <2>2 DEF TaskTypeOK, Chunk
  <2> QED BY <2>1, <2>2
<1>3. CASE next = "waiting"
  <2>1. /\ cur' = [cur EXCEPT ![r] = Tail(chunk)]
        /\ chan' = IF fresh THEN [chan EXCEPT ![r] = Tail(@)] ELSE chan
        /\ sink' = IF sink[r] = "starting" THEN [sink EXCEPT ![r] = "active"]
                                           ELSE sink
        /\ UNCHANGED sinkBuf
        /\ IF fresh THEN WakeSender(r) ELSE UNCHANGED wakeVars
    BY <1>3 DEF NextMessage
  <2>2. Tail(chunk) \in Seq(Msg)
    BY <1>2 DEF Chunk
  <2>3. chan' \in [Request -> Seq(Chunk)]
    BY <2>1, <1>0 DEF TaskTypeOK
  <2>4. TaskTypeOK'
    BY <2>1, <2>2, <2>3, <1>1 DEF TaskTypeOK
  <2>5. SinkTypeOK'
    BY <2>1, <1>0 DEF SinkTypeOK, SinkState
  <2>6. WakeTypeOK'
    BY <2>1, <1>0, WakeType
  <2> QED BY <2>4, <2>5, <2>6, <1>0, Kept
<1>4. CASE next # "waiting"
  <2>1. DropReceiver(r) /\ WakeDropped(r)
    BY <1>4 DEF NextMessage
  <2>2. TaskTypeOK' /\ SinkTypeOK'
    BY <2>1, <1>0, <1>1, DropReceiverType DEF TaskTypeOK
  <2>3. WakeTypeOK'
    BY <2>1, <1>0, WakeType
  <2> QED BY <2>2, <2>3, <1>0, Kept
<1> QED BY <1>3, <1>4

\* A task that leaves its Responses keeps the state well typed.
LEMMA LeaveType ==
  ASSUME TypeOK, NEW r \in Request, SeeClosed(r) \/ DropResponses(r) PROVE TypeOK'
<1> USE DEF TypeOK
<1>0. /\ task' \in {[task EXCEPT ![r] = "closed"], [task EXCEPT ![r] = "dropped"]}
      /\ DropReceiver(r) /\ WakeDropped(r)
      /\ UNCHANGED <<clientVars, got, copyChan, put, pc, connVars, wireVars, serverVars>>
  BY DEF SeeClosed, DropResponses
<1>1. TaskTypeOK' /\ SinkTypeOK'
  BY <1>0, DropReceiverType DEF TaskTypeOK, TaskState
<1>2. WakeTypeOK'
  BY <1>0, WakeType
<1> QED BY <1>0, <1>1, <1>2, Kept

\* A message put into the sink's channel keeps it well typed.
LEMMA CopySendType ==
  ASSUME SinkTypeOK, WakeTypeOK, NEW r \in Request, UNCHANGED pc,
         NEW k \in {"start", "data", "done"}, NEW n \in Nat, CopySend(r, k, n)
  PROVE  copyChan' \in [Request -> Seq(CopyMsg)] /\ WakeTypeOK'
<1>1. WakeTypeOK'
  BY WakeType DEF CopySend
<1>2. copyChan' \in [Request -> Seq(CopyMsg)]
  BY DEF SinkTypeOK, CopySend, CopyMsg
<1> QED BY <1>1, <1>2

\* The CopyInSink operations keep the state well typed.
LEMMA SinkType ==
  ASSUME TypeOK, NEW r \in Request,
         \/ CopyStart(r) \/ SinkPut(r) \/ SinkFlush(r)
         \/ BeginFinish(r) \/ FinishDone(r)
  PROVE  TypeOK'
<1> USE DEF TypeOK
<1>0. UNCHANGED <<clientVars, taskVars, pc, connVars, wireVars, serverVars>>
  BY DEF CopyStart, SinkPut, SinkFlush, BeginFinish, FinishDone
<1>1. ASSUME CopyStart(r) PROVE SinkTypeOK' /\ WakeTypeOK'
  BY <1>0, <1>1, CopySendType DEF CopyStart, SinkTypeOK, SinkState
<1>2. ASSUME SinkPut(r) PROVE SinkTypeOK' /\ WakeTypeOK'
  <2>1. CASE UNCHANGED <<copyChan, wakeVars>> /\ sinkBuf' = [sinkBuf EXCEPT ![r] = @ + 1]
    BY <1>0, <1>2, <2>1, Kept DEF SinkPut, SinkTypeOK, wakeVars
  <2>2. CASE CopySend(r, "data", sinkBuf[r] + 1) /\ sinkBuf' = [sinkBuf EXCEPT ![r] = 0]
    <3>1. sinkBuf[r] + 1 \in Nat
      BY DEF SinkTypeOK
    <3>2. copyChan' \in [Request -> Seq(CopyMsg)] /\ WakeTypeOK'
      BY <1>0, <2>2, <3>1, CopySendType
    <3>3. put' \in [Request -> Nat] /\ sink' = sink
      BY <1>2 DEF SinkPut, SinkTypeOK
    <3> QED BY <2>2, <3>2, <3>3 DEF SinkTypeOK
  <2> QED BY <1>2, <2>1, <2>2 DEF SinkPut
<1>3. ASSUME SinkFlush(r) PROVE SinkTypeOK' /\ WakeTypeOK'
  <2>1. sinkBuf[r] \in Nat
    BY DEF SinkTypeOK
  <2>2. copyChan' \in [Request -> Seq(CopyMsg)] /\ WakeTypeOK'
    BY <1>0, <1>3, <2>1, CopySendType DEF SinkFlush
  <2> QED BY <1>3, <2>2 DEF SinkFlush, SinkTypeOK
<1>4. ASSUME BeginFinish(r) PROVE SinkTypeOK' /\ WakeTypeOK'
  BY <1>4, Kept DEF BeginFinish, SinkTypeOK, SinkState
<1>5. ASSUME FinishDone(r) PROVE SinkTypeOK' /\ WakeTypeOK'
  BY <1>0, <1>5, CopySendType DEF FinishDone, SinkTypeOK, SinkState
<1> QED BY <1>0, <1>1, <1>2, <1>3, <1>4, <1>5, Kept

-----------------------------------------------------------------------------
\* The start of a poll keeps the state well typed.
LEMMA PollStartType == ASSUME TypeOK, PollStart PROVE TypeOK'
<1>1. WakeTypeOK'
  BY DEF TypeOK, PollStart, WakeTypeOK
<1> QED BY <1>1, Kept DEF TypeOK, PollStart

\* A decoded run of messages is a chunk, and what is left is a stream.
LEMMA DecodeType ==
  ASSUME WireTypeOK, NEW k \in 1 .. Len(fromServer)
  PROVE  /\ SubSeq(fromServer, 1, k) \in Chunk
         /\ SubSeq(fromServer, k + 1, Len(fromServer)) \in Seq(Msg)
BY DEF WireTypeOK, Chunk

\* One arm of poll_read, for a chunk and the remainders it is given.
LEMMA ReadMessageType ==
  ASSUME TypeOK, pc = "read", NEW c \in Chunk, NEW pend \in Seq(Chunk),
         NEW strm \in Seq(Msg), ReadMessage(c, pend, strm)
  PROVE  TypeOK'
<1> USE DEF TypeOK
<1>0. UNCHANGED readFrame /\ pendingResponses' \in Seq(Chunk) /\ fromServer' = strm
  <2>1. CASE ReadBlocked(c, pend, strm)
    <3>1. UNCHANGED readFrame /\ pendingResponses' = Append(pend, c) /\ fromServer' = strm
      BY <2>1 DEF ReadBlocked
    <3>2. Append(pend, c) \in Seq(Chunk)
      OBVIOUS
    <3> QED BY <3>1, <3>2
  <2>2. CASE ReadAsync(c, pend, strm) \/ ReadUnexpected(c, pend, strm) \/ ReadPage(c, pend, strm)
    <3>1. UNCHANGED readFrame /\ pendingResponses' = pend /\ fromServer' = strm
      BY <2>2 DEF ReadAsync, ReadUnexpected, ReadPage
    <3> QED BY <3>1
  <2> QED BY <2>1, <2>2 DEF ReadMessage
<1>1. ClientTypeOK' /\ SinkTypeOK' /\ ServerTypeOK'
  BY <1>0, Kept DEF readFrame
<1>2. WireTypeOK'
  BY <1>0 DEF readFrame, WireTypeOK
<1>3. WakeTypeOK'
  BY <1>0 DEF readFrame, WakeTypeOK, ReadMessage, ReadAsync, ReadUnexpected,
     ReadPage, ReadBlocked, Resolve
<1>4. TaskTypeOK'
  <2>1. CASE ReadPage(c, pend, strm)
    <3>1. responses[1] \in Request
      BY <2>1 DEF ReadPage, ConnTypeOK
    <3>2. chan' \in [Request -> Seq(Chunk)]
      BY <2>1, <3>1 DEF ReadPage, TaskTypeOK
    <3> QED BY <3>2, <1>0 DEF TaskTypeOK, readFrame
  <2>2. CASE ~ReadPage(c, pend, strm)
    BY <1>0, <2>2 DEF TaskTypeOK, readFrame, ReadMessage, ReadAsync, ReadUnexpected,
       ReadBlocked
  <2> QED BY <2>1, <2>2
<1>5. ConnTypeOK'
  <2>0. UNCHANGED <<receiver, pendingRequest, copyDone, state>>
    BY <1>0 DEF readFrame
  <2>1. CASE ReadPage(c, pend, strm)
    <3>1. responses[1] \in Request /\ Tail(responses) \in Seq(Request)
      BY <2>1 DEF ReadPage, ConnTypeOK
    <3>2. responses' \in Seq(Request)
      BY <2>1, <3>1 DEF ReadPage, AfterPage, ConnTypeOK
    <3>3. inbox' \in [Request -> Seq(Msg)]
      BY <2>1, <3>1 DEF ReadPage, ConnTypeOK, Chunk
    <3>4. UNCHANGED <<message, result>>
      BY <2>1 DEF ReadPage
    <3> QED BY <1>0, <2>0, <3>2, <3>3, <3>4 DEF ConnTypeOK
  <2>2. CASE ~ReadPage(c, pend, strm)
    <3>1. /\ UNCHANGED <<responses, inbox>>
          /\ message' \in BOOLEAN /\ result' \in {"running", "ok", "error"}
      BY <2>2 DEF ReadMessage, ReadAsync, ReadUnexpected, ReadBlocked, Resolve, ConnTypeOK
    <3> QED BY <1>0, <2>0, <3>1 DEF ConnTypeOK
  <2> QED BY <2>1, <2>2
<1> QED BY <1>1, <1>2, <1>3, <1>4, <1>5

\* poll_read keeps the state well typed.
LEMMA PollReadType == ASSUME TypeOK, PollRead PROVE TypeOK'
<1> USE DEF TypeOK
<1>0. pc = "read"
  BY DEF PollRead
<1>1. ASSUME ReadSkip \/ ReadPending \/ ReadEof PROVE TypeOK'
  <2>0. /\ UNCHANGED <<readFrame, chan, pendingResponses, responses, message, inbox,
                       fromServer>>
        /\ result' \in {result, "error"}
    BY <1>1 DEF ReadSkip, ReadPending, ReadEof, Resolve
  <2>1. WakeTypeOK'
    BY <1>1 DEF WakeTypeOK, ReadSkip, ReadPending, ReadEof, Resolve, readFrame
  <2>2. ConnTypeOK'
    BY <2>0 DEF ConnTypeOK, readFrame
  <2>3. TaskTypeOK' /\ WireTypeOK'
    BY <2>0, Kept DEF readFrame, taskVars, wireVars
  <2>4. ClientTypeOK' /\ SinkTypeOK' /\ ServerTypeOK'
    BY <2>0, Kept DEF readFrame
  <2> QED BY <2>1, <2>2, <2>3, <2>4
<1>2. ASSUME pendingResponses # <<>>,
             ReadMessage(pendingResponses[1], Tail(pendingResponses), fromServer)
      PROVE  TypeOK'
  <2>1. /\ pendingResponses[1] \in Chunk
        /\ Tail(pendingResponses) \in Seq(Chunk)
        /\ fromServer \in Seq(Msg)
    BY <1>2 DEF ConnTypeOK, WireTypeOK
  <2> QED BY <1>0, <1>2, <2>1, ReadMessageType
<1>3. ASSUME NEW k \in 1 .. Len(fromServer),
             ReadMessage(SubSeq(fromServer, 1, k), <<>>,
                         SubSeq(fromServer, k + 1, Len(fromServer)))
      PROVE  TypeOK'
  <2>1. <<>> \in Seq(Chunk)
    OBVIOUS
  <2> QED BY <1>0, <1>3, <2>1, DecodeType, ReadMessageType
<1> QED BY <1>1, <1>2, <1>3 DEF PollRead

\* What the socket takes is at most what was written.
LEMMA SocketTakesType ==
  ASSUME WireTypeOK PROVE SocketTakes \in 0 .. Len(outbound)
BY ConnectionAssumption DEF WireTypeOK, SocketTakes, Smaller

\* A frontend message written keeps the wire well typed.
LEMMA OutType ==
  /\ \A r \in Request, n \in Nat, k \in OutKind \ {"terminate"} : Out(k, r, n) \in OutMsg
  /\ Out("terminate", 0, 0) \in OutMsg
BY DEF Out, OutMsg

\* What poll_write leaves alone stays well typed.
LEMMA WroteType ==
  ASSUME WireTypeOK, NEW m \in OutMsg, outbound' = Append(outbound, m),
         UNCHANGED <<flushed, fromServer>>
  PROVE  WireTypeOK'
BY DEF WireTypeOK

\* What every step of poll_write leaves alone.
LEMMA WriteFrameType ==
  ASSUME TypeOK, UNCHANGED writeFrame
  PROVE  ClientTypeOK' /\ TaskTypeOK' /\ ServerTypeOK'
BY Kept DEF TypeOK, writeFrame

\* poll_request hands over a well-typed CopyIn request.
LEMMA TakeCopyType ==
  ASSUME ConnTypeOK, NEW r \in Request, TakeCopy(r)
  PROVE  receiver' \in Seq(Request) /\ responses' \in Seq(Request)
<1>1. CASE UNCHANGED <<receiver, responses>>
  BY <1>1 DEF ConnTypeOK
<1>2. CASE receiver # <<>> /\ receiver' = Tail(receiver) /\ responses' = Append(responses, r)
  BY <1>2 DEF ConnTypeOK
<1> QED BY <1>1, <1>2 DEF TakeCopy

\* Writing a copy message keeps the state well typed.
LEMMA WriteCopyType ==
  ASSUME TypeOK, pc = "write", NEW r \in Request,
         WriteCopy(r) \/ WriteCopyPending(r)
  PROVE  TypeOK'
<1> USE ConnectionAssumption DEF TypeOK
<1>0. /\ UNCHANGED <<writeFrame, state, result, flushed>>
      /\ TakeCopy(r) /\ pendingRequest' = r
  BY DEF WriteCopy, WriteCopyPending
<1>1. ConnTypeOK'
  <2>1. pendingRequest' \in 0 .. MaxRequests
    BY <1>0 DEF Request
  <2>2. copyDone' \in BOOLEAN
    BY DEF WriteCopy, WriteCopyPending, ConnTypeOK
  <2> QED BY <1>0, <2>1, <2>2, TakeCopyType DEF ConnTypeOK, writeFrame
<1>2. SinkTypeOK' /\ WireTypeOK' /\ WakeTypeOK'
  <2>1. CASE WriteCopyPending(r)
    BY <2>1, <1>0 DEF WriteCopyPending, SinkTypeOK, WireTypeOK, WakeTypeOK, writeFrame
  <2>2. CASE WriteCopy(r)
    <3>1. WakeTypeOK'
      BY <2>2, <1>0 DEF WriteCopy, WakeTypeOK, writeFrame
    <3>2. CASE /\ copyChan[r] # <<>>
               /\ copyChan' = [copyChan EXCEPT ![r] = Tail(@)]
               /\ outbound' = Append(outbound, Out(copyChan[r][1].kind, r, copyChan[r][1].n))
      <4>1. copyChan[r] \in Seq(CopyMsg) /\ copyChan[r][1] \in CopyMsg
        BY <3>2 DEF SinkTypeOK
      <4>2. Out(copyChan[r][1].kind, r, copyChan[r][1].n) \in OutMsg
        BY <4>1, OutType DEF CopyMsg, OutKind
      <4>3. WireTypeOK'
        BY <1>0, <3>2, <4>2, WroteType DEF writeFrame
      <4>4. SinkTypeOK'
        BY <1>0, <3>2, <4>1 DEF SinkTypeOK, writeFrame
      <4> QED BY <3>1, <4>3, <4>4
    <3>3. CASE UNCHANGED copyChan /\ outbound' = Append(outbound, Out(AbandonedCopy, r, 0))
      <4>1. Out(AbandonedCopy, r, 0) \in OutMsg
        BY OutType DEF AbandonedCopy, OutKind
      <4>2. WireTypeOK'
        BY <1>0, <3>3, <4>1, WroteType DEF writeFrame
      <4>3. SinkTypeOK'
        BY <1>0, <3>3 DEF SinkTypeOK, writeFrame
      <4> QED BY <3>1, <4>2, <4>3
    <3> QED BY <2>2, <3>2, <3>3 DEF WriteCopy
  <2> QED BY <2>1, <2>2
<1> QED BY <1>0, <1>1, <1>2, WriteFrameType

\* poll_write keeps the state well typed.
LEMMA PollWriteType == ASSUME TypeOK, PollWrite PROVE TypeOK'
<1> USE ConnectionAssumption DEF TypeOK
<1>0. pc = "write"
  BY DEF PollWrite
<1>1. ASSUME WriteClosing \/ WriteIdle \/ WriteCopyEnd PROVE TypeOK'
  <2>0. /\ UNCHANGED <<writeFrame, copyChan, receiver, responses, state, result,
                       outbound, flushed>>
        /\ pendingRequest' \in {0, pendingRequest} /\ copyDone' \in {FALSE, copyDone}
        /\ pc' \in {"end", "flush", pc} /\ wakers' \in {wakers, wakers \cup {"request"}}
    BY <1>1 DEF WriteClosing, WriteIdle, WriteCopyEnd
  <2>1. SinkTypeOK' /\ WireTypeOK'
    BY <2>0, Kept DEF writeFrame, sinkVars, wireVars
  <2>2. WakeTypeOK'
    BY <2>0 DEF writeFrame, WakeTypeOK
  <2>3. ConnTypeOK'
    <3>1. pendingRequest' \in 0 .. MaxRequests
      BY <2>0 DEF ConnTypeOK
    <3>2. copyDone' \in BOOLEAN
      BY <2>0 DEF ConnTypeOK
    <3> QED BY <2>0, <3>1, <3>2 DEF writeFrame, ConnTypeOK
  <2> QED BY <2>0, <2>1, <2>2, <2>3, WriteFrameType
<1>2. ASSUME WriteBackpressure PROVE TypeOK'
  <2>1. SinkTypeOK' /\ ConnTypeOK'
    BY <1>2, Kept DEF WriteBackpressure, writeFrame, sinkVars, connVars
  <2>2. WireTypeOK'
    BY <1>2, SocketTakesType DEF WriteBackpressure, FlushSocket, writeFrame, WireTypeOK
  <2>3. WakeTypeOK'
    BY <1>2 DEF WriteBackpressure, FlushSocket, writeFrame, WakeTypeOK
  <2> QED BY <1>2, <2>1, <2>2, <2>3, WriteFrameType DEF WriteBackpressure
<1>3. ASSUME WriteTerminate PROVE TypeOK'
  <2>1. WireTypeOK'
    BY <1>3, OutType, WroteType DEF WriteTerminate, writeFrame
  <2>2. SinkTypeOK' /\ WakeTypeOK'
    BY <1>3, Kept DEF WriteTerminate, writeFrame, sinkVars, wakeVars
  <2>3. ConnTypeOK'
    BY <1>3 DEF WriteTerminate, writeFrame, ConnTypeOK
  <2> QED BY <1>3, <2>1, <2>2, <2>3, WriteFrameType DEF WriteTerminate
<1>4. ASSUME WriteSingle PROVE TypeOK'
  <2>1. receiver[1] \in Request /\ Tail(receiver) \in Seq(Request)
    BY <1>4 DEF WriteSingle, ConnTypeOK
  <2>2. WireTypeOK'
    <3>1. Out("query", receiver[1], 0) \in OutMsg
      BY <2>1, OutType DEF OutKind
    <3> QED BY <1>4, <3>1, WroteType DEF WriteSingle, writeFrame
  <2>3. SinkTypeOK' /\ WakeTypeOK'
    BY <1>4, Kept DEF WriteSingle, writeFrame, sinkVars, wakeVars
  <2>4. ConnTypeOK'
    BY <1>4, <2>1 DEF WriteSingle, writeFrame, ConnTypeOK
  <2> QED BY <1>4, <2>2, <2>3, <2>4, WriteFrameType DEF WriteSingle
<1>5. ASSUME NEW r \in Request, WriteCopy(r) \/ WriteCopyPending(r) PROVE TypeOK'
  BY <1>0, <1>5, WriteCopyType
<1> QED BY <1>1, <1>2, <1>3, <1>4, <1>5 DEF PollWrite

\* The rest of poll keeps the state well typed.
LEMMA PollRestType ==
  ASSUME TypeOK, PollFlush \/ PollEnd \/ IoError \/ DropConnection PROVE TypeOK'
<1> USE DEF TypeOK
<1>1. ASSUME PollFlush PROVE TypeOK'
  <2>1. SinkTypeOK' /\ ConnTypeOK'
    BY <1>1, Kept DEF PollFlush, writeFrame, sinkVars, connVars
  <2>2. WireTypeOK'
    BY <1>1, SocketTakesType DEF PollFlush, FlushSocket, writeFrame, WireTypeOK
  <2>3. WakeTypeOK'
    BY <1>1 DEF PollFlush, FlushSocket, writeFrame, WakeTypeOK
  <2> QED BY <1>1, <2>1, <2>2, <2>3, WriteFrameType DEF PollFlush
<1>2. ASSUME PollEnd PROVE TypeOK'
  <2>1. ClientTypeOK' /\ TaskTypeOK' /\ SinkTypeOK' /\ ServerTypeOK'
    BY <1>2, Kept DEF PollEnd
  <2>2. ConnTypeOK'
    BY <1>2 DEF PollEnd, Resolve, ConnTypeOK
  <2>3. WireTypeOK'
    BY <1>2, SocketTakesType DEF PollEnd, FlushSocket, WireTypeOK
  <2>4. WakeTypeOK'
    BY <1>2 DEF PollEnd, FlushSocket, Resolve, AfterMessage, WakeTypeOK
  <2> QED BY <2>1, <2>2, <2>3, <2>4
<1>3. ASSUME IoError PROVE TypeOK'
  <2>1. SinkTypeOK' /\ WireTypeOK'
    BY <1>3, Kept DEF IoError, writeFrame, sinkVars, wireVars
  <2>2. ConnTypeOK' /\ WakeTypeOK'
    BY <1>3 DEF IoError, Resolve, writeFrame, ConnTypeOK, WakeTypeOK
  <2> QED BY <1>3, <2>1, <2>2, WriteFrameType DEF IoError
<1>4. ASSUME DropConnection PROVE TypeOK'
  <2>1. WakeTypeOK'
    BY <1>4 DEF DropConnection, WakeTypeOK, wakeVars
  <2> QED BY <1>4, <2>1, Kept DEF DropConnection
<1> QED BY <1>1, <1>2, <1>3, <1>4

-----------------------------------------------------------------------------
\* A server step leaves the driver alone.
LEMMA ServerFrameType ==
  ASSUME TypeOK, UNCHANGED serverFrame
  PROVE  ClientTypeOK' /\ TaskTypeOK' /\ SinkTypeOK' /\ ConnTypeOK'
BY Kept DEF TypeOK, serverFrame

\* A server that reads keeps the state well typed.
LEMMA ServerReadType == ASSUME TypeOK, ServerRead PROVE TypeOK'
<1> USE DEF TypeOK
<1>0. /\ flushed > 0 /\ outbound' = Tail(outbound) /\ flushed' = flushed - 1
      /\ Wake("socket")
      /\ UNCHANGED <<serverFrame, fromServer, emitted, served, asyncs>>
  BY DEF ServerRead
<1>1. outbound # <<>> /\ outbound[1] \in OutMsg
  BY <1>0 DEF WireTypeOK
<1>2. WireTypeOK'
  BY <1>0, <1>1 DEF WireTypeOK
<1>3. WakeTypeOK'
  BY <1>0, WakeType DEF serverFrame
<1>4. srv' \in ServerState
  <2>1. ASSUME NEW mode \in ServerMode \ {"idle"}, srv.mode # "idle", Serve(mode)
        PROVE  srv' \in ServerState
    BY <2>1 DEF Serve, ServerTypeOK, ServerState
  <2>2. ASSUME NEW mode \in ServerMode \ {"idle"}, outbound[1].kind # "terminate",
               srv' = [mode |-> mode, req |-> outbound[1].req]
        PROVE  srv' \in ServerState
    BY <1>1, <2>2 DEF ServerState, OutMsg
  <2>3. CASE srv' = srv
    BY <2>3 DEF ServerTypeOK
  <2> QED BY <2>1, <2>2, <2>3 DEF ServerRead, ServerMode
<1>5. copied' \in [Request -> Nat]
  <2>1. CASE srv.mode = "copy" /\ copied' = [copied EXCEPT ![srv.req] = @ + outbound[1].n]
    <3>1. outbound[1].n \in Nat
      BY <1>1 DEF OutMsg
    <3>2. srv.req \in Request
      BY <2>1 DEF ServerTypeOK, ServerState
    <3> QED BY <2>1, <3>1, <3>2 DEF ServerTypeOK
  <2>2. CASE UNCHANGED copied
    BY <2>2 DEF ServerTypeOK
  <2> QED BY <2>1, <2>2 DEF ServerRead
<1>6. committed' \in SUBSET Request /\ serverClosed' \in BOOLEAN
  BY DEF ServerRead, ServerTypeOK, ServerState
<1>7. ServerTypeOK'
  BY <1>0, <1>4, <1>5, <1>6 DEF ServerTypeOK
<1> QED BY <1>0, <1>2, <1>3, <1>7, ServerFrameType

\* A server that answers keeps the state well typed.
LEMMA EmitType ==
  ASSUME TypeOK, srv.mode # "idle", NEW k \in AnswerKind, NEW mode \in ServerMode,
         Emit(k, mode)
  PROVE  TypeOK'
<1> USE DEF TypeOK
<1>1. srv.req \in Request
  BY DEF ServerTypeOK, ServerState
<1>2. emitted[srv.req] + 1 \in Nat \ {0}
  BY <1>1 DEF ServerTypeOK
<1>3. [kind |-> k, req |-> srv.req, idx |-> emitted[srv.req] + 1] \in Msg
  BY <1>1, <1>2 DEF Msg
<1>4. WireTypeOK'
  BY <1>3 DEF Emit, WireTypeOK
<1>5. WakeTypeOK'
  BY WakeType DEF Emit, serverFrame
<1>6. srv' \in ServerState
  BY <1>1 DEF Emit, ServerState
<1>7. ServerTypeOK'
  BY <1>1, <1>2, <1>6 DEF Emit, ServerTypeOK
<1> QED BY <1>4, <1>5, <1>7, ServerFrameType DEF Emit

\* Asynchronous messages and the loss of the server keep the state well typed.
LEMMA ServerRestType ==
  ASSUME TypeOK, (\E k \in AsyncKind : ServerAsync(k)) \/ ServerClose PROVE TypeOK'
<1> USE ConnectionAssumption DEF TypeOK
<1>1. ASSUME NEW k \in AsyncKind, ServerAsync(k) PROVE TypeOK'
  <2>1. Lone(k) \in Msg
    BY LoneType DEF LoneKind
  <2>2. WireTypeOK'
    BY <1>1, <2>1 DEF ServerAsync, WireTypeOK
  <2>3. WakeTypeOK'
    BY <1>1, WakeType DEF ServerAsync, serverFrame
  <2>4. ServerTypeOK'
    BY <1>1 DEF ServerAsync, ServerTypeOK
  <2> QED BY <1>1, <2>2, <2>3, <2>4, ServerFrameType DEF ServerAsync
<1>2. ASSUME ServerClose PROVE TypeOK'
  <2>1. Lone("fatal") \in Msg
    BY LoneType DEF LoneKind
  <2>2. WireTypeOK'
    BY <1>2, <2>1 DEF ServerClose, WireTypeOK
  <2>3. WakeTypeOK'
    BY <1>2 DEF ServerClose, WakeTypeOK, serverFrame
  <2>4. ServerTypeOK'
    BY <1>2 DEF ServerClose, ServerTypeOK
  <2> QED BY <1>2, <2>2, <2>3, <2>4, ServerFrameType DEF ServerClose
<1> QED BY <1>1, <1>2

\* Every step keeps the state well typed.
LEMMA NextType == TypeOK /\ [Next]_vars => TypeOK'
<1> SUFFICES ASSUME TypeOK, [Next]_vars PROVE TypeOK'
  OBVIOUS
<1>1. CASE Application
  BY <1>1, SendType, DropClientType, NextMessageType, LeaveType, SinkType DEF Application
<1>2. CASE Poll
  BY <1>2, PollStartType, PollReadType, PollWriteType, PollRestType DEF Poll
<1>3. CASE Server
  BY <1>3, ServerReadType, EmitType
     DEF Server, ServerAnswer, ServerRefusesCopy, AnswerKind, ServerMode
<1>4. CASE (\E k \in AsyncKind : ServerAsync(k)) \/ ServerClose
  BY <1>4, ServerRestType
<1>5. CASE UNCHANGED vars
  BY <1>5, Kept DEF TypeOK, vars, wakeVars
<1> QED BY <1>1, <1>2, <1>3, <1>4, <1>5 DEF Next, Terminated

\* Every reachable state is well typed, for every value of the bounds: in
\* particular no chunk handed to a task is empty, a server at work always has
\* a request, and the flushed part never exceeds what was written.
THEOREM TypeCorrect == Spec => []TypeOK
<1>1. Init => TypeOK
  BY InitType
<1>2. TypeOK /\ [Next]_vars => TypeOK'
  BY NextType
<1> QED BY <1>1, <1>2, PTL DEF Spec
-----------------------------------------------------------------------------
(***************************************************************************)
(* No lost wake-up: WakeInv is inductive.                                  *)
(***************************************************************************)
\* Nothing is registered or asked for in the initial state, which is awake.
LEMMA InitWake == Init => WakeInv
<1> SUFFICES ASSUME Init PROVE WakeInv
  OBVIOUS
<1>1. HeldAlone
  BY DEF Init, HeldAlone, IsAsyncChunk, IsAsync, AsyncKind, Lone
<1> QED BY <1>1 DEF Init, WakeInv, ReadWaits, WriteWaits, FlushWaits, TerminateLast

\* A new request, and the drop of the Client, reach the waker of the request
\* channel.
LEMMA ClientWake ==
  ASSUME TypeOK, WakeInv, (\E k \in Kind : Send(k)) \/ DropClient
  PROVE  WakeInv'
<1>0. /\ UNCHANGED <<pc, message, state, pendingResponses, fromServer, serverClosed,
                     responses, chan, outbound, flushed, pendingRequest, copyDone, copyChan>>
      /\ Wake("request")
  BY DEF Send, DropClient, taskVars, sinkVars, connVars, wireVars, serverVars
<1>1. ReadWaits'
  <2>1. \A r \in Request : ReceiverGone(r)' => ReceiverGone(r)
    BY DEF ReceiverGone, Send, DropClient, taskVars, TypeOK, TaskTypeOK
  <2>2. responses # <<>> => responses[1] \in Request
    BY DEF TypeOK, ConnTypeOK
  <2> QED BY <1>0, <2>1, <2>2 DEF WakeInv, ReadWaits, ChanReady, Wake
<1>2. WriteWaits'
  <2>0. pendingRequest # 0 => pendingRequest \in Request
    BY ConnectionAssumption DEF TypeOK, ConnTypeOK, Request
  <2>1. ASSUME NEW q \in Request PROVE SenderGone(q)' => SenderGone(q)
    BY DEF SenderGone, Send, DropClient, sinkVars, TypeOK, SinkTypeOK
  <2>2. RequestWaits /\ ~awake' => RequestWaits'
    BY <1>0, <2>0, <2>1 DEF RequestWaits, Wake, Send, DropClient, connVars
  <2> QED BY <1>0, <2>2 DEF WakeInv, WriteWaits, Unflushed, Wake
<1>3. FlushWaits'
  BY <1>0 DEF WakeInv, FlushWaits, SocketWaits, Unflushed, SocketTakes, Wake
<1>4. HeldAlone' /\ TerminateLast'
  BY <1>0 DEF WakeInv, HeldAlone, TerminateLast
<1> QED BY <1>0, <1>1, <1>2, <1>3, <1>4 DEF WakeInv

\* What a task does with its Responses or its sink reaches the waker of the
\* channel it empties, closes or fills.
LEMMA TaskWake ==
  ASSUME TypeOK, WakeInv, NEW r \in Request,
         \/ NextMessage(r) \/ SeeClosed(r) \/ DropResponses(r)
         \/ CopyStart(r) \/ SinkPut(r) \/ SinkFlush(r) \/ BeginFinish(r) \/ FinishDone(r)
  PROVE  WakeInv'
<1>0. UNCHANGED <<clientVars, pc, connVars, wireVars, serverVars>>
  BY DEF NextMessage, SeeClosed, DropResponses, CopyStart, SinkPut, SinkFlush, BeginFinish,
     FinishDone
<1>1. /\ awake => awake'
      /\ wakers' \subseteq wakers
      /\ ~awake' => wakers' = wakers
  <2>1. WakeDropped(r) \/ WakeSender(r) \/ WakeCopy(r) \/ UNCHANGED wakeVars
    BY DEF NextMessage, SeeClosed, DropResponses, CopyStart, SinkPut, SinkFlush, BeginFinish,
       FinishDone, CopySend
  <2>2. CASE WakeDropped(r)
    BY <2>2 DEF WakeDropped
  <2>3. CASE WakeSender(r) \/ WakeCopy(r)
    BY <2>3 DEF WakeSender, WakeCopy, Wake, wakeVars
  <2>4. CASE UNCHANGED wakeVars
    BY <2>4 DEF wakeVars
  <2> QED BY <2>1, <2>2, <2>3, <2>4
<1>2. ASSUME NEW q \in Request, responses # <<>>, responses[1] = q, "sender" \in wakers,
             ~awake', ChanReady(q)'
      PROVE  ChanReady(q)
  <2>1. CASE q = r
    <3>1. ~WakeDropped(r) /\ ~WakeSender(r)
      BY <1>2, <2>1 DEF WakeDropped, WakeSender, Wake
    <3>2. chan' = chan /\ (task'[q] # "waiting" => task[q] # "waiting")
      BY <2>1, <3>1 DEF NextMessage, SeeClosed, DropResponses, CopyStart, SinkPut, SinkFlush,
         BeginFinish, FinishDone, taskVars, TypeOK, TaskTypeOK
    <3> QED BY <1>2, <3>2 DEF ChanReady, ReceiverGone
  <2>2. CASE q # r
    <3>1. task'[q] = task[q] /\ chan'[q] = chan[q]
      BY <2>2 DEF NextMessage, SeeClosed, DropResponses, DropReceiver, CopyStart, SinkPut,
         SinkFlush, BeginFinish, FinishDone, taskVars, TypeOK, TaskTypeOK
    <3> QED BY <1>2, <3>1 DEF ChanReady, ReceiverGone
  <2> QED BY <2>1, <2>2
<1>3. ASSUME NEW q \in Request, q = pendingRequest, "copy" \in wakers, ~awake'
      PROVE  copyChan'[q] = copyChan[q] /\ (SenderGone(q)' => SenderGone(q))
  <2>1. CASE q = r
    <3>1. ~WakeDropped(r) /\ ~WakeCopy(r)
      BY <1>3, <2>1 DEF WakeDropped, WakeCopy, Wake
    <3>2. copyChan' = copyChan
      BY <3>1 DEF NextMessage, SeeClosed, DropResponses, CopyStart, SinkPut, SinkFlush,
         BeginFinish, FinishDone, CopySend
    <3>3. sink'[r] \in {sink[r], "active", "finishing"}
      BY <3>1 DEF NextMessage, SeeClosed, DropResponses, CopyStart, SinkPut, SinkFlush,
         BeginFinish, FinishDone, CopySend, TypeOK, SinkTypeOK
    <3> QED BY <2>1, <3>2, <3>3 DEF SenderGone
  <2>2. CASE q # r
    BY <2>2 DEF NextMessage, SeeClosed, DropResponses, DropReceiver, CopyStart, SinkPut,
       SinkFlush, BeginFinish, FinishDone, CopySend, TypeOK, SinkTypeOK, SenderGone
  <2> QED BY <2>1, <2>2
<1>4. ReadWaits'
  <2>1. responses # <<>> => responses[1] \in Request
    BY DEF TypeOK, ConnTypeOK
  <2> QED BY <1>0, <1>1, <1>2, <2>1 DEF WakeInv, ReadWaits, connVars, wireVars, serverVars
<1>5. WriteWaits'
  <2>1. pendingRequest # 0 => pendingRequest \in Request
    BY DEF TypeOK, ConnTypeOK, Request
  <2>2. RequestWaits /\ ~awake' => RequestWaits'
    BY <1>0, <1>1, <1>3, <2>1 DEF RequestWaits, connVars, clientVars
  <2> QED BY <1>0, <1>1, <2>2 DEF WakeInv, WriteWaits, Unflushed, connVars, wireVars
<1>6. FlushWaits'
  BY <1>0, <1>1 DEF WakeInv, FlushWaits, SocketWaits, Unflushed, SocketTakes, wireVars, connVars,
     serverVars
<1>7. HeldAlone' /\ TerminateLast'
  BY <1>0 DEF WakeInv, HeldAlone, TerminateLast, connVars, wireVars
<1> QED BY <1>0, <1>4, <1>5, <1>6, <1>7 DEF WakeInv, connVars

\* poll_read leaves the waker with the stream or the first Response's sender.
LEMMA ReadWake ==
  ASSUME TypeOK, WakeInv, PollRead
  PROVE  WakeInv'
<1>0. pc = "read" /\ UNCHANGED readFrame
  BY DEF PollRead, ReadSkip, ReadPending, ReadEof, ReadMessage, ReadAsync, ReadUnexpected,
     ReadPage, ReadBlocked
<1>1. pc' \in {"read", "write", "finished"}
  BY <1>0 DEF PollRead, ReadSkip, ReadPending, ReadEof, ReadMessage, ReadAsync, ReadUnexpected,
     ReadPage, ReadBlocked, Resolve
<1>2. WriteWaits' /\ FlushWaits' /\ TerminateLast'
  BY <1>0, <1>1 DEF WakeInv, WriteWaits, FlushWaits, TerminateLast, readFrame
<1>3. ASSUME NEW c \in Chunk, NEW pend \in Seq(Chunk), NEW strm \in Seq(Msg),
             ReadMessage(c, pend, strm),
             IF pendingResponses = <<>> THEN pend = <<>>
               ELSE c = pendingResponses[1] /\ pend = Tail(pendingResponses)
      PROVE  ReadWaits' /\ HeldAlone'
  <2>1. CASE ReadBlocked(c, pend, strm)
    <3>1. pend = <<>>
      <4>1. CASE pendingResponses # <<>>
        <5>1. pendingResponses \in Seq(Chunk) /\ Len(pendingResponses) >= 1
          BY <4>1 DEF TypeOK, ConnTypeOK
        <5>2. Len(pendingResponses) = 1
          BY <1>3, <2>1, <4>1, <5>1 DEF ReadBlocked, WakeInv, HeldAlone, IsAsyncChunk
        <5> QED BY <1>3, <4>1, <5>1, <5>2
      <4> QED BY <1>3, <4>1
    <3>2. pendingResponses' = <<c>>
      BY <2>1, <3>1 DEF ReadBlocked
    <3> QED BY <1>0, <2>1, <3>2 DEF ReadBlocked, ReadWaits, HeldAlone, ChanReady, ReceiverGone,
           IsAsyncChunk, readFrame
  <2>2. CASE ~ReadBlocked(c, pend, strm)
    <3>1. pendingResponses' = pend /\ (pc' = "write" => message')
      BY <1>0, <1>3, <2>2 DEF ReadMessage, ReadAsync, ReadUnexpected, ReadPage, Resolve
    <3>2. ReadWaits'
      BY <1>1, <3>1 DEF ReadWaits
    <3>3. HeldAlone'
      <4>1. CASE pend = <<>>
        BY <3>1, <4>1 DEF HeldAlone
      <4>2. CASE pend # <<>>
        <5>1. /\ pendingResponses \in Seq(Chunk) /\ pend = Tail(pendingResponses)
              /\ Len(pendingResponses) > 1
          BY <1>3, <4>2 DEF TypeOK, ConnTypeOK
        <5>2. \A i \in 1 .. Len(pend) : IsAsyncChunk(pend[i])
          BY <5>1 DEF WakeInv, HeldAlone, IsAsyncChunk
        <5> QED BY <3>1, <5>2 DEF HeldAlone, IsAsyncChunk
      <4> QED BY <4>1, <4>2
    <3> QED BY <3>2, <3>3
  <2> QED BY <2>1, <2>2
<1>4. ASSUME ReadSkip \/ ReadPending \/ ReadEof PROVE ReadWaits' /\ HeldAlone'
  BY <1>0, <1>4 DEF ReadSkip, ReadPending, ReadEof, Resolve, ReadWaits, WakeInv, HeldAlone, 
     readFrame, IsAsyncChunk, serverVars
<1>5. ReadWaits' /\ HeldAlone'
  <2>1. CASE /\ pendingResponses # <<>>
             /\ ReadMessage(pendingResponses[1], Tail(pendingResponses), fromServer)
    <3>1. /\ pendingResponses[1] \in Chunk
          /\ Tail(pendingResponses) \in Seq(Chunk)
          /\ fromServer \in Seq(Msg)
      BY <2>1 DEF TypeOK, ConnTypeOK, WireTypeOK
    <3> QED BY <1>3, <2>1, <3>1
  <2>2. ASSUME NEW k \in 1 .. Len(fromServer), pendingResponses = <<>>,
               ReadMessage(SubSeq(fromServer, 1, k), <<>>,
                           SubSeq(fromServer, k + 1, Len(fromServer)))
        PROVE  ReadWaits' /\ HeldAlone'
    <3>1. <<>> \in Seq(Chunk)
      OBVIOUS
    <3> QED BY <1>3, <2>2, <3>1, DecodeType DEF TypeOK
  <2> QED BY <1>4, <2>1, <2>2 DEF PollRead
<1> QED BY <1>1, <1>2, <1>5 DEF WakeInv

\* What does not fit into the socket leaves the waker there.
LEMMA FlushSocketWaits ==
  ASSUME WireTypeOK, FlushSocket, UNCHANGED serverClosed PROVE SocketWaits'
<1>1. SocketTakes' = SocketTakes /\ outbound' = outbound
  BY DEF FlushSocket, SocketTakes
<1>2. SocketTakes \in Nat /\ Len(outbound) \in Nat
  BY SocketTakesType DEF WireTypeOK
<1>3. serverClosed => SocketTakes = Len(outbound)
  BY DEF SocketTakes
<1> QED BY <1>1, <1>2, <1>3 DEF FlushSocket, SocketWaits, Unflushed

\* poll_write leaves the waker with the request channel, the copy's channel or
\* the socket, or with nothing when it waits for answers.
LEMMA WriteWake ==
  ASSUME TypeOK, WakeInv, PollWrite
  PROVE  WakeInv'
<1>0. pc = "write" /\ UNCHANGED writeFrame
  BY DEF PollWrite, WriteClosing, WriteBackpressure, WriteTerminate, WriteIdle, WriteSingle,
     WriteCopy, WriteCopyPending, WriteCopyEnd
<1>1. wakers \subseteq wakers'
  BY DEF PollWrite, WriteClosing, WriteBackpressure, FlushSocket, WriteTerminate, WriteIdle,
     WriteSingle, WriteCopy, WriteCopyPending, WriteCopyEnd
<1>2. /\ pc' \in {"write", "flush", "end"}
      /\ state' # state => state' = "Closing"
  BY <1>0 DEF PollWrite, WriteClosing, WriteBackpressure, WriteTerminate, WriteIdle, WriteSingle,
     WriteCopy, WriteCopyPending, WriteCopyEnd
<1>3. responses # <<>> => responses' # <<>> /\ responses'[1] = responses[1]
  <2>1. ASSUME NEW r \in Request, responses # <<>>
        PROVE  Append(responses, r) # <<>> /\ Append(responses, r)[1] = responses[1]
    <3>1. responses \in Seq(Request) /\ Len(responses) >= 1
      BY <2>1 DEF TypeOK, ConnTypeOK
    <3> QED BY <3>1
  <2>2. receiver # <<>> => receiver[1] \in Request
    BY DEF TypeOK, ConnTypeOK
  <2>3. responses' = responses \/ \E r \in Request : responses' = Append(responses, r)
    BY <2>2 DEF PollWrite, WriteClosing, WriteBackpressure, WriteTerminate, WriteIdle, WriteSingle,
     WriteCopy, WriteCopyPending, WriteCopyEnd, TakeCopy
  <2> QED BY <2>1, <2>3
<1>4. ReadWaits'
  BY <1>0, <1>1, <1>2, <1>3 DEF WakeInv, ReadWaits, ChanReady, ReceiverGone, writeFrame, taskVars,
     serverVars
<1>5. HeldAlone'
  BY <1>0 DEF WakeInv, HeldAlone, writeFrame
<1>6. TerminateLast'
  <2>1. outbound \in Seq(OutMsg)
    BY DEF TypeOK, WireTypeOK
  <2>2. ASSUME NEW m \in OutMsg, m.kind # "terminate", outbound' = Append(outbound, m)
        PROVE  TerminateLast'
    BY <1>2, <2>1, <2>2 DEF WakeInv, TerminateLast
  <2>3. CASE outbound' = outbound
    BY <1>2, <2>3 DEF WakeInv, TerminateLast
  <2>4. CASE state' = "Closing"
    BY <2>4 DEF TerminateLast
  <2>5. ASSUME WriteSingle PROVE TerminateLast'
    <3>1. receiver[1] \in Request
      BY <2>5 DEF WriteSingle, TypeOK, ConnTypeOK
    <3>2. Out("query", receiver[1], 0) \in OutMsg /\ Out("query", receiver[1], 0).kind # "terminate"
      BY <3>1, OutType DEF Out, OutKind
    <3> QED BY <2>2, <2>5, <3>2 DEF WriteSingle
  <2>6. ASSUME NEW r \in Request, WriteCopy(r), copyChan[r] # <<>> PROVE TerminateLast'
    <3>1. copyChan[r][1] \in CopyMsg
      BY <2>6 DEF TypeOK, SinkTypeOK
    <3> DEFINE m == Out(copyChan[r][1].kind, r, copyChan[r][1].n)
    <3>2. m \in OutMsg /\ m.kind # "terminate"
      BY <3>1, OutType DEF CopyMsg, OutKind, Out
    <3>3. outbound' = Append(outbound, m)
      BY <2>6 DEF WriteCopy
    <3> QED BY <2>2, <3>2, <3>3
  <2>7. ASSUME NEW r \in Request, WriteCopy(r), copyChan[r] = <<>> PROVE TerminateLast'
    <3>1. Out(AbandonedCopy, r, 0) \in OutMsg /\ Out(AbandonedCopy, r, 0).kind # "terminate"
      BY OutType DEF AbandonedCopy, OutKind, Out
    <3> QED BY <2>2, <2>7, <3>1 DEF WriteCopy
  <2> QED BY <2>3, <2>4, <2>5, <2>6, <2>7 DEF PollWrite, WriteClosing, WriteBackpressure, FlushSocket,
         WriteTerminate, WriteIdle, WriteCopyPending, WriteCopyEnd
<1>7. FlushWaits'
  <2>1. CASE WriteBackpressure
    <3>1. SocketWaits'
      BY <1>0, <2>1, FlushSocketWaits DEF WriteBackpressure, writeFrame, serverVars, TypeOK
    <3> QED BY <3>1 DEF FlushWaits
  <2>2. CASE ~WriteBackpressure
    BY <1>0, <2>2 DEF FlushWaits, PollWrite, WriteClosing, WriteTerminate, WriteIdle, WriteSingle,
       WriteCopy, WriteCopyPending, WriteCopyEnd
  <2> QED BY <2>1, <2>2
<1>8. WriteWaits'
  <2>1. CASE WriteBackpressure
    <3>1. pc' = "end" => Len(outbound') - flushed' > 0
      BY <1>0, <2>1, SocketTakesType DEF WriteBackpressure, FlushSocket, TypeOK, WireTypeOK
    <3> QED BY <1>0, <2>1, <3>1 DEF WriteBackpressure, WriteWaits, Unflushed
  <2>2. CASE WriteIdle
    <3>1. RequestWaits'
      BY <1>0, <2>2 DEF WriteIdle, RequestWaits, AtEof, NothingOutstanding, writeFrame, clientVars
    <3> QED BY <3>1 DEF WriteWaits
  <2>3. ASSUME NEW r \in Request, WriteCopyPending(r) PROVE WriteWaits'
    <3>1. r # 0
      BY DEF Request
    <3>2. RequestWaits'
      BY <1>0, <2>3, <3>1 DEF WriteCopyPending, RequestWaits, SenderGone, writeFrame
    <3> QED BY <3>2 DEF WriteWaits
  <2>4. CASE pc' = "write" \/ state' = "Closing"
    BY <2>4 DEF WriteWaits
  <2> QED BY <1>0, <2>1, <2>2, <2>3, <2>4 DEF PollWrite, WriteClosing, WriteTerminate,
         WriteSingle, WriteCopy, WriteCopyEnd
<1> QED BY <1>2, <1>4, <1>5, <1>6, <1>7, <1>8 DEF WakeInv

\* The rest of a poll: a parked Connection has flushed what the socket takes.
LEMMA PollRestWake ==
  ASSUME TypeOK, WakeInv, PollStart \/ PollFlush \/ PollEnd \/ IoError \/ DropConnection
  PROVE  WakeInv'
<1>1. ASSUME pc' \in {"read", "finished", "dropped"}, UNCHANGED <<pendingResponses, outbound, state>>
      PROVE  WakeInv'
  BY <1>1 DEF WakeInv, ReadWaits, WriteWaits, FlushWaits, HeldAlone, TerminateLast
<1>2. CASE PollStart \/ IoError \/ DropConnection
  BY <1>1, <1>2 DEF PollStart, IoError, DropConnection, Resolve, writeFrame, connVars, wireVars
<1>3. CASE PollFlush
  <2>0. /\ pc = "flush" /\ pc' = "end" /\ FlushSocket
        /\ UNCHANGED <<writeFrame, copyChan, receiver, pendingRequest, copyDone, responses, state>>
    BY <1>3 DEF PollFlush
  <2>1. wakers \subseteq wakers' /\ outbound' = outbound
    BY <2>0 DEF FlushSocket
  <2>2. ReadWaits'
    BY <2>0, <2>1 DEF WakeInv, ReadWaits, ChanReady, ReceiverGone, writeFrame, taskVars, serverVars
  <2>3. WriteWaits'
    <3>1. RequestWaits => RequestWaits'
      BY <2>0, <2>1 DEF RequestWaits, SenderGone, writeFrame, clientVars
    <3> QED BY <2>0, <3>1 DEF WakeInv, WriteWaits, writeFrame
  <2>4. FlushWaits'
    BY <2>0, FlushSocketWaits DEF FlushWaits, writeFrame, serverVars, TypeOK
  <2>5. HeldAlone' /\ TerminateLast'
    BY <2>0, <2>1 DEF WakeInv, HeldAlone, TerminateLast, writeFrame
  <2> QED BY <2>0, <2>2, <2>3, <2>4, <2>5 DEF WakeInv
<1>4. CASE PollEnd
  <2>0. /\ pc = "end" 
        /\ UNCHANGED <<clientVars, taskVars, sinkVars, awake, receiver, pendingRequest,
                 copyDone, pendingResponses, responses, state, inbox, fromServer, serverVars>>
        /\ outbound' = outbound
    BY <1>4 DEF PollEnd, FlushSocket
  <2>1. HeldAlone' /\ TerminateLast'
    BY <2>0 DEF WakeInv, HeldAlone, TerminateLast
  <2>2. CASE pc' # "parked"
    <3>1. pc' \in {"read", "finished"}
      BY <1>4, <2>2 DEF PollEnd, Resolve, AfterMessage
    <3> QED BY <1>1, <2>0, <3>1
  <2>3. CASE pc' = "parked"
    <3>0. ~message /\ ~message'
      BY <1>4, <2>3 DEF PollEnd, AfterMessage
    <3>1. CASE state # "Closing"
      <4>1. state = "Active" /\ UNCHANGED <<wakers, flushed>>
        BY <1>4, <2>3, <3>0, <3>1 DEF PollEnd, TypeOK, ConnTypeOK
      <4>2. ReadWaits'
        BY <2>0, <3>0, <4>1 DEF WakeInv, ReadWaits, ChanReady, ReceiverGone, taskVars, serverVars
      <4>3. WriteWaits'
        BY <2>0, <2>3, <4>1 DEF WakeInv, WriteWaits, RequestWaits, SenderGone, Unflushed, clientVars,
           sinkVars
      <4>4. FlushWaits'
        BY <2>0, <4>1 DEF WakeInv, FlushWaits, SocketWaits, SocketTakes, Unflushed, serverVars
      <4> QED BY <2>1, <3>0, <4>2, <4>3, <4>4 DEF WakeInv
    <3>2. CASE state = "Closing"
      <4>1. FlushSocket
        BY <1>4, <3>0, <3>2 DEF PollEnd
      <4>2. SocketWaits'
        BY <2>0, <4>1, FlushSocketWaits DEF TypeOK, serverVars
      <4> QED BY <2>0, <2>1, <3>0, <3>2, <4>2 DEF WakeInv, ReadWaits, WriteWaits, FlushWaits
    <3> QED BY <3>1, <3>2
  <2> QED BY <2>2, <2>3
<1> QED BY <1>2, <1>3, <1>4

\* What the server does reaches the waker of the stream or of the socket.
LEMMA ServerWake ==
  ASSUME TypeOK, WakeInv,
         Server \/ (\E k \in AsyncKind : ServerAsync(k)) \/ ServerClose
  PROVE  WakeInv'
<1>0. UNCHANGED serverFrame
  BY DEF Server, ServerRead, ServerAnswer, ServerRefusesCopy, Emit, ServerAsync, ServerClose
<1>1. ~awake' => ~awake /\ wakers' = wakers
  BY DEF Server, ServerRead, ServerAnswer, ServerRefusesCopy, Emit, ServerAsync, ServerClose, Wake
<1>2. "stream" \in wakers /\ ~awake' /\ state = "Active" => UNCHANGED <<fromServer, serverClosed>>
  <2>1. CASE ServerRead
    <3>1. outbound # <<>>
      BY <2>1 DEF ServerRead, TypeOK, WireTypeOK
    <3>2. state = "Active" => outbound[1].kind # "terminate"
      BY <3>1 DEF WakeInv, TerminateLast, TypeOK, WireTypeOK
    <3> QED BY <2>1, <3>2 DEF ServerRead
  <2>2. CASE ~ServerRead
    BY <2>2 DEF Server, ServerAnswer, ServerRefusesCopy, Emit, ServerAsync, ServerClose, Wake
  <2> QED BY <2>1, <2>2
<1>3. "socket" \in wakers /\ ~awake' => UNCHANGED <<outbound, flushed, serverClosed>>
  BY DEF Server, ServerRead, ServerAnswer, ServerRefusesCopy, Emit, ServerAsync, ServerClose, Wake
<1>4. \/ UNCHANGED <<outbound, flushed>>
      \/ /\ outbound # <<>> /\ outbound' = Tail(outbound)
         /\ flushed > 0 /\ flushed' = flushed - 1
  <2>1. flushed > 0 => outbound # <<>>
    BY DEF TypeOK, WireTypeOK
  <2> QED BY <2>1 DEF Server, ServerRead, ServerAnswer, ServerRefusesCopy, Emit, ServerAsync,
         ServerClose
<1>5. Unflushed' = Unflushed
  <2>1. outbound # <<>> => Len(Tail(outbound)) = Len(outbound) - 1
    BY DEF TypeOK, WireTypeOK
  <2>2. Len(outbound) \in Nat /\ flushed \in Nat
    BY DEF TypeOK, WireTypeOK
  <2>3. CASE UNCHANGED <<outbound, flushed>>
    BY <2>3 DEF Unflushed
  <2>4. CASE outbound # <<>> /\ outbound' = Tail(outbound) /\ flushed' = flushed - 1
    <3>1. Len(outbound') = Len(outbound) - 1
      BY <2>1, <2>4
    <3> QED BY <2>2, <2>4, <3>1 DEF Unflushed
  <2> QED BY <1>4, <2>3, <2>4
<1>6. ReadWaits'
  BY <1>0, <1>1, <1>2 DEF WakeInv, ReadWaits, ChanReady, ReceiverGone, serverFrame, taskVars, connVars
<1>7. WriteWaits'
  BY <1>0, <1>1, <1>5 DEF WakeInv, WriteWaits, RequestWaits, SenderGone, serverFrame, clientVars,
     sinkVars, connVars
<1>8. FlushWaits'
  BY <1>0, <1>1, <1>3, <1>5 DEF WakeInv, FlushWaits, SocketWaits, SocketTakes, serverFrame, connVars
<1>9. HeldAlone' /\ TerminateLast'
  <2>1. TerminateLast'
    <3>1. CASE outbound' = outbound
      BY <1>0, <3>1 DEF WakeInv, TerminateLast, serverFrame, connVars
    <3>2. CASE outbound # <<>> /\ outbound' = Tail(outbound)
      <4>1. outbound \in Seq(OutMsg)
        BY DEF TypeOK, WireTypeOK
      <4>2. /\ Len(outbound') = Len(outbound) - 1
            /\ \A i \in 1 .. Len(outbound') : outbound'[i] = outbound[i + 1]
        BY <3>2, <4>1
      <4> QED BY <1>0, <4>1, <4>2 DEF WakeInv, TerminateLast, serverFrame, connVars
    <3> QED BY <1>4, <3>1, <3>2
  <2> QED BY <1>0, <2>1 DEF WakeInv, HeldAlone, serverFrame, connVars
<1> QED BY <1>0, <1>6, <1>7, <1>8, <1>9 DEF WakeInv, serverFrame, connVars

\* Every step keeps WakeInv.
LEMMA NextWake == TypeOK /\ WakeInv /\ [Next]_vars => WakeInv'
<1> SUFFICES ASSUME TypeOK, WakeInv, [Next]_vars PROVE WakeInv'
  OBVIOUS
<1>1. CASE Application
  BY <1>1, ClientWake, TaskWake DEF Application
<1>2. CASE Poll
  BY <1>2, ReadWake, WriteWake, PollRestWake DEF Poll
<1>3. CASE Server \/ (\E k \in AsyncKind : ServerAsync(k)) \/ ServerClose
  BY <1>3, ServerWake
<1>4. CASE UNCHANGED vars
  BY <1>4 DEF vars, clientVars, taskVars, sinkVars, wakeVars, connVars, wireVars, serverVars,
     WakeInv, ReadWaits, WriteWaits, FlushWaits, HeldAlone, TerminateLast, RequestWaits,
     SocketWaits, Unflushed, SocketTakes, ChanReady, ReceiverGone, SenderGone
<1> QED BY <1>1, <1>2, <1>3, <1>4 DEF Next, Terminated

\* WakeInv gives the property: what each phase has left behind excludes what
\* the next poll could do.
LEMMA WakeInvSuffices == TypeOK /\ WakeInv => NoLostWakeup
<1> SUFFICES ASSUME TypeOK, WakeInv, pc = "parked", ~awake
             PROVE  /\ ~CanRead /\ ~CanFlush
                    /\ CanWrite => Unflushed > 0 /\ "socket" \in wakers
  BY DEF NoLostWakeup
<1>1. ~CanRead
  BY DEF CanRead, WakeInv, ReadWaits
<1>2. SocketWaits
  BY DEF WakeInv, FlushWaits
<1>3. ~CanFlush
  BY <1>2, SocketTakesType DEF CanFlush, SocketWaits, TypeOK, WireTypeOK
<1>4. ASSUME CanWrite, ~(Unflushed > 0) PROVE FALSE
  <2>1. RequestWaits
    BY <1>4 DEF CanWrite, StreamReady, WakeInv, WriteWaits, TypeOK, ConnTypeOK
  <2> QED BY <1>4, <2>1 DEF CanWrite, RequestWaits, AtEof
<1> QED BY <1>1, <1>2, <1>3, <1>4 DEF SocketWaits

\* A Connection that sleeps without a wake-up on its way has nothing to do,
\* for every number of requests and every capacity: no early return of
\* poll_read, poll_write or poll_flush forgets its waker.
THEOREM WakeupKept == Spec => []NoLostWakeup
<1>1. Init => TypeOK /\ WakeInv
  BY InitType, InitWake
<1>2. (TypeOK /\ WakeInv) /\ [Next]_vars => (TypeOK /\ WakeInv)'
  BY NextType, NextWake
<1>3. TypeOK /\ WakeInv => NoLostWakeup
  BY WakeInvSuffices
<1> QED BY <1>1, <1>2, <1>3, PTL DEF Spec

-----------------------------------------------------------------------------
(***************************************************************************)
(* What is routed where.                                                   *)
(***************************************************************************)

\* The counters are integers.
LEMMA Counts ==
  ASSUME TypeOK
  PROVE  /\ Len(requests) \in Nat /\ Len(receiver) \in Nat /\ Len(responses) \in Nat
         /\ Popped \in Int /\ Completed \in Int /\ Written \in Int
         /\ served \in Nat /\ Taken \in Nat /\ Taken \in served .. served + 1
         /\ Written \in Popped - 1 .. Popped
BY DEF TypeOK, ClientTypeOK, ConnTypeOK, ServerTypeOK, Popped, Completed, Written, Taken

\* The initial state satisfies the invariant.
LEMMA InitRoute == Init => IInv
<1> SUFFICES ASSUME Init PROVE IInv
  OBVIOUS
<1>1. TypeOK
  BY InitType
<1>2. Popped = 0 /\ Completed = 0 /\ Written = 0 /\ Taken = 0 /\ served = 0
  <2>1. Popped = 0 /\ Completed = 0 /\ Written = 0
    <3>1. requests = <<>> /\ receiver = <<>> /\ responses = <<>> /\ pendingRequest = 0
      BY DEF Init
    <3>2. Len(requests) = 0 /\ Len(receiver) = 0 /\ Len(responses) = 0
      BY <3>1
    <3>3. Popped = 0 /\ Completed = 0
      BY <3>2 DEF Popped, Completed
    <3>4. pendingRequest = 0
      BY DEF Init
    <3> QED BY <3>3, <3>4 DEF Written
  <2>2. srv.mode = "idle" /\ served = 0
    BY DEF Init
  <2> QED BY <2>1, <2>2 DEF Taken, AnswerModes
<1>3. QueueInv /\ ServerInv
  BY <1>2 DEF Init, QueueInv, ServerInv
<1>4. OutboundInv
  BY <1>2 DEF Init, OutboundInv
<1>5. CopyInv
  BY DEF Init, CopyInv, Unstarted
<1>6. HeldInv
  BY InitWake DEF WakeInv, HeldInv, Holds, Init, HeldAlone, IsAsyncChunk, IsAsync, AsyncKind, Lone
<1>7. StreamInv
  <2>1. fromServer = <<>> /\ served = 0 /\ Seen \in {0, 1}
    BY <1>2 DEF Init, Seen
  <2> QED BY <2>1 DEF StreamInv
<1>8. EndInv /\ RoutedToOwner
  BY <1>2 DEF Init, EndInv, RoutedToOwner
<1> QED BY <1>1, <1>3, <1>4, <1>5, <1>6, <1>7, <1>8 DEF IInv

-----------------------------------------------------------------------------
\* What each part of the invariant is about.
queueVars == <<clientOpen, requests, receiver, responses, pendingRequest, copyDone, state>>

\* A part is kept by a step that leaves alone what it is about.
LEMMA KeptQueue ==
  ASSUME QueueInv, UNCHANGED queueVars
  PROVE  QueueInv' /\ Popped' = Popped /\ Completed' = Completed /\ Written' = Written
BY DEF QueueInv, Popped, Completed, Written, queueVars

\* A step that leaves the queues and the server alone keeps what the server took.
LEMMA KeptServer ==
  ASSUME UNCHANGED queueVars, UNCHANGED <<srv, served>>
  PROVE  (ServerInv => ServerInv') /\ Taken' = Taken
BY DEF ServerInv, Popped, Completed, Written, Taken, queueVars

\* A step that at most pops an answer keeps what is on its way to the server.
LEMMA KeptOutbound ==
  ASSUME OutboundInv, TypeOK, Popped' \in {Popped, Popped + 1}, Written' = Written,
         UNCHANGED <<state, srv, served, outbound>>
  PROVE  OutboundInv'
<1>1. Popped \in Int /\ Taken' = Taken
  BY Counts DEF Taken
<1>2. ASSUME NEW i \in 1 .. Len(outbound), outbound[i].kind # "terminate"
      PROVE  outbound[i].req <= Popped'
  <2>1. outbound[i].req \in Int
    BY <1>2 DEF TypeOK, WireTypeOK, OutMsg, Request
  <2> QED BY <1>1, <1>2, <2>1 DEF OutboundInv
<1> QED BY <1>1, <1>2 DEF OutboundInv

\* A step that leaves COPY data alone keeps its order.
LEMMA KeptCopy ==
  ASSUME CopyInv, UNCHANGED <<requests, sink, copyChan, srv, served, outbound>>
  PROVE  CopyInv'
BY DEF CopyInv, Unstarted

\* A step that reads nothing keeps what poll_read put back.
LEMMA KeptHeld ==
  ASSUME HeldInv, UNCHANGED queueVars, UNCHANGED <<served, pendingResponses>>
  PROVE  HeldInv' /\ HeldComplete' = HeldComplete
BY DEF HeldInv, HeldAlone, Holds, HeldComplete, OwnChunk, Popped, Completed, queueVars,
   IsAsyncChunk, IsAsync, RequestComplete

\* A step that reads nothing keeps what the server has answered.
LEMMA KeptStream ==
  ASSUME StreamInv, UNCHANGED queueVars, UNCHANGED <<served, pendingResponses, fromServer, serverClosed>>
  PROVE  StreamInv'
<1>1. HeldComplete' = HeldComplete
  BY DEF HeldComplete, Holds, IsAsyncChunk, IsAsync, RequestComplete
<1> QED BY <1>1 DEF StreamInv, Seen, Popped, Completed, queueVars

\* A step that tells no caller anything keeps who was told what.
LEMMA KeptEnd ==
  ASSUME EndInv, RoutedToOwner, UNCHANGED queueVars, UNCHANGED <<inbox, result, serverClosed>>
  PROVE  EndInv' /\ RoutedToOwner'
BY DEF EndInv, RoutedToOwner, Popped, Completed, queueVars

-----------------------------------------------------------------------------
\* A queue of consecutive numbers that takes the next one.
LEMMA Consecutive ==
  ASSUME NEW s, NEW t, NEW n \in Nat, NEW c \in Int, Len(s) = n, Len(t) = n + 1,
         \A i \in 1 .. n : s[i] = c + i,
         \A i \in 1 .. n : t[i] = s[i],
         t[n + 1] = c + (n + 1)
  PROVE  \A i \in 1 .. Len(t) : t[i] = c + i
<1> SUFFICES ASSUME NEW i \in 1 .. n + 1 PROVE t[i] = c + i
  OBVIOUS
<1>1. CASE i \in 1 .. n
  BY <1>1
<1>2. CASE i = n + 1
  BY <1>2
<1> QED BY <1>1, <1>2

\* Sending a request puts it behind all others.
LEMMA SendRoute == ASSUME IInv, NEW k \in Kind, Send(k) PROVE IInv'
<1> USE DEF IInv
<1>0. TypeOK'
  BY SendType
<1>1. /\ requests' = Append(requests, k) /\ requests \in Seq(Kind)
      /\ receiver' = Append(receiver, Len(requests) + 1) /\ receiver \in Seq(Request)
      /\ clientOpen /\ result = "running"
      /\ sink' = [sink EXCEPT ![Len(requests) + 1] = IF k = "copy" THEN "created" ELSE "none"]
      /\ UNCHANGED <<clientOpen, copyChan, pendingRequest, copyDone, pendingResponses,
                     responses, state, result, inbox, wireVars, serverVars>>
  BY DEF Send, ReceiverOpen, TypeOK, ClientTypeOK, ConnTypeOK
<1>2. /\ Len(requests') = Len(requests) + 1 /\ Len(receiver') = Len(receiver) + 1
      /\ \A i \in 1 .. Len(requests) : requests'[i] = requests[i]
      /\ requests'[Len(requests) + 1] = k
      /\ \A i \in 1 .. Len(receiver) : receiver'[i] = receiver[i]
      /\ receiver'[Len(receiver) + 1] = Len(requests) + 1
  BY <1>1
<1>3. Popped' = Popped /\ Completed' = Completed /\ Written' = Written /\ Taken' = Taken
  BY <1>1, <1>2, Counts DEF Popped, Completed, Written, Taken, serverVars
<1>4. QueueInv'
  <2>1. \A i \in 1 .. Len(receiver') : receiver'[i] = Popped + i
    <3>1. receiver'[Len(receiver) + 1] = Popped + (Len(receiver) + 1)
      BY <1>2, Counts DEF Popped
    <3>2. \A i \in 1 .. Len(receiver) : receiver[i] = Popped + i
      BY DEF QueueInv
    <3>3. Popped \in Int /\ Len(receiver) \in Nat
      BY Counts
    <3> QED BY <1>2, <3>1, <3>2, <3>3, Consecutive
  <2>2. Len(receiver') + Len(responses') <= Len(requests')
    BY <1>1, <1>2, Counts DEF QueueInv
  <2> QED BY <1>1, <1>3, <2>1, <2>2 DEF QueueInv
<1>5. ServerInv' /\ OutboundInv'
  BY <1>1, <1>3 DEF ServerInv, OutboundInv, serverVars, wireVars
<1>6. CopyInv'
  <2> DEFINE n == Len(requests) + 1
  <2>1. n \in Request
    BY <1>0, <1>2, Counts DEF TypeOK, ClientTypeOK, Request
  <2>2. ASSUME NEW r \in Request, r # n
        PROVE  sink'[r] = sink[r] /\ (r <= Len(requests) => requests'[r] = requests[r])
    <3>1. sink \in [Request -> SinkState]
      BY DEF TypeOK, SinkTypeOK
    <3>2. sink'[r] = sink[r]
      BY <1>1, <2>2, <3>1
    <3>3. r <= Len(requests) => r \in 1 .. Len(requests)
      BY <2>2, Counts DEF Request
    <3> QED BY <1>1, <3>2, <3>3
  <2>3. sink'[n] # "created" \/ requests'[n] = "copy"
    BY <1>1, <1>2, <2>1 DEF TypeOK, SinkTypeOK
  <2>4. copyChan[n] = <<>>
    BY <2>1, Counts DEF CopyInv
  <2>5. n > served /\ srv.req # n /\ \A i \in 1 .. Len(outbound) : outbound[i].req # n
    <3>1. n > Popped /\ n > served
      BY Counts DEF Popped, ServerInv
    <3>2. srv.req # n
      BY <3>1, Counts DEF ServerInv, TypeOK, ServerTypeOK, ServerState
    <3>3. ASSUME NEW i \in 1 .. Len(outbound) PROVE outbound[i].req # n
      <4>1. CASE outbound[i].kind = "terminate"
        BY <4>1, Counts DEF TypeOK, WireTypeOK, OutMsg
      <4>2. CASE outbound[i].kind # "terminate"
        BY <4>2, <3>1, Counts DEF OutboundInv
      <4> QED BY <4>1, <4>2
    <3> QED BY <3>1, <3>2, <3>3
  <2>6. ASSUME NEW r \in Request, r = n
        PROVE  /\ sink'[r] \in {"none", "created"} => copyChan'[r] = <<>>
               /\ \A i \in 1 .. Len(copyChan'[r]) : copyChan'[r][i].kind = "start" => i = 1
               /\ Unstarted(r)' =>
                    /\ r <= Len(requests') /\ requests'[r] = "copy"
                    /\ srv'.req # r /\ r > served'
                    /\ \A i \in 1 .. Len(outbound') : outbound'[i].req # r
    BY <1>1, <1>2, <2>3, <2>4, <2>5, <2>6, Counts DEF Unstarted, serverVars, wireVars
  <2>7. ASSUME NEW r \in Request, r # n, Unstarted(r)'
        PROVE  /\ r <= Len(requests') /\ requests'[r] = "copy"
               /\ srv'.req # r /\ r > served'
               /\ \A i \in 1 .. Len(outbound') : outbound'[i].req # r
    <3>1. Unstarted(r)
      BY <1>1, <2>2, <2>7 DEF Unstarted
    <3>2. r \in 1 .. Len(requests) /\ requests[r] = "copy"
      BY <3>1, Counts DEF CopyInv, Request
    <3>3. UNCHANGED <<srv, served, outbound>>
      BY <1>1 DEF serverVars, wireVars
    <3> QED BY <1>2, <3>1, <3>2, <3>3, Counts DEF CopyInv
  <2>8. ASSUME NEW r \in Request, r # n
        PROVE  /\ r > Len(requests') => sink'[r] = "none"
               /\ sink'[r] \in {"none", "created"} => copyChan'[r] = <<>>
               /\ \A i \in 1 .. Len(copyChan'[r]) : copyChan'[r][i].kind = "start" => i = 1
    <3>1. sink'[r] = sink[r] /\ copyChan'[r] = copyChan[r]
      BY <1>1, <2>2, <2>8 DEF sinkVars
    <3>2. r > Len(requests') => r > Len(requests)
      BY <1>2, Counts DEF Request
    <3>3. /\ r > Len(requests) => sink[r] = "none"
          /\ sink[r] \in {"none", "created"} => copyChan[r] = <<>>
          /\ \A i \in 1 .. Len(copyChan[r]) : copyChan[r][i].kind = "start" => i = 1
      BY DEF CopyInv
    <3> QED BY <3>1, <3>2, <3>3
  <2>9. n <= Len(requests')
    BY <1>2, Counts
  <2> SUFFICES ASSUME NEW r \in Request
               PROVE  /\ r > Len(requests') => sink'[r] = "none"
                      /\ sink'[r] \in {"none", "created"} => copyChan'[r] = <<>>
                      /\ \A i \in 1 .. Len(copyChan'[r]) : copyChan'[r][i].kind = "start" => i = 1
                      /\ Unstarted(r)' =>
                           /\ r <= Len(requests') /\ requests'[r] = "copy"
                           /\ srv'.req # r /\ r > served'
                           /\ \A i \in 1 .. Len(outbound') : outbound'[i].req # r
    BY DEF CopyInv
  <2>10. CASE r = n
    <3>1. ~(r > Len(requests'))
      BY <1>2, <2>10, Counts
    <3> HIDE DEF n
    <3> QED BY <2>6, <2>10, <3>1
  <2>11. CASE r # n
    <3> HIDE DEF n
    <3> QED BY <2>7, <2>8, <2>11
  <2> QED BY <2>10, <2>11
<1>7. HeldInv' /\ HeldComplete' = HeldComplete
  BY <1>1, <1>3 DEF HeldInv, HeldAlone, Holds, HeldComplete, OwnChunk, IsAsyncChunk, IsAsync,
     RequestComplete, serverVars
<1>8. StreamInv'
  BY <1>1, <1>3, <1>7 DEF StreamInv, Seen, serverVars, wireVars
<1>9. EndInv' /\ RoutedToOwner'
  BY <1>1, <1>3 DEF EndInv, RoutedToOwner, serverVars
<1> QED BY <1>0, <1>4, <1>5, <1>6, <1>7, <1>8, <1>9

\* Dropping the Client leaves every request where it is.
LEMMA DropClientRoute == ASSUME IInv, DropClient PROVE IInv'
<1> USE DEF IInv
<1>0. /\ clientOpen' = FALSE
      /\ UNCHANGED <<requests, sinkVars, connVars, wireVars, serverVars>>
  BY DEF DropClient
<1>1. Popped' = Popped /\ Completed' = Completed /\ Written' = Written /\ Taken' = Taken
  BY <1>0 DEF Popped, Completed, Written, Taken, connVars, serverVars
<1>2. QueueInv' /\ ServerInv' /\ OutboundInv'
  BY <1>0, <1>1 DEF QueueInv, ServerInv, OutboundInv, connVars, wireVars, serverVars
<1>3. CopyInv'
  BY <1>0, KeptCopy DEF sinkVars, wireVars, serverVars
<1>4. HeldInv' /\ HeldComplete' = HeldComplete
  BY <1>0, <1>1 DEF HeldInv, HeldAlone, Holds, HeldComplete, OwnChunk, IsAsyncChunk, IsAsync,
     RequestComplete, serverVars, connVars
<1>5. StreamInv'
  BY <1>0, <1>1, <1>4 DEF StreamInv, Seen, serverVars, wireVars
<1>6. EndInv' /\ RoutedToOwner'
  BY <1>0, <1>1 DEF EndInv, RoutedToOwner, serverVars, connVars
<1> QED BY DropClientType, <1>2, <1>3, <1>4, <1>5, <1>6

\* A step that leaves alone everything the invariant is about but the sinks
\* and their channels.
LEMMA KeptButCopy ==
  ASSUME IInv, TypeOK', CopyInv', UNCHANGED <<queueVars, pendingResponses, result, inbox>>,
         UNCHANGED <<outbound, fromServer, srv, served, serverClosed>>
  PROVE  IInv'
<1> USE DEF IInv
<1>1. QueueInv' /\ ServerInv' /\ OutboundInv'
  BY KeptQueue, KeptServer, KeptOutbound DEF queueVars
<1>2. HeldInv' /\ StreamInv' /\ EndInv' /\ RoutedToOwner'
  BY KeptHeld, KeptStream, KeptEnd
<1> QED BY <1>1, <1>2

\* A sink that is dropped or moves on does not start a copy anew; what it
\* sends after the start follows it.
LEMMA SinkRoute ==
  ASSUME IInv, TypeOK', NEW r \in Request, UNCHANGED <<requests, outbound, srv, served>>,
         \A q \in Request \ {r} : sink'[q] = sink[q] /\ copyChan'[q] = copyChan[q],
         sink[r] = "none" <=> sink'[r] = "none",
         sink'[r] = "created" => sink[r] = "created",
         \/ copyChan'[r] = copyChan[r]
         \/ /\ sink[r] = "created" /\ copyChan'[r] = <<[kind |-> "start", n |-> 0]>>
            /\ sink'[r] = "starting"
         \/ /\ sink[r] \notin {"none", "created"} /\ sink'[r] \notin {"none", "created"}
            /\ \E m \in CopyMsg : m.kind # "start" /\ copyChan'[r] = Append(copyChan[r], m)
  PROVE  CopyInv'
<1> USE DEF IInv
<1>0. copyChan[r] \in Seq(CopyMsg)
  BY DEF TypeOK, SinkTypeOK
<1>1. Unstarted(r)' => Unstarted(r)
  <2>1. ASSUME NEW m \in CopyMsg, m.kind # "start", copyChan'[r] = Append(copyChan[r], m),
               copyChan'[r][1].kind = "start"
        PROVE  copyChan[r] # <<>> /\ copyChan[r][1].kind = "start"
    BY <1>0, <2>1
  <2> QED BY <2>1 DEF Unstarted
<1>2. \A i \in 1 .. Len(copyChan'[r]) : copyChan'[r][i].kind = "start" => i = 1
  <2>1. CASE copyChan'[r] = copyChan[r]
    BY <2>1 DEF CopyInv
  <2>2. CASE copyChan'[r] = <<[kind |-> "start", n |-> 0]>>
    BY <2>2
  <2>3. ASSUME NEW m \in CopyMsg, m.kind # "start", copyChan'[r] = Append(copyChan[r], m)
        PROVE  \A i \in 1 .. Len(copyChan'[r]) : copyChan'[r][i].kind = "start" => i = 1
    <3>1. \A i \in 1 .. Len(copyChan[r]) : copyChan[r][i].kind = "start" => i = 1
      BY DEF CopyInv
    <3> QED BY <1>0, <2>3, <3>1
  <2> QED BY <2>1, <2>2, <2>3
<1>3. sink'[r] \in {"none", "created"} => copyChan'[r] = <<>>
  BY DEF CopyInv
<1>4. \A q \in Request : Unstarted(q)' => Unstarted(q)
  BY <1>1 DEF Unstarted
<1> QED BY <1>2, <1>3, <1>4 DEF CopyInv

\* What the tasks do with their Responses and sinks keeps the invariant.
LEMMA TaskRoute ==
  ASSUME IInv, NEW r \in Request,
         \/ NextMessage(r) \/ SeeClosed(r) \/ DropResponses(r)
         \/ CopyStart(r) \/ SinkPut(r) \/ SinkFlush(r) \/ BeginFinish(r) \/ FinishDone(r)
  PROVE  IInv'
<1> USE DEF IInv
<1>0. TypeOK'
  BY NextMessageType, LeaveType, SinkType
<1>1. UNCHANGED <<clientVars, connVars, wireVars, serverVars>>
  BY DEF NextMessage, SeeClosed, DropResponses, CopyStart, SinkPut, SinkFlush, BeginFinish,
     FinishDone
<1>2. /\ UNCHANGED <<queueVars, pendingResponses, result, inbox>>
      /\ UNCHANGED <<outbound, fromServer, srv, served, serverClosed>>
      /\ requests' = requests
  BY <1>1 DEF queueVars, clientVars, connVars, wireVars, serverVars
<1>3. sink \in [Request -> SinkState] /\ copyChan \in [Request -> Seq(CopyMsg)]
  BY DEF TypeOK, SinkTypeOK
<1>4. CASE NextMessage(r) \/ SeeClosed(r) \/ DropResponses(r) \/ BeginFinish(r)
  <2>1. copyChan' = copyChan
    BY <1>4 DEF NextMessage, SeeClosed, DropResponses, BeginFinish
  <2>2. \A q \in Request \ {r} : sink'[q] = sink[q]
    BY <1>3, <1>4 DEF NextMessage, SeeClosed, DropResponses, BeginFinish, DropReceiver
  <2>3. /\ sink[r] = "none" <=> sink'[r] = "none"
        /\ sink'[r] = "created" => sink[r] = "created"
    BY <1>3, <1>4 DEF NextMessage, SeeClosed, DropResponses, BeginFinish, DropReceiver
  <2>4. CopyInv'
    BY <1>0, <1>2, <2>1, <2>2, <2>3, SinkRoute
  <2> QED BY <1>0, <1>2, <2>4, KeptButCopy
<1>5. CASE CopyStart(r)
  <2>1. copyChan[r] = <<>> /\ sink[r] = "created"
    BY <1>5 DEF CopyStart, CopyInv
  <2>2. /\ sink' = [sink EXCEPT ![r] = "starting"]
        /\ copyChan' = [copyChan EXCEPT ![r] = Append(@, [kind |-> "start", n |-> 0])]
    BY <1>5 DEF CopyStart, CopySend
  <2>3. /\ sink'[r] = "starting" /\ copyChan'[r] = <<[kind |-> "start", n |-> 0]>>
        /\ \A q \in Request \ {r} : sink'[q] = sink[q] /\ copyChan'[q] = copyChan[q]
    BY <1>3, <2>1, <2>2
  <2>4. CopyInv'
    BY <1>0, <1>2, <2>1, <2>3, SinkRoute
  <2> QED BY <1>0, <1>2, <2>4, KeptButCopy
<1>6. ASSUME NEW k \in {"data", "done"}, NEW n \in Nat, CopySend(r, k, n),
             sink[r] \in {"active", "finishing"},
             sink' = sink \/ sink' = [sink EXCEPT ![r] = "reading"]
      PROVE  IInv'
  <2>1. copyChan' = [copyChan EXCEPT ![r] = Append(@, [kind |-> k, n |-> n])]
    BY <1>6 DEF CopySend
  <2>2. [kind |-> k, n |-> n] \in CopyMsg /\ [kind |-> k, n |-> n].kind # "start"
    BY DEF CopyMsg
  <2>3. /\ copyChan'[r] = Append(copyChan[r], [kind |-> k, n |-> n])
        /\ \A q \in Request \ {r} : sink'[q] = sink[q] /\ copyChan'[q] = copyChan[q]
        /\ sink'[r] \in {"active", "finishing", "reading"}
    BY <1>3, <1>6, <2>1
  <2>4. CopyInv'
    BY <1>0, <1>2, <1>6, <2>2, <2>3, SinkRoute
  <2> QED BY <1>0, <1>2, <2>4, KeptButCopy
<1>7. sinkBuf[r] \in Nat /\ sinkBuf[r] + 1 \in Nat /\ 0 \in Nat
  BY DEF TypeOK, SinkTypeOK
<1>8. CASE SinkPut(r)
  <2>1. CASE CopySend(r, "data", sinkBuf[r] + 1)
    BY <1>6, <1>7, <1>8, <2>1 DEF SinkPut
  <2>2. CASE UNCHANGED copyChan
    <3>1. CopyInv'
      BY <1>2, <1>8, <2>2, KeptCopy DEF SinkPut
    <3> QED BY <1>0, <1>2, <3>1, KeptButCopy
  <2> QED BY <1>8, <2>1, <2>2 DEF SinkPut
<1>9. CASE SinkFlush(r)
  BY <1>6, <1>7, <1>9 DEF SinkFlush
<1>10. CASE FinishDone(r)
  BY <1>6, <1>7, <1>10 DEF FinishDone
<1> QED BY <1>4, <1>5, <1>8, <1>9, <1>10

-----------------------------------------------------------------------------
\* The steps of a poll that move no message.
LEMMA QuietRoute ==
  ASSUME IInv,
         \/ PollStart \/ PollFlush \/ PollEnd \/ IoError \/ DropConnection
         \/ PollRead /\ (ReadSkip \/ ReadPending \/ ReadEof)
         \/ PollWrite /\ (WriteClosing \/ WriteBackpressure \/ WriteIdle)
  PROVE  IInv'
<1> USE DEF IInv
<1>0. TypeOK'
  BY PollStartType, PollRestType, PollReadType, PollWriteType
<1>1. /\ UNCHANGED queueVars
      /\ UNCHANGED <<sink, copyChan, pendingResponses, inbox>>
      /\ UNCHANGED <<outbound, fromServer, srv, served, serverClosed>>
  BY DEF PollStart, PollFlush, PollEnd, IoError, DropConnection, ReadSkip, ReadPending, ReadEof,
     WriteClosing, WriteBackpressure, WriteIdle, FlushSocket, queueVars, readFrame, writeFrame,
     clientVars, sinkVars, connVars, wireVars, serverVars
<1>2. result' # result => (result' = "error" /\ serverClosed) \/ (result' = "ok" /\ state = "Closing")
  BY DEF PollStart, PollFlush, PollEnd, IoError, DropConnection, ReadSkip, ReadPending, ReadEof,
     WriteClosing, WriteBackpressure, WriteIdle, Resolve, connVars
<1>3. QueueInv' /\ ServerInv' /\ OutboundInv'
  BY <1>1, KeptQueue, KeptServer, KeptOutbound DEF queueVars
<1>4. CopyInv' /\ HeldInv' /\ StreamInv'
  BY <1>1, KeptCopy, KeptHeld, KeptStream DEF queueVars
<1>5. EndInv' /\ RoutedToOwner'
  <2>1. Completed' = Completed /\ state' = state
    BY <1>1, KeptQueue DEF queueVars
  <2> QED BY <1>1, <1>2, <2>1 DEF EndInv, RoutedToOwner
<1> QED BY <1>0, <1>3, <1>4, <1>5

\* What is left of the stream when the first k messages are decoded.
LEMMA StreamShift ==
  ASSUME TypeOK, QueueInv, StreamInv, NEW k \in 1 .. Len(fromServer),
         fromServer' = SubSeq(fromServer, k + 1, Len(fromServer)),
         UNCHANGED <<served, serverClosed>>, Popped' = Popped,
         \A i \in 1 .. k - 1 : fromServer[i].kind # "ready",
         \/ Seen' = Seen /\ fromServer[k].kind # "ready"
         \/ Seen' = Seen + 1 /\ fromServer[k].kind = "ready" /\ fromServer[k].req = Seen + 1
  PROVE  StreamInv'
<1>0. Seen \in Int /\ served \in Nat /\ Popped \in Int
  BY Counts DEF Seen
<1>1. fromServer \in Seq(Msg) /\ Len(fromServer) \in Nat
  BY DEF TypeOK, WireTypeOK
<1>2. /\ Len(fromServer') = Len(fromServer) - k
      /\ \A i \in 1 .. Len(fromServer') : i + k \in 1 .. Len(fromServer) /\ fromServer'[i] = fromServer[i + k]
  BY <1>1
<1>3. "ready" \in AnswerKind
  BY DEF AnswerKind
<1>4. \A i \in k + 1 .. Len(fromServer) : fromServer[i].kind \in AnswerKind => Seen' < fromServer[i].req
  <2> SUFFICES ASSUME NEW i \in k + 1 .. Len(fromServer), fromServer[i].kind \in AnswerKind
               PROVE  Seen' < fromServer[i].req
    OBVIOUS
  <2>1. i \in 1 .. Len(fromServer) /\ k < i
    BY <1>1
  <2>2. Seen < fromServer[i].req
    BY <2>1 DEF StreamInv
  <2>3. fromServer[k].kind = "ready" => fromServer[k].req < fromServer[i].req
    BY <1>3, <2>1 DEF StreamInv
  <2>4. fromServer[i].req \in Int
    <3>1. fromServer[i] \in Msg
      BY <2>1 DEF TypeOK, WireTypeOK
    <3> QED BY <3>1 DEF Msg, Request
  <2> QED BY <1>0, <2>2, <2>3, <2>4
<1>5. ASSUME NEW n \in Seen' + 1 .. served
      PROVE  \E i \in 1 .. Len(fromServer') : fromServer'[i].kind = "ready" /\ fromServer'[i].req = n
  <2>0. n \in Seen + 1 .. served
    BY <1>0, <1>5
  <2>1. PICK i \in 1 .. Len(fromServer) : fromServer[i].kind = "ready" /\ fromServer[i].req = n
    BY <2>0 DEF StreamInv
  <2>2. i > k
    BY <1>0, <2>1
  <2>3. i - k \in 1 .. Len(fromServer') /\ fromServer'[i - k] = fromServer[i]
    BY <1>1, <1>2, <2>1, <2>2
  <2> QED BY <2>1, <2>3
<1>6. ASSUME NEW i \in 1 .. Len(fromServer')
      PROVE  /\ fromServer'[i].kind = "fatal" => serverClosed
             /\ fromServer'[i].kind \in AnswerKind =>
                  /\ Seen' < fromServer'[i].req /\ fromServer'[i].req <= Popped
                  /\ fromServer'[i].req <= served + 1
                  /\ fromServer'[i].kind = "ready" => fromServer'[i].req <= served
  <2>1. i + k \in k + 1 .. Len(fromServer) /\ i + k \in 1 .. Len(fromServer) /\ fromServer'[i] = fromServer[i + k]
    BY <1>1, <1>2
  <2> QED BY <1>4, <2>1 DEF StreamInv
<1>7. ASSUME NEW i \in 1 .. Len(fromServer'), NEW j \in 1 .. Len(fromServer'), i < j,
             fromServer'[i].kind \in AnswerKind, fromServer'[j].kind \in AnswerKind
      PROVE  /\ fromServer'[i].req <= fromServer'[j].req
             /\ fromServer'[i].kind = "ready" => fromServer'[i].req < fromServer'[j].req
  <2>1. /\ i + k \in 1 .. Len(fromServer) /\ j + k \in 1 .. Len(fromServer) /\ i + k < j + k
        /\ fromServer'[i] = fromServer[i + k] /\ fromServer'[j] = fromServer[j + k]
    <3>1. i + k < j + k
      BY <1>1, <1>7
    <3> QED BY <1>2, <3>1
  <2> QED BY <1>7, <2>1 DEF StreamInv
<1> QED BY <1>5, <1>6, <1>7 DEF StreamInv

\* A decoded run is a chunk of the answer at the front of `responses`; with
\* nothing outstanding it is the server's last word.
LEMMA DecodeOwn ==
  ASSUME TypeOK, QueueInv, ServerInv, StreamInv, pendingResponses = <<>>,
         NEW k \in 1 .. Len(fromServer), Decodes(k), ~IsAsync(fromServer[1])
  PROVE  /\ responses # <<>> => OwnChunk(SubSeq(fromServer, 1, k))
         /\ responses = <<>> => serverClosed
         /\ \A i \in 1 .. k - 1 : fromServer[i].kind # "ready"
         /\ fromServer[k].kind = "ready" => fromServer[k].req = Completed + 1
<1> DEFINE c == SubSeq(fromServer, 1, k)
<1>0. Completed \in Int /\ served \in Nat /\ Popped \in Int
  BY Counts
<1>1. fromServer \in Seq(Msg) /\ Len(fromServer) \in Nat
  BY DEF TypeOK, WireTypeOK
<1>2. Len(c) = k /\ \A i \in 1 .. k : c[i] = fromServer[i]
  BY <1>1
<1>3. \A i \in 1 .. k : ~IsAsync(fromServer[i]) /\ (i < k => fromServer[i].kind # "ready")
  BY DEF Decodes
<1>4. Seen = Completed
  BY DEF Seen, HeldComplete, Holds
<1>5. ASSUME NEW i \in 1 .. k, fromServer[i].kind # "fatal"
      PROVE  fromServer[i].req = Completed + 1 /\ fromServer[i].kind \in AnswerKind
  <2>0. i \in 1 .. Len(fromServer)
    BY <1>1
  <2>1. fromServer[i].kind \in AnswerKind /\ fromServer[i].req \in Nat
    BY <1>1, <1>3, <1>5, <2>0 DEF Msg, LoneKind, AsyncKind, IsAsync, AnswerKind, Request
  <2>2. Completed < fromServer[i].req /\ fromServer[i].req <= served + 1
    BY <1>4, <2>0, <2>1 DEF StreamInv
  <2>3. ASSUME Completed + 1 < fromServer[i].req PROVE FALSE
    <3>1. Completed + 1 \in Seen + 1 .. served
      BY <1>0, <1>4, <2>1, <2>2, <2>3
    <3>2. PICK j \in 1 .. Len(fromServer) :
            fromServer[j].kind = "ready" /\ fromServer[j].req = Completed + 1
      BY <3>1 DEF StreamInv
    <3>3. ~(i < j)
      BY <1>0, <2>0, <2>1, <2>3, <3>2 DEF StreamInv, AnswerKind
    <3>4. j < i
      BY <1>0, <1>1, <2>0, <2>3, <3>2, <3>3
    <3> QED BY <1>1, <1>3, <3>2, <3>4
  <2> QED BY <1>0, <2>1, <2>2, <2>3
<1>6. ASSUME responses # <<>> PROVE OwnChunk(c)
  <2>1. fromServer[k].kind = "ready" => Completed < served
    <3>1. k \in 1 .. k /\ k \in 1 .. Len(fromServer)
      BY <1>1
    <3> QED BY <1>0, <1>5, <3>1 DEF StreamInv, AnswerKind
  <2> QED BY <1>2, <1>3, <1>5, <2>1 DEF OwnChunk
<1>7. ASSUME responses = <<>> PROVE serverClosed
  <2>1. 1 \in 1 .. k /\ 1 \in 1 .. Len(fromServer)
    BY <1>1
  <2>2. Completed = Popped
    BY <1>7, Counts DEF Completed
  <2>3. fromServer[1].kind = "fatal"
    BY <1>0, <1>5, <2>1, <2>2 DEF StreamInv
  <2> QED BY <2>1, <2>3 DEF StreamInv
<1> QED BY <1>1, <1>3, <1>5, <1>6, <1>7

\* A chunk of the answer at the front of `responses` is paged to that request,
\* which is complete when the chunk is.
LEMMA PageRoute ==
  ASSUME IInv, NEW c \in Chunk, OwnChunk(c), responses # <<>>,
         inbox' = [inbox EXCEPT ![responses[1]] = @ \o c], responses' = AfterPage(c),
         UNCHANGED <<clientOpen, requests, receiver, pendingRequest, copyDone, state, result>>,
         UNCHANGED <<srv, served, serverClosed>>
  PROVE  /\ QueueInv' /\ ServerInv' /\ EndInv' /\ RoutedToOwner'
         /\ Completed' = IF RequestComplete(c) THEN Completed + 1 ELSE Completed
         /\ Popped' = Popped /\ Written' = Written
<1> USE DEF IInv
<1>0. responses \in Seq(Request) /\ Len(responses) >= 1 /\ responses[1] \in Request
  BY DEF TypeOK, ConnTypeOK
<1>1. responses[1] = Completed + 1 /\ Completed \in Int
  BY <1>0, Counts DEF QueueInv
<1>2. Popped' = Popped /\ Written' = Written /\ Taken' = Taken
  BY DEF Popped, Written, Taken
<1>3. Completed' = IF RequestComplete(c) THEN Completed + 1 ELSE Completed
  <2>1. CASE RequestComplete(c)
    <3>1. Len(responses') = Len(responses) - 1
      BY <1>0, <2>1 DEF AfterPage
    <3> QED BY <1>2, <2>1, <3>1, Counts DEF Completed
  <2>2. CASE ~RequestComplete(c)
    BY <1>2, <2>2 DEF AfterPage, Completed
  <2> QED BY <2>1, <2>2
<1>4. c \in Seq(Msg) /\ Len(c) \in Nat /\ Len(c) >= 1
  BY DEF Chunk
<1>5. RequestComplete(c) => Completed < served
  BY <1>4 DEF OwnChunk, RequestComplete
<1>6. QueueInv'
  <2>1. CASE ~RequestComplete(c)
    BY <1>2, <1>3, <2>1 DEF QueueInv, AfterPage
  <2>2. CASE RequestComplete(c)
    <3>1. /\ responses' = Tail(responses) /\ Len(responses') = Len(responses) - 1
          /\ \A i \in 1 .. Len(responses') : i + 1 \in 1 .. Len(responses) /\ responses'[i] = responses[i + 1]
      BY <1>0, <2>2 DEF AfterPage
    <3>2. \A i \in 1 .. Len(responses') : responses'[i] = Completed' + i
      BY <1>0, <1>1, <1>3, <2>2, <3>1 DEF QueueInv
    <3>3. Len(receiver') + Len(responses') <= Len(requests')
      BY <3>1, Counts DEF QueueInv
    <3>4. state # "Closing"
      BY <1>0 DEF QueueInv
    <3> QED BY <1>2, <3>2, <3>3, <3>4 DEF QueueInv
  <2> QED BY <2>1, <2>2
<1>7. ServerInv'
  BY <1>1, <1>2, <1>3, <1>5, Counts DEF ServerInv
<1>8. inbox \in [Request -> Seq(Msg)]
  BY DEF TypeOK, ConnTypeOK
<1>9. /\ inbox'[responses[1]] = inbox[responses[1]] \o c
      /\ \A r \in Request : r # responses[1] => inbox'[r] = inbox[r]
  BY <1>0, <1>8
<1>10. EndInv'
  <2>1. ASSUME NEW r \in 1 .. Completed PROVE r \in Request /\ r # responses[1]
    <3>1. Completed <= MaxRequests
      <4>1. Len(requests) <= MaxRequests /\ MaxRequests \in Nat
        BY ConnectionAssumption DEF TypeOK, ClientTypeOK
      <4>2. Completed <= Len(requests)
        BY Counts DEF Completed, Popped
      <4> QED BY <4>1, <4>2, Counts
    <3> QED BY <1>1, <3>1, ConnectionAssumption DEF Request
  <2>2. ASSUME RequestComplete(c)
        PROVE  inbox'[responses[1]] # <<>> /\ inbox'[responses[1]][Len(inbox'[responses[1]])].kind = "ready"
    <3>1. inbox[responses[1]] \in Seq(Msg)
      BY <1>0, <1>8
    <3>2. /\ Len(inbox'[responses[1]]) = Len(inbox[responses[1]]) + Len(c)
          /\ inbox'[responses[1]][Len(inbox[responses[1]]) + Len(c)] = c[Len(c)]
      BY <1>4, <1>9, <3>1
    <3> QED BY <1>4, <2>2, <3>1, <3>2 DEF RequestComplete
  <2>3. \A r \in 1 .. Completed' : r \in 1 .. Completed \/ (RequestComplete(c) /\ r = responses[1])
    BY <1>1, <1>3
  <2>4. \A r \in 1 .. Completed' : inbox'[r] # <<>> /\ inbox'[r][Len(inbox'[r])].kind = "ready"
    BY <1>9, <2>1, <2>2, <2>3 DEF EndInv
  <2> QED BY <2>4 DEF EndInv
<1>11. RoutedToOwner'
  <2>1. ASSUME NEW i \in 1 .. Len(inbox'[responses[1]]), inbox'[responses[1]][i].kind # "fatal"
        PROVE  inbox'[responses[1]][i].req = responses[1]
    <3>0. inbox[responses[1]] \in Seq(Msg)
      BY <1>0, <1>8
    <3>1. CASE i <= Len(inbox[responses[1]])
      <4>1. i \in 1 .. Len(inbox[responses[1]]) /\ inbox'[responses[1]][i] = inbox[responses[1]][i]
        BY <1>4, <1>9, <3>0, <3>1
      <4> QED BY <1>0, <2>1, <4>1 DEF RoutedToOwner
    <3>2. CASE i > Len(inbox[responses[1]])
      <4> DEFINE j == i - Len(inbox[responses[1]])
      <4>1. j \in 1 .. Len(c) /\ inbox'[responses[1]][i] = c[j]
        <5>1. i \in Nat /\ Len(inbox'[responses[1]]) = Len(inbox[responses[1]]) + Len(c)
          BY <1>4, <1>9, <3>0
        <5>2. j \in 1 .. Len(c)
          BY <1>4, <3>0, <3>2, <5>1
        <5> QED BY <1>4, <1>9, <3>0, <3>2, <5>1, <5>2
      <4>2. c[j].kind # "fatal" => c[j].req = Completed + 1
        BY <4>1 DEF OwnChunk
      <4> QED BY <1>1, <2>1, <4>1, <4>2
    <3> QED BY <3>0, <3>1, <3>2
  <2>2. ASSUME NEW r \in Request, NEW i \in 1 .. Len(inbox'[r]), inbox'[r][i].kind # "fatal"
        PROVE  inbox'[r][i].req = r
    <3>1. CASE r = responses[1]
      BY <2>1, <2>2, <3>1
    <3>2. CASE r # responses[1]
      <4>1. inbox'[r] = inbox[r]
        BY <1>9, <3>2
      <4>2. RoutedToOwner
        BY DEF IInv
      <4> QED BY <2>2, <4>1, <4>2 DEF RoutedToOwner
    <3> QED BY <3>1, <3>2
  <2> QED BY <2>2 DEF RoutedToOwner
<1> QED BY <1>2, <1>3, <1>6, <1>7, <1>10, <1>11

\* A chunk taken from pending_responses.
LEMMA HeldRoute ==
  ASSUME IInv, PollRead, pendingResponses # <<>>,
         ReadMessage(pendingResponses[1], Tail(pendingResponses), fromServer)
  PROVE  IInv'
<1> USE DEF IInv
<1> DEFINE c == pendingResponses[1]
<1>0. TypeOK'
  BY PollReadType
<1>1. /\ UNCHANGED readFrame /\ fromServer' = fromServer
      /\ pendingResponses' \in {Tail(pendingResponses), Append(Tail(pendingResponses), c)}
  BY DEF ReadMessage, ReadAsync, ReadUnexpected, ReadPage, ReadBlocked
<1>2. /\ UNCHANGED <<clientOpen, requests, receiver, pendingRequest, copyDone, state>>
      /\ UNCHANGED <<sink, copyChan, srv, served, serverClosed, outbound>>
  BY <1>1 DEF readFrame, clientVars, sinkVars, serverVars
<1>3. CopyInv'
  BY <1>2, KeptCopy
<1>4. pendingResponses \in Seq(Chunk) /\ Len(pendingResponses) >= 1 /\ c \in Chunk
  BY DEF TypeOK, ConnTypeOK
<1>5. CASE IsAsyncChunk(c)
  <2>1. /\ pendingResponses' = Tail(pendingResponses)
        /\ UNCHANGED <<responses, result, inbox>>
    BY <1>5 DEF ReadMessage, ReadAsync, ReadUnexpected, ReadPage, ReadBlocked
  <2>2. UNCHANGED queueVars
    BY <1>2, <2>1 DEF queueVars
  <2>3. QueueInv' /\ ServerInv' /\ OutboundInv' /\ EndInv' /\ RoutedToOwner'
    BY <1>2, <2>1, <2>2, KeptQueue, KeptServer, KeptOutbound, KeptEnd
  <2>4. HeldAlone' /\ ~Holds'
    <3>1. /\ Len(pendingResponses') = Len(pendingResponses) - 1
          /\ \A i \in 1 .. Len(pendingResponses') :
               i + 1 \in 1 .. Len(pendingResponses) /\ pendingResponses'[i] = pendingResponses[i + 1]
      BY <1>4, <2>1
    <3>2. \A i \in 1 .. Len(pendingResponses') : IsAsyncChunk(pendingResponses'[i])
      BY <1>4, <3>1 DEF HeldInv, HeldAlone
    <3>3. pendingResponses' # <<>> => 1 \in 1 .. Len(pendingResponses')
      BY <1>4, <2>1
    <3> QED BY <3>2, <3>3 DEF HeldAlone, Holds, IsAsyncChunk
  <2>5. HeldInv' /\ Seen' = Seen
    <3>1. Completed' = Completed
      BY <2>2, KeptQueue
    <3>2. ~HeldComplete /\ ~HeldComplete'
      BY <1>5, <2>4 DEF HeldComplete, Holds
    <3> QED BY <2>4, <3>1, <3>2 DEF HeldInv, Seen
  <2>6. StreamInv'
    <3>1. Popped' = Popped
      BY <2>2, KeptQueue
    <3> QED BY <1>1, <1>2, <2>5, <3>1 DEF StreamInv
  <2> QED BY <1>0, <1>3, <2>3, <2>5, <2>6
<1>6. CASE ~IsAsyncChunk(c)
  <2>1. responses # <<>> /\ OwnChunk(c) /\ Len(pendingResponses) = 1
    BY <1>4, <1>6 DEF HeldInv, Holds, HeldAlone
  <2>2. Tail(pendingResponses) = <<>> /\ pendingResponses = <<c>>
    <3>1. pendingResponses = <<c>>
      BY <1>4, <2>1
    <3>2. Tail(<<c>>) = <<>>
      OBVIOUS
    <3> QED BY <3>1, <3>2
  <2>3. CASE ReadPage(c, Tail(pendingResponses), fromServer)
    <3>1. /\ inbox' = [inbox EXCEPT ![responses[1]] = @ \o c] /\ responses' = AfterPage(c)
          /\ result' = result /\ pendingResponses' = <<>>
      BY <2>2, <2>3 DEF ReadPage
    <3>2. /\ QueueInv' /\ ServerInv' /\ EndInv' /\ RoutedToOwner'
          /\ Completed' = IF RequestComplete(c) THEN Completed + 1 ELSE Completed
          /\ Popped' = Popped /\ Written' = Written
      BY <1>2, <1>4, <2>1, <3>1, PageRoute
    <3>3. OutboundInv'
      BY <1>2, <3>2, KeptOutbound
    <3>4. HeldInv' /\ ~HeldComplete'
      BY <3>1 DEF HeldInv, HeldAlone, Holds, HeldComplete
    <3>5. Seen' = Seen
      BY <1>6, <3>2, <3>4 DEF Seen, HeldComplete, Holds
    <3>6. StreamInv'
      BY <1>1, <1>2, <3>2, <3>5 DEF StreamInv
    <3> QED BY <1>0, <1>3, <3>2, <3>3, <3>4, <3>6
  <2>4. CASE ReadBlocked(c, Tail(pendingResponses), fromServer)
    <3>1. pendingResponses' = pendingResponses /\ UNCHANGED <<responses, result, inbox>>
      BY <2>2, <2>4 DEF ReadBlocked
    <3>2. UNCHANGED queueVars
      BY <1>2, <3>1 DEF queueVars
    <3> QED BY <1>0, <1>1, <1>2, <1>3, <3>1, <3>2, KeptButCopy
  <2> QED BY <1>6, <2>1, <2>3, <2>4 DEF ReadMessage, ReadAsync, ReadUnexpected
<1> QED BY <1>5, <1>6

\* A chunk decoded from the stream.
LEMMA DecodeRoute ==
  ASSUME IInv, PollRead, pendingResponses = <<>>, NEW k \in 1 .. Len(fromServer), Decodes(k),
         ReadMessage(SubSeq(fromServer, 1, k), <<>>,
                     SubSeq(fromServer, k + 1, Len(fromServer)))
  PROVE  IInv'
<1> USE DEF IInv
<1> DEFINE c == SubSeq(fromServer, 1, k)
           strm == SubSeq(fromServer, k + 1, Len(fromServer))
<1>0. TypeOK'
  BY PollReadType
<1>1. UNCHANGED readFrame /\ fromServer' = strm /\ pendingResponses' \in {<<>>, <<c>>}
  BY DEF ReadMessage, ReadAsync, ReadUnexpected, ReadPage, ReadBlocked
<1>2. /\ UNCHANGED <<clientOpen, requests, receiver, pendingRequest, copyDone, state>>
      /\ UNCHANGED <<sink, copyChan, srv, served, serverClosed, outbound>>
  BY <1>1 DEF readFrame, clientVars, sinkVars, serverVars
<1>3. CopyInv'
  BY <1>2, KeptCopy
<1>4. /\ fromServer \in Seq(Msg) /\ c \in Chunk
      /\ Len(c) = k /\ c[1] = fromServer[1] /\ c[k] = fromServer[k]
  BY DecodeType DEF TypeOK, WireTypeOK
<1>5. Seen = Completed
  BY DEF Seen, HeldComplete, Holds
<1>6. CASE responses' = responses /\ pendingResponses' = <<>> /\ inbox' = inbox
           /\ (\A i \in 1 .. k : fromServer[i].kind # "ready")
           /\ (result' = result \/ (result' = "error" /\ serverClosed))
  <2>1. UNCHANGED queueVars
    BY <1>2, <1>6 DEF queueVars
  <2>2. QueueInv' /\ ServerInv' /\ OutboundInv' /\ Completed' = Completed /\ Popped' = Popped
    BY <1>2, <2>1, KeptQueue, KeptServer, KeptOutbound
  <2>3. HeldInv' /\ Seen' = Seen
    BY <1>5, <1>6, <2>2 DEF HeldInv, HeldAlone, Holds, HeldComplete, Seen
  <2>4. StreamInv'
    BY <1>1, <1>2, <1>6, <2>2, <2>3, StreamShift
  <2>5. EndInv' /\ RoutedToOwner'
    BY <1>2, <1>6, <2>2 DEF EndInv, RoutedToOwner
  <2> QED BY <1>0, <1>3, <2>2, <2>3, <2>4, <2>5
<1>7. CASE ReadAsync(c, <<>>, strm)
  <2>1. IsAsync(fromServer[1]) /\ k = 1
    BY <1>4, <1>7 DEF ReadAsync, IsAsyncChunk, Decodes
  <2>2. \A i \in 1 .. k : fromServer[i].kind # "ready"
    BY <2>1 DEF IsAsync, AsyncKind
  <2> QED BY <1>6, <1>7, <2>2 DEF ReadAsync
<1>8. CASE ~IsAsyncChunk(c)
  <2>1. /\ responses # <<>> => OwnChunk(c)
        /\ responses = <<>> => serverClosed
        /\ \A i \in 1 .. k - 1 : fromServer[i].kind # "ready"
        /\ fromServer[k].kind = "ready" => fromServer[k].req = Completed + 1
    BY <1>4, <1>8, DecodeOwn DEF IsAsyncChunk
  <2>2. RequestComplete(c) <=> fromServer[k].kind = "ready"
    BY <1>4 DEF RequestComplete
  <2>3. CASE ReadUnexpected(c, <<>>, strm)
    <3>1. \A i \in 1 .. k : fromServer[i].kind # "ready"
      <4>1. Completed = Popped /\ Popped \in Int
        BY <2>3, Counts DEF ReadUnexpected, Completed
      <4>2. k \in 1 .. Len(fromServer)
        OBVIOUS
      <4>3. fromServer[k].kind # "ready"
        BY <1>5, <2>1, <4>1, <4>2 DEF StreamInv, AnswerKind
      <4> QED BY <2>1, <4>3
    <3> QED BY <1>6, <2>1, <2>3, <3>1 DEF ReadUnexpected, Resolve
  <2>4. CASE ReadPage(c, <<>>, strm)
    <3>1. /\ inbox' = [inbox EXCEPT ![responses[1]] = @ \o c] /\ responses' = AfterPage(c)
          /\ result' = result /\ pendingResponses' = <<>> /\ responses # <<>>
      BY <2>4 DEF ReadPage
    <3>2. /\ QueueInv' /\ ServerInv' /\ EndInv' /\ RoutedToOwner'
          /\ Completed' = IF RequestComplete(c) THEN Completed + 1 ELSE Completed
          /\ Popped' = Popped /\ Written' = Written
      BY <1>2, <1>4, <2>1, <3>1, PageRoute
    <3>3. OutboundInv'
      BY <1>2, <3>2, KeptOutbound
    <3>4. HeldInv' /\ Seen' = Completed'
      BY <3>1 DEF HeldInv, HeldAlone, Holds, HeldComplete, Seen
    <3>5. StreamInv'
      BY <1>1, <1>2, <1>5, <2>1, <2>2, <3>2, <3>4, StreamShift
    <3> QED BY <1>0, <1>3, <3>2, <3>3, <3>4, <3>5
  <2>5. CASE ReadBlocked(c, <<>>, strm)
    <3>1. /\ pendingResponses' = <<c>> /\ UNCHANGED <<responses, result, inbox>> /\ responses # <<>>
      BY <2>5 DEF ReadBlocked
    <3>2. UNCHANGED queueVars
      BY <1>2, <3>1 DEF queueVars
    <3>3. /\ QueueInv' /\ ServerInv' /\ OutboundInv' /\ EndInv' /\ RoutedToOwner'
          /\ Completed' = Completed /\ Popped' = Popped
      BY <1>2, <3>1, <3>2, KeptQueue, KeptServer, KeptOutbound, KeptEnd
    <3>4. Holds' /\ HeldComplete' = RequestComplete(c)
      BY <1>8, <3>1 DEF Holds, HeldComplete, IsAsyncChunk, IsAsync, RequestComplete
    <3>5. HeldInv'
      BY <1>2, <2>1, <3>1, <3>3 DEF HeldInv, HeldAlone, OwnChunk
    <3>6. Seen' = IF RequestComplete(c) THEN Completed + 1 ELSE Completed
      BY <3>3, <3>4 DEF Seen
    <3>7. StreamInv'
      BY <1>1, <1>2, <1>5, <2>1, <2>2, <3>3, <3>6, StreamShift
    <3> QED BY <1>0, <1>3, <3>3, <3>5, <3>7
  <2> QED BY <1>8, <2>3, <2>4, <2>5 DEF ReadMessage, ReadAsync
<1> QED BY <1>7, <1>8 DEF ReadMessage, ReadUnexpected, ReadPage, ReadBlocked, ReadAsync

\* poll_read keeps the invariant.
LEMMA ReadRoute == ASSUME IInv, PollRead PROVE IInv'
BY HeldRoute, DecodeRoute, QuietRoute DEF PollRead

-----------------------------------------------------------------------------
\* Taking the next request from the channel.
LEMMA TakeNext ==
  ASSUME TypeOK, QueueInv, receiver # <<>>, pendingRequest = 0,
         receiver' = Tail(receiver), responses' = Append(responses, receiver[1]),
         UNCHANGED requests
  PROVE  /\ receiver[1] = Popped + 1 /\ Popped' = Popped + 1 /\ Completed' = Completed
         /\ Written = Popped /\ responses' # <<>>
         /\ Len(receiver') + Len(responses') <= Len(requests')
         /\ \A i \in 1 .. Len(receiver') : receiver'[i] = Popped' + i
         /\ \A i \in 1 .. Len(responses') : responses'[i] = Completed' + i
<1>0. /\ receiver \in Seq(Request) /\ Len(receiver) >= 1 /\ receiver[1] \in Request
      /\ responses \in Seq(Request)
  BY DEF TypeOK, ConnTypeOK
<1>1. /\ Len(receiver') = Len(receiver) - 1
      /\ \A i \in 1 .. Len(receiver') : i + 1 \in 1 .. Len(receiver) /\ receiver'[i] = receiver[i + 1]
  BY <1>0
<1>2. /\ Len(responses') = Len(responses) + 1
      /\ \A i \in 1 .. Len(responses) : responses'[i] = responses[i]
      /\ responses'[Len(responses) + 1] = receiver[1]
  BY <1>0
<1>3. receiver[1] = Popped + 1 /\ Popped \in Int
  BY <1>0, Counts DEF QueueInv
<1>4. Popped' = Popped + 1 /\ Completed' = Completed
  BY <1>1, <1>2, Counts DEF Popped, Completed
<1>5. \A i \in 1 .. Len(receiver') : receiver'[i] = Popped' + i
  BY <1>0, <1>1, <1>3, <1>4 DEF QueueInv
<1>6. \A i \in 1 .. Len(responses') : responses'[i] = Completed' + i
  <2>1. responses'[Len(responses) + 1] = Completed + (Len(responses) + 1) /\ Completed \in Int
    BY <1>2, <1>3, Counts DEF Completed
  <2>2. \A i \in 1 .. Len(responses) : responses[i] = Completed + i
    BY DEF QueueInv
  <2>3. Len(responses) \in Nat
    BY <1>0
  <2>4. Len(responses') = Len(responses) + 1 /\ \A i \in 1 .. Len(responses) : responses'[i] = responses[i]
    BY <1>2
  <2>5. \A i \in 1 .. Len(responses') : responses'[i] = Completed + i
    <3> SUFFICES ASSUME NEW i \in 1 .. Len(responses') PROVE responses'[i] = Completed + i
      OBVIOUS
    <3>1. CASE i \in 1 .. Len(responses)
      BY <2>2, <2>4, <3>1
    <3>2. CASE i = Len(responses) + 1
      BY <2>1, <3>2
    <3>3. i \in 1 .. Len(responses) \/ i = Len(responses) + 1
      BY <2>3, <2>4
    <3> QED BY <3>1, <3>2, <3>3
  <2> QED BY <1>4, <2>5
<1>7. Len(receiver') + Len(responses') <= Len(requests')
  BY <1>1, <1>2, Counts DEF QueueInv
<1>8. responses' # <<>>
  BY <1>0
<1>9. Written = Popped
  BY DEF Written
<1> QED BY <1>3, <1>4, <1>5, <1>6, <1>7, <1>8, <1>9

\* poll_request hands over the copy that is being written.
LEMMA TakeCopyNext ==
  ASSUME TypeOK, QueueInv, NEW r \in Request, TakeCopy(r), ~copyDone, pendingRequest' = r,
         copyDone' \in BOOLEAN, UNCHANGED <<clientOpen, requests, state>>
  PROVE  /\ QueueInv' /\ Completed' = Completed /\ Popped' \in {Popped, Popped + 1}
         /\ r = Popped' /\ Written = Popped' - 1
         /\ Written' = IF copyDone' THEN Popped' ELSE Popped' - 1
         /\ responses # <<>> => responses' # <<>>
<1>0. r # 0 /\ state # "Closing" /\ Popped \in Int
  BY Counts DEF Request, TakeCopy, StreamReady
<1>1. Written' = IF copyDone' THEN Popped' ELSE Popped' - 1
  BY <1>0 DEF Written
<1>2. CASE pendingRequest # 0 /\ r = pendingRequest /\ UNCHANGED <<receiver, responses>>
  <2>1. Popped' = Popped /\ Completed' = Completed /\ r = Popped /\ Written = Popped - 1
    BY <1>2 DEF Popped, Completed, Written, QueueInv
  <2>2. QueueInv'
    BY <1>0, <1>2, <2>1 DEF QueueInv
  <2> QED BY <1>1, <1>2, <2>1, <2>2
<1>3. CASE /\ pendingRequest = 0 /\ receiver # <<>> /\ r = receiver[1]
           /\ receiver' = Tail(receiver) /\ responses' = Append(responses, r)
  <2>1. /\ receiver[1] = Popped + 1 /\ Popped' = Popped + 1 /\ Completed' = Completed
        /\ Written = Popped /\ responses' # <<>>
        /\ Len(receiver') + Len(responses') <= Len(requests')
        /\ \A i \in 1 .. Len(receiver') : receiver'[i] = Popped' + i
        /\ \A i \in 1 .. Len(responses') : responses'[i] = Completed' + i
    BY <1>3, TakeNext
  <2>2. QueueInv'
    BY <1>0, <1>3, <2>1 DEF QueueInv
  <2> QED BY <1>0, <1>1, <1>3, <2>1, <2>2
<1> QED BY <1>2, <1>3 DEF TakeCopy

\* What poll_write does to the queues leaves the answers alone.
LEMMA WriteKeeps ==
  ASSUME IInv, Completed' = Completed, Popped' \in {Popped, Popped + 1},
         responses # <<>> => responses' # <<>>, state' \in {state, "Closing"},
         UNCHANGED <<served, serverClosed, fromServer, pendingResponses, inbox, result>>
  PROVE  HeldInv' /\ StreamInv' /\ EndInv' /\ RoutedToOwner'
<1> USE DEF IInv
<1>1. HeldInv' /\ HeldComplete' = HeldComplete
  BY DEF HeldInv, HeldAlone, Holds, HeldComplete, OwnChunk, IsAsyncChunk, IsAsync, RequestComplete
<1>2. Seen' = Seen
  BY <1>1 DEF Seen
<1>3. ASSUME NEW i \in 1 .. Len(fromServer), fromServer[i].kind \in AnswerKind
      PROVE  fromServer[i].req <= Popped'
  <2>1. fromServer[i].req \in Int
    BY <1>3 DEF TypeOK, WireTypeOK, Msg, Request
  <2>2. fromServer[i].req <= Popped
    BY <1>3 DEF StreamInv
  <2>3. Popped \in Int
    BY Counts
  <2> QED BY <2>1, <2>2, <2>3
<1>4. StreamInv'
  BY <1>2, <1>3 DEF StreamInv
<1>5. EndInv' /\ RoutedToOwner'
  BY DEF EndInv, RoutedToOwner
<1> QED BY <1>1, <1>4, <1>5

\* A frontend message of the newest request is written behind all others.
LEMMA OutboundAppend ==
  ASSUME TypeOK, ServerInv, OutboundInv, state # "Closing", UNCHANGED <<state, srv, served>>,
         NEW m \in OutMsg, m.kind # "terminate",
         Len(outbound') = Len(outbound) + 1, outbound'[Len(outbound) + 1] = m,
         \A i \in 1 .. Len(outbound) : outbound'[i] = outbound[i],
         NEW p \in {Popped, Popped + 1}, Popped' = p, m.req = p, Written = p - 1,
         m.kind \in Final => Written' = p,
         m.kind \notin Final => Written' = Written,
         m.kind \in First => /\ \A i \in 1 .. Len(outbound) : outbound[i].req # m.req
                             /\ srv.req # m.req
  PROVE  OutboundInv'
<1>0. /\ Popped \in Int /\ Written \in Int /\ Taken \in Nat /\ Taken' = Taken
      /\ p \in Int /\ Popped <= p
  BY Counts DEF Taken
<1>1. outbound \in Seq(OutMsg) /\ Len(outbound) \in Nat
  BY DEF TypeOK, WireTypeOK
<1>2. Written' \in Int /\ Written <= Written' /\ Written' <= p
  BY <1>0
<1>3. ASSUME NEW i \in 1 .. Len(outbound)
      PROVE  /\ outbound[i].kind # "terminate" /\ outbound[i].req \in Int
             /\ Taken < outbound[i].req /\ outbound[i].req <= p
             /\ outbound[i].kind \in Final => outbound[i].req <= Written
             /\ outbound[i].kind \in First /\ srv.mode \in CopyModes => outbound[i].req > srv.req
  <2>1. outbound[i].kind # "terminate"
    BY DEF OutboundInv
  <2>2. outbound[i].req \in Int
    BY <1>1, <2>1 DEF OutMsg, Request
  <2> QED BY <1>0, <2>1, <2>2 DEF OutboundInv
<1>4. /\ Taken < m.req /\ m.req \in Int
      /\ m.kind \in Final => m.req <= Written'
      /\ m.kind \in First /\ srv.mode \in CopyModes => m.req > srv.req
  <2>1. srv.mode \in CopyModes => srv.req <= Popped /\ srv.req \in Int
    BY DEF ServerInv, CopyModes, TypeOK, ServerTypeOK, ServerState, Request
  <2> QED BY <1>0, <2>1 DEF ServerInv
<1>5. ASSUME NEW i \in 1 .. Len(outbound')
      PROVE  IF outbound'[i].kind = "terminate"
               THEN i = Len(outbound') /\ state' = "Closing"
               ELSE /\ Taken' < outbound'[i].req /\ outbound'[i].req <= Popped'
                    /\ outbound'[i].kind \in Final => outbound'[i].req <= Written'
                    /\ outbound'[i].kind \in First /\ srv'.mode \in CopyModes =>
                         outbound'[i].req > srv'.req
  <2>1. CASE i = Len(outbound) + 1
    BY <1>0, <1>2, <1>4, <2>1
  <2>2. CASE i \in 1 .. Len(outbound)
    BY <1>0, <1>2, <1>3, <2>2
  <2> QED BY <1>1, <1>2, <2>1, <2>2
<1>6. ASSUME NEW i \in 1 .. Len(outbound'), NEW j \in 1 .. Len(outbound'), i < j,
             outbound'[j].kind # "terminate"
      PROVE  /\ outbound'[i].req <= outbound'[j].req
             /\ outbound'[i].kind \in Final \/ outbound'[j].kind \in First =>
                  outbound'[i].req < outbound'[j].req
  <2>1. i \in 1 .. Len(outbound) /\ outbound'[i] = outbound[i]
    BY <1>1, <1>2, <1>6
  <2>2. CASE j = Len(outbound) + 1
    <3>1. outbound[i].kind \in Final => outbound[i].req < m.req
      BY <1>0, <1>3, <2>1
    <3>2. m.kind \in First => outbound[i].req < m.req
      BY <1>0, <1>3, <2>1
    <3> QED BY <1>2, <1>3, <2>1, <2>2, <3>1, <3>2
  <2>3. CASE j \in 1 .. Len(outbound)
    BY <1>2, <1>6, <2>1, <2>3 DEF OutboundInv
  <2> QED BY <1>1, <1>2, <2>2, <2>3
<1>7. ASSUME NEW n \in Taken' + 1 .. Written'
      PROVE  \E i \in 1 .. Len(outbound') : outbound'[i].kind \in Final /\ outbound'[i].req = n
  <2>1. CASE n <= Written
    <3>1. PICK i \in 1 .. Len(outbound) : outbound[i].kind \in Final /\ outbound[i].req = n
      BY <1>0, <2>1 DEF OutboundInv
    <3> QED BY <1>1, <1>2, <3>1
  <2>2. CASE n > Written
    <3>1. m.kind \in Final /\ n = m.req
      BY <1>0, <2>2
    <3> QED BY <1>1, <1>2, <3>1
  <2> QED BY <1>0, <2>1, <2>2
<1> QED BY <1>5, <1>6, <1>7 DEF OutboundInv

\* What an append does to `outbound`.
LEMMA Appended ==
  ASSUME TypeOK, NEW m \in OutMsg, outbound' = Append(outbound, m)
  PROVE  /\ Len(outbound') = Len(outbound) + 1 /\ outbound'[Len(outbound) + 1] = m
         /\ \A i \in 1 .. Len(outbound) : outbound'[i] = outbound[i]
BY DEF TypeOK, WireTypeOK

\* Writing a message of a request that has started, or is no copy.
LEMMA CopyAppend ==
  ASSUME TypeOK, CopyInv, NEW r \in Request, NEW m \in OutMsg, m.req = r, ~Unstarted(r)',
         Len(outbound') = Len(outbound) + 1, outbound'[Len(outbound) + 1] = m,
         \A i \in 1 .. Len(outbound) : outbound'[i] = outbound[i],
         UNCHANGED <<requests, sink, srv, served>>,
         \A q \in Request \ {r} : copyChan'[q] = copyChan[q],
         \A i \in 1 .. Len(copyChan'[r]) : copyChan'[r][i].kind = "start" => i = 1,
         sink[r] \in {"none", "created"} => copyChan'[r] = <<>>
  PROVE  CopyInv'
<1>1. ASSUME NEW q \in Request \ {r}, Unstarted(q)' PROVE Unstarted(q)
  BY <1>1 DEF Unstarted
<1>2. ASSUME NEW q \in Request, Unstarted(q)', NEW i \in 1 .. Len(outbound')
      PROVE  outbound'[i].req # q
  <2>1. Len(outbound) \in Nat
    BY DEF TypeOK, WireTypeOK
  <2>2. q # r /\ Unstarted(q)
    BY <1>1, <1>2
  <2>3. CASE i \in 1 .. Len(outbound)
    BY <2>2, <2>3 DEF CopyInv
  <2>4. CASE i = Len(outbound) + 1
    BY <2>2, <2>4
  <2> QED BY <2>1, <2>3, <2>4
<1> QED BY <1>1, <1>2 DEF CopyInv

\* A request of one buffer is written.
LEMMA SingleRoute == ASSUME IInv, PollWrite, WriteSingle PROVE IInv'
<1> USE DEF IInv
<1> receiver[1] \in Request
  BY DEF WriteSingle, TypeOK, ConnTypeOK
<1> PICK r \in Request : r = receiver[1]
  OBVIOUS
<1> DEFINE m == Out("query", r, 0)
<1>0. TypeOK'
  BY PollWriteType
<1>1. /\ state # "Closing" /\ pendingRequest = 0 /\ receiver # <<>> /\ requests[r] = "single"
      /\ receiver' = Tail(receiver) /\ responses' = Append(responses, r)
      /\ outbound' = Append(outbound, m)
  BY DEF WriteSingle, StreamReady
<1>2. /\ UNCHANGED <<clientOpen, requests, pendingRequest, copyDone, state, result>>
      /\ UNCHANGED <<sink, copyChan, srv, served, serverClosed, fromServer, pendingResponses, inbox>>
  BY DEF WriteSingle, writeFrame, clientVars, serverVars
<1>3. /\ r = Popped + 1 /\ Popped' = Popped + 1 /\ Completed' = Completed
      /\ Written = Popped /\ responses' # <<>>
      /\ Len(receiver') + Len(responses') <= Len(requests')
      /\ \A i \in 1 .. Len(receiver') : receiver'[i] = Popped' + i
      /\ \A i \in 1 .. Len(responses') : responses'[i] = Completed' + i
  BY <1>1, <1>2, TakeNext
<1>4. r \in Request /\ m \in OutMsg /\ m.kind = "query" /\ m.req = r
  BY <1>1, OutType DEF TypeOK, ConnTypeOK, OutKind, Out
<1>5. /\ Len(outbound') = Len(outbound) + 1 /\ outbound'[Len(outbound) + 1] = m
      /\ \A i \in 1 .. Len(outbound) : outbound'[i] = outbound[i]
  BY <1>1, <1>4, Appended
<1>6. Popped \in Int /\ Written' = Popped + 1 /\ Taken' = Taken
  BY <1>1, <1>2, <1>3, Counts DEF Written, Taken
<1>7. QueueInv'
  <2>1. ~copyDone
    BY <1>1 DEF QueueInv
  <2> QED BY <1>1, <1>2, <1>3, <2>1 DEF QueueInv
<1>8. ServerInv'
  <2>1. srv.mode # "idle" => srv.req \in Int
    BY DEF TypeOK, ServerTypeOK, ServerState, Request
  <2> QED BY <1>2, <1>3, <1>6, <2>1, Counts DEF ServerInv
<1>9. OutboundInv'
  <2>0. m.req = Popped + 1
    BY <1>3, <1>4
  <2>1. ASSUME NEW i \in 1 .. Len(outbound) PROVE outbound[i].req # m.req
    <3>1. outbound[i].kind # "terminate"
      BY <1>1 DEF OutboundInv
    <3>2. outbound[i].req \in Int
      BY <3>1 DEF TypeOK, WireTypeOK, OutMsg, Request
    <3>3. outbound[i].req <= Popped
      BY <3>1 DEF OutboundInv
    <3> QED BY <1>6, <2>0, <3>2, <3>3
  <2>2. srv.req # m.req
    <3>1. srv.mode = "idle" => srv.req = 0
      BY DEF TypeOK, ServerTypeOK, ServerState
    <3>2. srv.mode # "idle" => srv.req <= Popped /\ srv.req \in Int
      BY DEF ServerInv, TypeOK, ServerTypeOK, ServerState, Request
    <3>3. m.req \in Int /\ m.req # 0
      BY <1>4 DEF Request
    <3> QED BY <1>6, <2>0, <3>1, <3>2, <3>3
  <2>3. m.kind \in Final /\ m.kind # "terminate"
    BY <1>4 DEF Final
  <2> QED BY <1>1, <1>2, <1>3, <1>4, <1>5, <1>6, <2>1, <2>2, <2>3, OutboundAppend
<1>10. CopyInv'
  <2>1. ~Unstarted(r)'
    <3>1. ~Unstarted(r)
      BY <1>1, <1>4 DEF CopyInv
    <3> QED BY <1>2, <3>1 DEF Unstarted
  <2> QED BY <1>2, <1>4, <1>5, <2>1, CopyAppend DEF CopyInv
<1>11. HeldInv' /\ StreamInv' /\ EndInv' /\ RoutedToOwner'
  BY <1>2, <1>3, WriteKeeps
<1> QED BY <1>0, <1>7, <1>8, <1>9, <1>10, <1>11

\* A message of a copy is written, or the copy has nothing to give.
LEMMA CopyRoute ==
  ASSUME IInv, PollWrite, NEW r \in Request, WriteCopy(r) \/ WriteCopyPending(r)
  PROVE  IInv'
<1> USE DEF IInv
<1>0. TypeOK'
  BY PollWriteType
<1>1. /\ TakeCopy(r) /\ ~copyDone /\ pendingRequest' = r /\ state # "Closing"
      /\ UNCHANGED <<clientOpen, requests, state, result>>
      /\ UNCHANGED <<sink, srv, served, serverClosed, fromServer, pendingResponses, inbox>>
  BY DEF WriteCopy, WriteCopyPending, TakeCopy, StreamReady, writeFrame, clientVars, serverVars
<1>2. copyDone' \in BOOLEAN
  BY <1>0 DEF TypeOK, ConnTypeOK
<1>3. /\ QueueInv' /\ Completed' = Completed /\ Popped' \in {Popped, Popped + 1}
      /\ r = Popped' /\ Written = Popped' - 1
      /\ Written' = IF copyDone' THEN Popped' ELSE Popped' - 1
      /\ responses # <<>> => responses' # <<>>
  BY <1>1, <1>2, TakeCopyNext
<1>4. /\ Popped \in Int /\ Popped' \in Int /\ Taken' = Taken /\ Written' \in Int /\ Written <= Written'
      /\ Popped <= Popped'
  <2>1. Popped \in Int /\ Taken' = Taken
    BY <1>1, Counts DEF Taken
  <2>2. Popped' \in Int /\ Popped <= Popped'
    BY <1>3, <2>1
  <2> QED BY <1>3, <2>1, <2>2
<1>5. ServerInv'
  <2>1. srv.mode # "idle" => srv.req \in Int
    BY DEF TypeOK, ServerTypeOK, ServerState, Request
  <2>2. Completed' <= served' /\ Taken' <= Written'
    BY <1>1, <1>3, <1>4, Counts DEF ServerInv
  <2>3. srv.mode # "idle" => srv.req <= Popped'
    BY <1>4, <2>1 DEF ServerInv
  <2> QED BY <1>1, <2>2, <2>3 DEF ServerInv
<1>6. HeldInv' /\ StreamInv' /\ EndInv' /\ RoutedToOwner'
  BY <1>1, <1>3, WriteKeeps
<1>7. CASE WriteCopyPending(r)
  <2>1. UNCHANGED <<outbound, copyChan, copyDone>>
    BY <1>7 DEF WriteCopyPending
  <2>2. Written' = Written
    BY <1>1, <1>3, <2>1
  <2>3. OutboundInv'
    BY <1>1, <1>3, <2>1, <2>2, KeptOutbound
  <2>4. CopyInv'
    BY <1>1, <2>1, KeptCopy
  <2> QED BY <1>0, <1>3, <1>5, <1>6, <2>3, <2>4
<1>8. ASSUME NEW m \in OutMsg, m.kind # "terminate", m.req = r, outbound' = Append(outbound, m),
             copyDone' <=> m.kind \in Final,
             m.kind \in First => Unstarted(r),
             ~Unstarted(r)',
             \A q \in Request \ {r} : copyChan'[q] = copyChan[q],
             \A i \in 1 .. Len(copyChan'[r]) : copyChan'[r][i].kind = "start" => i = 1,
             sink[r] \in {"none", "created"} => copyChan'[r] = <<>>
      PROVE  IInv'
  <2>1. /\ Len(outbound') = Len(outbound) + 1 /\ outbound'[Len(outbound) + 1] = m
        /\ \A i \in 1 .. Len(outbound) : outbound'[i] = outbound[i]
    BY <1>8, Appended
  <2>2. OutboundInv'
    <3>1. m.kind \in First => /\ \A i \in 1 .. Len(outbound) : outbound[i].req # m.req
                              /\ srv.req # m.req
      BY <1>8 DEF CopyInv
    <3>2. /\ m.kind \in Final => Written' = Popped'
          /\ m.kind \notin Final => Written' = Written
      BY <1>3, <1>8
    <3> QED BY <1>1, <1>3, <1>8, <2>1, <3>1, <3>2, OutboundAppend
  <2>3. CopyInv'
    BY <1>1, <1>8, <2>1, CopyAppend
  <2> QED BY <1>0, <1>3, <1>5, <1>6, <2>2, <2>3
<1>9. CASE WriteCopy(r)
  <2>0. copyChan \in [Request -> Seq(CopyMsg)]
    BY DEF TypeOK, SinkTypeOK
  <2>1. CASE copyChan[r] # <<>>
    <3> DEFINE h == copyChan[r][1]
               m == Out(h.kind, r, h.n)
    <3>1. h \in CopyMsg /\ copyChan[r] \in Seq(CopyMsg) /\ Len(copyChan[r]) >= 1
      BY <2>0, <2>1
    <3>2. /\ copyChan' = [copyChan EXCEPT ![r] = Tail(@)]
          /\ outbound' = Append(outbound, m) /\ copyDone' = (h.kind = "done")
      BY <1>9, <2>1 DEF WriteCopy
    <3>3. m \in OutMsg /\ m.kind = h.kind /\ m.req = r /\ h.kind \in {"start", "data", "done"}
      BY <3>1, OutType DEF Out, CopyMsg, OutKind
    <3>4. /\ copyChan'[r] = Tail(copyChan[r])
          /\ \A q \in Request \ {r} : copyChan'[q] = copyChan[q]
      BY <2>0, <3>2
    <3>5. \A i \in 1 .. Len(copyChan'[r]) : copyChan'[r][i].kind # "start"
      <4>1. \A i \in 1 .. Len(copyChan'[r]) :
              /\ i + 1 \in 1 .. Len(copyChan[r]) /\ i + 1 # 1
              /\ copyChan'[r][i] = copyChan[r][i + 1]
        BY <3>1, <3>4
      <4> QED BY <4>1 DEF CopyInv
    <3>6. sink[r] \notin {"none", "created"}
      BY <2>1 DEF CopyInv
    <3>7. ~Unstarted(r)'
      <4>1. copyChan'[r] # <<>> => 1 \in 1 .. Len(copyChan'[r])
        BY <3>1, <3>4
      <4> QED BY <1>1, <3>5, <3>6, <4>1 DEF Unstarted
    <3>8. m.kind \in First => Unstarted(r)
      BY <2>1, <3>3 DEF First, Unstarted
    <3>9. m.kind # "terminate" /\ (copyDone' <=> m.kind \in Final)
      BY <3>2, <3>3 DEF Final
    <3> QED BY <1>8, <3>2, <3>3, <3>4, <3>5, <3>6, <3>7, <3>8, <3>9
  <2>2. CASE copyChan[r] = <<>>
    <3> DEFINE m == Out(AbandonedCopy, r, 0)
    <3>1. /\ SenderGone(r) /\ outbound' = Append(outbound, m) /\ copyDone' = TRUE
          /\ copyChan' = copyChan
      BY <1>9, <2>2 DEF WriteCopy
    <3>2. m \in OutMsg /\ m.kind = "fail" /\ m.req = r
      BY OutType DEF Out, AbandonedCopy, OutKind
    <3>3. ~Unstarted(r)'
      BY <1>1, <2>2, <3>1 DEF Unstarted, SenderGone
    <3>4. \A i \in 1 .. Len(copyChan'[r]) : copyChan'[r][i].kind = "start" => i = 1
      BY <2>2, <3>1
    <3> QED BY <1>8, <2>2, <3>1, <3>2, <3>3, <3>4 DEF Final, First
  <2> QED BY <2>1, <2>2
<1> QED BY <1>7, <1>9

\* The last message of a copy is out, or Terminate is.
LEMMA WriteEndRoute ==
  ASSUME IInv, PollWrite, WriteCopyEnd \/ WriteTerminate PROVE IInv'
<1> USE DEF IInv
<1>0. TypeOK'
  BY PollWriteType
<1>1. /\ UNCHANGED <<clientOpen, requests, receiver, responses, result>>
      /\ UNCHANGED <<sink, copyChan, srv, served, serverClosed, fromServer, pendingResponses, inbox>>
  BY DEF WriteCopyEnd, WriteTerminate, writeFrame, clientVars, serverVars
<1>2. Popped' = Popped /\ Completed' = Completed /\ Taken' = Taken
  BY <1>1 DEF Popped, Completed, Taken
<1>3. Written' = Written
  BY <1>2 DEF WriteCopyEnd, WriteTerminate, Written
<1>4. ServerInv'
  BY <1>1, <1>2, <1>3 DEF ServerInv
<1>5. state' \in {state, "Closing"}
  BY DEF WriteCopyEnd, WriteTerminate
<1>6. HeldInv' /\ StreamInv' /\ EndInv' /\ RoutedToOwner'
  BY <1>1, <1>2, <1>5, WriteKeeps
<1>7. CASE WriteCopyEnd
  <2>1. /\ state # "Closing" /\ state' = state /\ outbound' = outbound
        /\ pendingRequest' = 0 /\ copyDone' = FALSE
    BY <1>7 DEF WriteCopyEnd, StreamReady
  <2>2. QueueInv'
    BY <1>1, <1>2, <2>1 DEF QueueInv
  <2>3. OutboundInv'
    BY <1>1, <1>2, <1>3, <2>1, KeptOutbound
  <2>4. CopyInv'
    BY <1>1, <2>1, KeptCopy
  <2> QED BY <1>0, <1>4, <1>6, <2>2, <2>3, <2>4
<1>8. CASE WriteTerminate
  <2> DEFINE m == Out("terminate", 0, 0)
  <2>1. /\ state = "Active" /\ state' = "Closing" /\ outbound' = Append(outbound, m)
        /\ pendingRequest = 0 /\ pendingRequest' = 0 /\ copyDone' = copyDone
        /\ ~clientOpen /\ receiver = <<>> /\ responses = <<>>
    BY <1>8 DEF WriteTerminate, AtEof, NothingOutstanding
  <2>2. m \in OutMsg /\ m.kind = "terminate" /\ m.req = 0
    BY DEF Out, OutMsg
  <2>3. /\ Len(outbound') = Len(outbound) + 1 /\ outbound'[Len(outbound) + 1] = m
        /\ \A i \in 1 .. Len(outbound) : outbound'[i] = outbound[i]
    BY <2>1, <2>2, Appended
  <2>4. Len(outbound) \in Nat
    BY DEF TypeOK, WireTypeOK
  <2>5. \A i \in 1 .. Len(outbound') : i \in 1 .. Len(outbound) \/ i = Len(outbound) + 1
    BY <2>3, <2>4
  <2>6. \A i \in 1 .. Len(outbound) : outbound[i].kind # "terminate" /\ i \in 1 .. Len(outbound')
    BY <2>1, <2>3, <2>4 DEF OutboundInv
  <2>7. QueueInv'
    BY <1>1, <1>2, <2>1 DEF QueueInv
  <2>8. OutboundInv'
    <3>1. ASSUME NEW i \in 1 .. Len(outbound')
          PROVE  IF outbound'[i].kind = "terminate"
                   THEN i = Len(outbound') /\ state' = "Closing"
                   ELSE /\ Taken' < outbound'[i].req /\ outbound'[i].req <= Popped'
                        /\ outbound'[i].kind \in Final => outbound'[i].req <= Written'
                        /\ outbound'[i].kind \in First /\ srv'.mode \in CopyModes =>
                             outbound'[i].req > srv'.req
      <4>1. CASE i \in 1 .. Len(outbound)
        BY <1>1, <1>2, <1>3, <2>3, <2>6, <4>1 DEF OutboundInv
      <4>2. CASE i = Len(outbound) + 1
        BY <2>1, <2>2, <2>3, <4>2
      <4> QED BY <2>5, <4>1, <4>2
    <3>2. ASSUME NEW i \in 1 .. Len(outbound'), NEW j \in 1 .. Len(outbound'), i < j,
                 outbound'[j].kind # "terminate"
          PROVE  /\ outbound'[i].req <= outbound'[j].req
                 /\ outbound'[i].kind \in Final \/ outbound'[j].kind \in First =>
                      outbound'[i].req < outbound'[j].req
      <4>1. j # Len(outbound) + 1
        BY <2>2, <2>3, <3>2
      <4>2. i \in 1 .. Len(outbound) /\ j \in 1 .. Len(outbound)
        BY <2>3, <2>4, <2>5, <3>2, <4>1
      <4> QED BY <2>3, <3>2, <4>2 DEF OutboundInv
    <3>3. ASSUME NEW n \in Taken' + 1 .. Written'
          PROVE  \E i \in 1 .. Len(outbound') : outbound'[i].kind \in Final /\ outbound'[i].req = n
      <4>1. PICK i \in 1 .. Len(outbound) : outbound[i].kind \in Final /\ outbound[i].req = n
        BY <1>2, <1>3, <3>3 DEF OutboundInv
      <4> QED BY <2>3, <2>6, <4>1
    <3> QED BY <3>1, <3>2, <3>3 DEF OutboundInv
  <2>9. CopyInv'
    <3>1. ASSUME NEW r \in Request PROVE Unstarted(r)' = Unstarted(r)
      BY <1>1 DEF Unstarted
    <3>2. ASSUME NEW r \in Request, Unstarted(r), NEW i \in 1 .. Len(outbound')
          PROVE  outbound'[i].req # r
      <4>1. CASE i \in 1 .. Len(outbound)
        BY <2>3, <3>2, <4>1 DEF CopyInv
      <4>2. CASE i = Len(outbound) + 1
        BY <2>2, <2>3, <4>2 DEF Request
      <4> QED BY <2>5, <4>1, <4>2
    <3> QED BY <1>1, <3>1, <3>2 DEF CopyInv
  <2> QED BY <1>0, <1>4, <1>6, <2>7, <2>8, <2>9
<1> QED BY <1>7, <1>8

\* poll_write keeps the invariant.
LEMMA WriteRoute == ASSUME IInv, PollWrite PROVE IInv'
BY QuietRoute, SingleRoute, CopyRoute, WriteEndRoute DEF PollWrite

-----------------------------------------------------------------------------
\* The server reads: the next message is of the request it is to work on.
LEMMA HeadReq ==
  ASSUME TypeOK, OutboundInv, outbound # <<>>, outbound[1].kind # "terminate"
  PROVE  outbound[1].req = Taken + 1 /\ outbound[1].req \in Request
<1>1. /\ outbound \in Seq(OutMsg) /\ Len(outbound) \in Nat /\ 1 \in 1 .. Len(outbound)
      /\ outbound[1] \in OutMsg
  BY DEF TypeOK, WireTypeOK
<1>2. outbound[1].req \in Int /\ outbound[1].req \in Request
  BY <1>1 DEF OutMsg, Request
<1>3. Taken < outbound[1].req /\ outbound[1].req <= Popped
  BY <1>1 DEF OutboundInv
<1>4. Taken \in Int /\ Popped \in Int /\ Written \in Int /\ Popped - 1 <= Written
  BY Counts
<1>5. SUFFICES ASSUME outbound[1].req > Taken + 1 PROVE FALSE
  BY <1>2, <1>3, <1>4
<1>6. Taken + 1 \in Taken + 1 .. Written
  BY <1>2, <1>3, <1>4, <1>5
<1>7. PICK i \in 1 .. Len(outbound) : outbound[i].kind \in Final /\ outbound[i].req = Taken + 1
  BY <1>6 DEF OutboundInv
<1>8. i # 1 /\ outbound[i].kind # "terminate"
  BY <1>2, <1>4, <1>5, <1>7 DEF Final
<1>9. 1 < i
  BY <1>1, <1>7, <1>8
<1>10. outbound[1].req <= outbound[i].req
  BY <1>1, <1>7, <1>8, <1>9 DEF OutboundInv
<1> QED BY <1>2, <1>4, <1>5, <1>7, <1>10

\* What is left to read behind the first message.
LEMMA OutboundShift ==
  ASSUME TypeOK, OutboundInv, outbound # <<>>, outbound[1].kind # "terminate",
         outbound' = Tail(outbound), UNCHANGED <<state, served>>,
         Popped' = Popped, Written' = Written,
         \/ outbound[1].kind \in Final /\ Taken' = Taken + 1 /\ srv'.mode \notin CopyModes
         \/ /\ outbound[1].kind \notin Final /\ Taken' = Taken
            /\ srv'.mode \in CopyModes =>
                 \/ srv.mode \in CopyModes /\ srv'.req = srv.req
                 \/ srv'.req = outbound[1].req
  PROVE  OutboundInv'
<1>1. outbound \in Seq(OutMsg) /\ Len(outbound) \in Nat /\ 1 \in 1 .. Len(outbound)
  BY DEF TypeOK, WireTypeOK
<1>2. /\ Len(outbound') = Len(outbound) - 1
      /\ \A i \in 1 .. Len(outbound') :
           i + 1 \in 2 .. Len(outbound) /\ outbound'[i] = outbound[i + 1]
  BY <1>1
<1>3. outbound[1].req = Taken + 1 /\ Taken \in Int /\ Written \in Int
  BY Counts, HeadReq
<1>4. ASSUME NEW j \in 2 .. Len(outbound), outbound[j].kind # "terminate"
      PROVE  /\ j \in 1 .. Len(outbound) /\ outbound[j].req \in Int
             /\ outbound[1].kind \in Final \/ outbound[j].kind \in First =>
                  outbound[1].req < outbound[j].req
             /\ Taken < outbound[j].req
             /\ outbound[j].kind \in First /\ srv.mode \in CopyModes => outbound[j].req > srv.req
  <2>1. j \in 1 .. Len(outbound) /\ 1 < j
    BY <1>1
  <2>2. outbound[j].req \in Int
    BY <1>1, <1>4, <2>1 DEF OutMsg, Request
  <2> QED BY <1>1, <1>4, <2>1, <2>2 DEF OutboundInv
<1>5. ASSUME NEW j \in 2 .. Len(outbound), outbound[j].kind # "terminate"
      PROVE  /\ Taken' < outbound[j].req
             /\ outbound[j].kind \in First /\ srv'.mode \in CopyModes => outbound[j].req > srv'.req
  <2>1. Taken' < outbound[j].req
    BY <1>3, <1>4, <1>5
  <2>2. ASSUME outbound[j].kind \in First, srv'.mode \in CopyModes
        PROVE  outbound[j].req > srv'.req
    <3>1. outbound[j].req \in Int /\ outbound[1].req \in Int /\ outbound[1].req < outbound[j].req
      BY <1>3, <1>4, <1>5, <2>2
    <3>2. CASE srv'.req = outbound[1].req
      BY <3>1, <3>2
    <3>3. CASE srv.mode \in CopyModes /\ srv'.req = srv.req
      BY <1>4, <1>5, <2>2, <3>3
    <3> QED BY <2>2, <3>2, <3>3
  <2> QED BY <2>1, <2>2
<1>6. ASSUME NEW i \in 1 .. Len(outbound')
      PROVE  IF outbound'[i].kind = "terminate"
               THEN i = Len(outbound') /\ state' = "Closing"
               ELSE /\ Taken' < outbound'[i].req /\ outbound'[i].req <= Popped'
                    /\ outbound'[i].kind \in Final => outbound'[i].req <= Written'
                    /\ outbound'[i].kind \in First /\ srv'.mode \in CopyModes =>
                         outbound'[i].req > srv'.req
  <2>1. i + 1 \in 2 .. Len(outbound) /\ i + 1 \in 1 .. Len(outbound) /\ outbound'[i] = outbound[i + 1]
    BY <1>1, <1>2
  <2>2. CASE outbound'[i].kind = "terminate"
    <3>1. i + 1 = Len(outbound) /\ state = "Closing"
      BY <2>1, <2>2 DEF OutboundInv
    <3>2. i = Len(outbound')
      <4>1. i \in Int /\ Len(outbound) \in Int /\ Len(outbound') = Len(outbound) - 1
        BY <1>1, <1>2
      <4> QED BY <3>1, <4>1
    <3> QED BY <2>2, <3>1, <3>2
  <2>3. CASE outbound'[i].kind # "terminate"
    <3>1. /\ outbound[i + 1].req <= Popped
          /\ outbound[i + 1].kind \in Final => outbound[i + 1].req <= Written
      BY <2>1, <2>3 DEF OutboundInv
    <3> QED BY <1>5, <2>1, <2>3, <3>1
  <2> QED BY <2>2, <2>3
<1>7. ASSUME NEW i \in 1 .. Len(outbound'), NEW j \in 1 .. Len(outbound'), i < j,
             outbound'[j].kind # "terminate"
      PROVE  /\ outbound'[i].req <= outbound'[j].req
             /\ outbound'[i].kind \in Final \/ outbound'[j].kind \in First =>
                  outbound'[i].req < outbound'[j].req
  <2>1. /\ i + 1 \in 1 .. Len(outbound) /\ j + 1 \in 1 .. Len(outbound) /\ i + 1 < j + 1
        /\ outbound'[i] = outbound[i + 1] /\ outbound'[j] = outbound[j + 1]
    <3>1. i + 1 < j + 1 /\ \A x \in 2 .. Len(outbound) : x \in 1 .. Len(outbound)
      BY <1>1, <1>7
    <3> QED BY <1>2, <3>1
  <2> QED BY <1>7, <2>1 DEF OutboundInv
<1>8. ASSUME NEW n \in Taken' + 1 .. Written'
      PROVE  \E i \in 1 .. Len(outbound') : outbound'[i].kind \in Final /\ outbound'[i].req = n
  <2>1. n \in Taken + 1 .. Written /\ (outbound[1].kind \in Final => n # outbound[1].req)
    BY <1>3
  <2>2. PICK i \in 1 .. Len(outbound) : outbound[i].kind \in Final /\ outbound[i].req = n
    BY <2>1 DEF OutboundInv
  <2>3. i # 1
    BY <2>1, <2>2
  <2>4. i - 1 \in 1 .. Len(outbound') /\ (i - 1) + 1 = i
    BY <1>1, <1>2, <2>2, <2>3
  <2>5. outbound'[i - 1] = outbound[i]
    BY <1>2, <2>4
  <2> QED BY <2>2, <2>4, <2>5
<1> QED BY <1>6, <1>7, <1>8 DEF OutboundInv

\* The server reads the next frontend message.
LEMMA ServerReadRoute == ASSUME IInv, ServerRead PROVE IInv'
<1> USE DEF IInv
<1>0. TypeOK'
  BY ServerReadType
<1>1. /\ outbound # <<>> /\ outbound' = Tail(outbound)
      /\ UNCHANGED queueVars
      /\ UNCHANGED <<sink, copyChan, pendingResponses, inbox, result, fromServer, served>>
      /\ serverClosed => serverClosed'
  BY DEF ServerRead, TypeOK, WireTypeOK, serverFrame, queueVars, clientVars, sinkVars, connVars
<1>2. /\ QueueInv' /\ HeldInv' /\ HeldComplete' = HeldComplete
      /\ Popped' = Popped /\ Completed' = Completed /\ Written' = Written
  BY <1>1, KeptQueue, KeptHeld
<1>3. StreamInv' /\ EndInv' /\ RoutedToOwner'
  <2>1. Seen' = Seen
    BY <1>2 DEF Seen
  <2> QED BY <1>1, <1>2, <2>1 DEF StreamInv, EndInv, RoutedToOwner, queueVars
<1>4. outbound \in Seq(OutMsg) /\ Len(outbound) \in Nat /\ 1 \in 1 .. Len(outbound)
  BY <1>1 DEF TypeOK, WireTypeOK
<1>5. /\ Len(outbound') = Len(outbound) - 1
      /\ \A i \in 1 .. Len(outbound') :
           i + 1 \in 1 .. Len(outbound) /\ outbound'[i] = outbound[i + 1]
  BY <1>1, <1>4
<1>6. state' = state /\ requests' = requests
  BY <1>1 DEF queueVars
<1>7. CASE outbound[1].kind = "terminate"
  <2>1. state = "Closing" /\ Len(outbound) = 1
    BY <1>4, <1>7 DEF OutboundInv
  <2>2. srv.mode = "idle"
    <3>1. responses = <<>>
      BY <2>1 DEF QueueInv
    <3>2. Completed = Popped
      BY <3>1, Counts DEF Completed
    <3>3. srv.mode # "idle" => srv.req \in Int
      BY DEF TypeOK, ServerTypeOK, ServerState, Request
    <3> QED BY <3>2, <3>3, Counts DEF ServerInv
  <2>3. srv' = srv
    BY <1>7, <2>2 DEF ServerRead
  <2>4. Taken' = Taken /\ ServerInv'
    BY <1>1, <2>3, KeptServer
  <2>5. Len(outbound') = 0
    BY <1>5, <2>1
  <2>6. OutboundInv'
    <3>1. ASSUME NEW n \in Taken' + 1 .. Written' PROVE FALSE
      <4>1. PICK i \in 1 .. Len(outbound) : outbound[i].kind \in Final
        BY <1>2, <2>4, <3>1 DEF OutboundInv
      <4>2. i = 1
        BY <2>1, <4>1
      <4> QED BY <1>7, <4>1, <4>2 DEF Final
    <3>2. 1 .. Len(outbound') = {}
      BY <2>5
    <3> QED BY <3>1, <3>2 DEF OutboundInv
  <2>7. CopyInv'
    <3>1. 1 .. Len(outbound') = {}
      BY <2>5
    <3> QED BY <1>1, <1>6, <2>3, <3>1 DEF CopyInv, Unstarted
  <2> QED BY <1>0, <1>2, <1>3, <2>4, <2>6, <2>7
<1>8. CASE outbound[1].kind # "terminate"
  <2>1. outbound[1].req = Taken + 1 /\ outbound[1].req \in Request /\ outbound[1].req \in Int
    BY <1>1, <1>8, HeadReq DEF Request
  <2>2. /\ srv.mode = "idle" => Taken = served
        /\ srv.mode \in {"copy", "skip"} =>
             /\ Taken = served /\ srv.req = outbound[1].req
             /\ outbound[1].kind \notin First
    <3>1. srv.mode \in {"idle", "copy", "skip"} => Taken = served
      BY DEF Taken, AnswerModes
    <3>2. ASSUME srv.mode \in {"copy", "skip"} PROVE srv.req = outbound[1].req
      BY <2>1, <3>1, <3>2 DEF ServerInv
    <3>3. ASSUME srv.mode \in {"copy", "skip"} PROVE outbound[1].kind \notin First
      <4>1. outbound[1].kind \in First => outbound[1].req > srv.req
        BY <1>4, <1>8, <3>3 DEF OutboundInv, CopyModes
      <4> QED BY <2>1, <3>2, <3>3, <4>1
    <3> QED BY <3>1, <3>2, <3>3
  <2>3. /\ srv'.req \in {srv.req, outbound[1].req}
        /\ \/ srv' = srv /\ srv.mode = "idle" /\ outbound[1].kind = "data"
           \/ srv'.mode # "idle" /\ srv'.req = outbound[1].req
        /\ \/ outbound[1].kind \in Final /\ srv'.mode \in AnswerModes
           \/ outbound[1].kind \notin Final /\ srv'.mode \notin AnswerModes
        /\ srv.mode \in {"idle", "copy", "skip"}
    <3>0. srv \in ServerState /\ outbound[1].kind \in OutKind
      BY <1>4 DEF TypeOK, ServerTypeOK, OutMsg, OutKind
    <3>1. ASSUME NEW mode, Serve(mode) PROVE srv'.mode = mode /\ srv'.req = srv.req
      BY <3>0, <3>1 DEF Serve, ServerState
    <3>2. CASE srv.mode = "idle"
      BY <1>8, <3>0, <3>2 DEF ServerRead, Final, AnswerModes, OutKind
    <3>3. CASE srv.mode = "copy"
      BY <1>8, <2>2, <3>0, <3>1, <3>3 DEF ServerRead, Final, AnswerModes, OutKind
    <3>4. CASE srv.mode = "skip"
      BY <1>8, <2>2, <3>0, <3>1, <3>4 DEF ServerRead, Final, First, AnswerModes, OutKind
    <3> QED BY <3>2, <3>3, <3>4 DEF ServerRead
  <2>4. /\ outbound[1].req = served + 1 /\ Taken = served
        /\ outbound[1].req <= Popped
        /\ outbound[1].kind \in Final => outbound[1].req <= Written
    BY <1>4, <1>8, <2>1, <2>2, <2>3 DEF OutboundInv
  <2>5. Taken' = IF outbound[1].kind \in Final THEN Taken + 1 ELSE Taken
    BY <1>1, <2>3, <2>4 DEF Taken
  <2>6. ServerInv'
    <3>1. srv'.mode # "idle" => srv'.req = outbound[1].req
      BY <2>3
    <3>2. Taken' <= Written'
      BY <1>2, <2>1, <2>4, <2>5 DEF ServerInv
    <3> QED BY <1>1, <1>2, <2>4, <3>1, <3>2 DEF ServerInv
  <2>7. OutboundInv'
    <3>1. srv'.mode \in AnswerModes => srv'.mode \notin CopyModes
      BY DEF AnswerModes, CopyModes
    <3>2. srv'.mode \in CopyModes => srv'.req = outbound[1].req
      BY <2>3 DEF CopyModes
    <3> QED BY <1>1, <1>2, <1>6, <1>8, <2>3, <2>5, <3>1, <3>2, OutboundShift
  <2>8. CopyInv'
    <3>1. ASSUME NEW r \in Request PROVE Unstarted(r)' = Unstarted(r)
      BY <1>1 DEF Unstarted
    <3>2. ASSUME NEW r \in Request, Unstarted(r)
          PROVE  srv'.req # r /\ \A i \in 1 .. Len(outbound') : outbound'[i].req # r
      BY <1>4, <1>5, <2>3, <3>2 DEF CopyInv
    <3> QED BY <1>1, <1>6, <3>1, <3>2 DEF CopyInv
  <2> QED BY <1>0, <1>2, <1>3, <2>6, <2>7, <2>8
<1> QED BY <1>7, <1>8

\* What the server sends joins the stream behind all else.
LEMMA StreamAppend ==
  ASSUME TypeOK, StreamInv, NEW m \in Msg, fromServer' = Append(fromServer, m),
         Popped' = Popped, Seen' = Seen, serverClosed => serverClosed',
         m.kind = "fatal" => serverClosed',
         Seen <= served,
         \/ m.kind \notin AnswerKind /\ served' = served
         \/ /\ m.kind \in AnswerKind /\ m.req = served + 1 /\ m.req <= Popped
            /\ served' = IF m.kind = "ready" THEN served + 1 ELSE served
  PROVE  StreamInv'
<1>0. /\ served \in Int /\ served' \in Int /\ served <= served' /\ Seen \in Int
      /\ Len(fromServer) \in Nat /\ fromServer \in Seq(Msg)
  BY Counts DEF Seen, TypeOK, WireTypeOK
<1>1. /\ Len(fromServer') = Len(fromServer) + 1 /\ fromServer'[Len(fromServer) + 1] = m
      /\ \A i \in 1 .. Len(fromServer) : fromServer'[i] = fromServer[i]
  BY <1>0
<1>2. /\ \A i \in 1 .. Len(fromServer') : i \in 1 .. Len(fromServer) \/ i = Len(fromServer) + 1
      /\ \A i \in 1 .. Len(fromServer) : i \in 1 .. Len(fromServer')
      /\ Len(fromServer) + 1 \in 1 .. Len(fromServer')
  BY <1>0, <1>1
<1>3. ASSUME NEW i \in 1 .. Len(fromServer), fromServer[i].kind \in AnswerKind
      PROVE  /\ fromServer[i].req \in Int /\ Seen < fromServer[i].req /\ fromServer[i].req <= Popped
             /\ fromServer[i].req <= served + 1
             /\ fromServer[i].kind = "ready" => fromServer[i].req <= served
  <2>1. fromServer[i].req \in Int
    BY <1>0, <1>3 DEF Msg, Request, AnswerKind, LoneKind, AsyncKind
  <2> QED BY <1>3, <2>1 DEF StreamInv
<1>4. ASSUME NEW i \in 1 .. Len(fromServer')
      PROVE  /\ fromServer'[i].kind = "fatal" => serverClosed'
             /\ fromServer'[i].kind \in AnswerKind =>
                  /\ Seen' < fromServer'[i].req /\ fromServer'[i].req <= Popped'
                  /\ fromServer'[i].req <= served' + 1
                  /\ fromServer'[i].kind = "ready" => fromServer'[i].req <= served'
  <2>1. CASE i \in 1 .. Len(fromServer)
    <3>1. fromServer[i].kind = "fatal" => serverClosed
      BY <2>1 DEF StreamInv
    <3> QED BY <1>0, <1>1, <1>3, <2>1, <3>1
  <2>2. CASE i = Len(fromServer) + 1
    BY <1>0, <1>1, <2>2
  <2> QED BY <1>2, <2>1, <2>2
<1>5. ASSUME NEW i \in 1 .. Len(fromServer'), NEW j \in 1 .. Len(fromServer'), i < j,
             fromServer'[i].kind \in AnswerKind, fromServer'[j].kind \in AnswerKind
      PROVE  /\ fromServer'[i].req <= fromServer'[j].req
             /\ fromServer'[i].kind = "ready" => fromServer'[i].req < fromServer'[j].req
  <2>1. i \in 1 .. Len(fromServer) /\ fromServer'[i] = fromServer[i]
    BY <1>0, <1>1, <1>5
  <2>2. CASE j \in 1 .. Len(fromServer)
    BY <1>1, <1>5, <2>1, <2>2 DEF StreamInv
  <2>3. CASE j = Len(fromServer) + 1
    <3>1. fromServer'[j].req = served + 1
      BY <1>1, <1>5, <2>3
    <3> QED BY <1>0, <1>3, <1>5, <2>1, <3>1
  <2> QED BY <1>2, <2>2, <2>3
<1>6. ASSUME NEW n \in Seen' + 1 .. served'
      PROVE  \E i \in 1 .. Len(fromServer') : fromServer'[i].kind = "ready" /\ fromServer'[i].req = n
  <2>1. CASE n <= served
    <3>1. PICK i \in 1 .. Len(fromServer) : fromServer[i].kind = "ready" /\ fromServer[i].req = n
      BY <1>0, <2>1 DEF StreamInv
    <3> QED BY <1>1, <1>2, <3>1
  <2>2. CASE n > served
    <3>1. m.kind = "ready" /\ m.req = n
      BY <1>0, <2>2
    <3> QED BY <1>1, <1>2, <3>1
  <2> QED BY <1>0, <2>1, <2>2
<1> QED BY <1>4, <1>5, <1>6 DEF StreamInv

\* No more is seen than was served.
LEMMA SeenServed == ASSUME IInv PROVE Seen <= served /\ Seen \in Int
<1>1. CASE HeldComplete
  <2> DEFINE c == pendingResponses[1]
  <2>1. c \in Seq(Msg) /\ Len(c) \in Nat /\ Len(c) >= 1 /\ c[Len(c)].kind = "ready"
    <3>1. pendingResponses # <<>> /\ pendingResponses \in Seq(Chunk)
      BY <1>1 DEF HeldComplete, Holds, IInv, TypeOK, ConnTypeOK
    <3>2. c \in Chunk
      BY <3>1
    <3> QED BY <1>1, <3>2 DEF Chunk, HeldComplete, RequestComplete
  <2>2. OwnChunk(c) /\ Len(c) \in 1 .. Len(c)
    BY <1>1, <2>1 DEF IInv, HeldInv, HeldComplete
  <2>3. Completed < served
    BY <2>1, <2>2 DEF OwnChunk
  <2> QED BY <1>1, <2>3, Counts DEF Seen, IInv
<1>2. CASE ~HeldComplete
  BY <1>2, Counts DEF Seen, IInv, ServerInv
<1> QED BY <1>1, <1>2

\* The server sends a message of an answer.
LEMMA EmitRoute ==
  ASSUME IInv, srv.mode # "idle", NEW k \in AnswerKind, NEW mode \in ServerMode, Emit(k, mode),
         \/ k = "ready" /\ mode = "idle" /\ srv.mode \in AnswerModes
         \/ /\ k # "ready" /\ mode # "idle"
            /\ mode \in AnswerModes <=> srv.mode \in AnswerModes
            /\ mode \in CopyModes => srv.mode \in CopyModes
  PROVE  IInv'
<1> USE DEF IInv
<1> DEFINE m == [kind |-> k, req |-> srv.req, idx |-> emitted[srv.req] + 1]
<1>0. TypeOK'
  BY EmitType
<1>1. /\ UNCHANGED queueVars
      /\ UNCHANGED <<sink, copyChan, pendingResponses, inbox, result, outbound, serverClosed>>
      /\ fromServer' = Append(fromServer, m)
      /\ served' = IF k = "ready" THEN served + 1 ELSE served
      /\ srv'.mode = mode /\ srv'.req = IF mode = "idle" THEN 0 ELSE srv.req
  BY DEF Emit, serverFrame, queueVars, clientVars, sinkVars, connVars
<1>2. /\ srv.req \in Request /\ srv.req \in Int /\ srv.req = served + 1 /\ srv.req <= Popped
      /\ served \in Int /\ served' \in Int /\ served <= served' /\ served' <= served + 1
      /\ Completed \in Int /\ Completed <= served
  <2>1. served \in Int /\ Completed \in Int
    BY Counts
  <2>2. served' \in Int /\ served <= served' /\ served' <= served + 1
    BY <1>1, <2>1
  <2>3. Completed <= served /\ srv.req = served + 1 /\ srv.req <= Popped
    BY Counts DEF ServerInv
  <2>4. srv.req \in Request
    <3>1. srv.req \in 0 .. MaxRequests
      BY DEF TypeOK, ServerTypeOK, ServerState, Request
    <3>2. served >= 0
      BY Counts
    <3> QED BY <2>1, <2>3, <3>1, <3>2 DEF Request
  <2> QED BY <2>1, <2>2, <2>3, <2>4
<1>3. /\ QueueInv' /\ Popped' = Popped /\ Completed' = Completed /\ Written' = Written
      /\ state' = state /\ requests' = requests /\ responses' = responses
  BY <1>1, KeptQueue DEF queueVars
<1>4. Taken' = Taken
  BY <1>1, <1>2 DEF Taken, AnswerModes
<1>5. ServerInv'
  BY <1>1, <1>2, <1>3, <1>4 DEF ServerInv
<1>6. OutboundInv'
  <2>1. srv'.mode \in CopyModes => srv.mode \in CopyModes /\ srv'.req = srv.req
    BY <1>1 DEF CopyModes
  <2> QED BY <1>1, <1>3, <1>4, <2>1 DEF OutboundInv
<1>7. CopyInv'
  <2>1. ASSUME NEW r \in Request PROVE Unstarted(r)' = Unstarted(r)
    BY <1>1 DEF Unstarted
  <2>2. ASSUME NEW r \in Request, Unstarted(r) PROVE srv'.req # r /\ r > served'
    <3>1. r # srv.req /\ r > served /\ r \in Int /\ r # 0
      BY <2>2 DEF CopyInv, Request
    <3> QED BY <1>1, <1>2, <3>1
  <2> QED BY <1>1, <1>3, <2>1, <2>2 DEF CopyInv
<1>8. HeldInv' /\ HeldComplete' = HeldComplete
  <2>1. HeldAlone' /\ (Holds' = Holds) /\ HeldComplete' = HeldComplete
    BY <1>1 DEF HeldInv, HeldAlone, Holds, HeldComplete, IsAsyncChunk, IsAsync, RequestComplete
  <2>2. Completed < served => Completed < served'
    BY <1>2
  <2>3. ASSUME Holds PROVE OwnChunk(pendingResponses[1])'
    BY <1>1, <1>3, <2>2, <2>3 DEF HeldInv, OwnChunk, IsAsync
  <2> QED BY <1>1, <1>3, <2>1, <2>3 DEF HeldInv
<1>9. StreamInv'
  <2>1. Seen' = Seen
    BY <1>3, <1>8 DEF Seen
  <2>2. m \in Msg /\ m.kind = k /\ m.req = srv.req /\ k # "fatal"
    <3>1. emitted[srv.req] + 1 \in Nat \ {0}
      BY <1>2 DEF TypeOK, ServerTypeOK
    <3> QED BY <1>2, <3>1 DEF Msg, AnswerKind
  <2> HIDE DEF m
  <2> QED BY <1>1, <1>2, <1>3, <2>1, <2>2, SeenServed, StreamAppend
<1>10. EndInv' /\ RoutedToOwner'
  BY <1>1, KeptEnd
<1> QED BY <1>0, <1>3, <1>5, <1>6, <1>7, <1>8, <1>9, <1>10

\* An answer goes on; a COPY is not refused before copy mode.
LEMMA AnswerRoute == ASSUME IInv, ServerAnswer PROVE IInv'
<1> USE DEF AnswerKind, ServerMode, AnswerModes, CopyModes
<1>1. CASE srv.mode = "busy" /\ emitted[srv.req] < MaxRows /\ Emit("row", "busy")
  BY <1>1, EmitRoute
<1>2. CASE srv.mode = "busy" /\ Emit("error", "ending")
  BY <1>2, EmitRoute
<1>3. CASE srv.mode = "busy" /\ Emit("ready", "idle")
  BY <1>3, EmitRoute
<1>4. CASE srv.mode = "copystart" /\ Emit("copyin", "copy")
  BY <1>4, EmitRoute
<1>5. CASE srv.mode = "complete" /\ Emit("row", "ending")
  BY <1>5, EmitRoute
<1>6. CASE srv.mode = "failing" /\ Emit("error", "ending")
  BY <1>6, EmitRoute
<1>7. CASE srv.mode = "copyerror" /\ Emit("error", "skip")
  BY <1>7, EmitRoute
<1>8. CASE srv.mode = "ending" /\ Emit("ready", "idle")
  BY <1>8, EmitRoute
<1> QED BY <1>1, <1>2, <1>3, <1>4, <1>5, <1>6, <1>7, <1>8 DEF ServerAnswer

\* What no request asked for leaves the answers where they are.
LEMMA LoneRoute ==
  ASSUME IInv, (\E k \in AsyncKind : ServerAsync(k)) \/ ServerClose PROVE IInv'
<1> USE DEF IInv
<1>0. TypeOK'
  BY ServerRestType
<1>1. /\ UNCHANGED queueVars
      /\ UNCHANGED <<sink, copyChan, pendingResponses, inbox, result, outbound, srv, served>>
      /\ serverClosed => serverClosed'
  BY DEF ServerAsync, ServerClose, serverFrame, queueVars, clientVars, sinkVars, connVars
<1>2. /\ QueueInv' /\ Popped' = Popped /\ Completed' = Completed /\ Written' = Written
      /\ state' = state /\ requests' = requests
  BY <1>1, KeptQueue DEF queueVars
<1>3. ServerInv' /\ OutboundInv' /\ CopyInv'
  BY <1>1, <1>2, KeptServer, KeptOutbound, KeptCopy
<1>4. HeldInv' /\ HeldComplete' = HeldComplete
  BY <1>1, KeptHeld
<1>5. EndInv' /\ RoutedToOwner'
  BY <1>1, <1>2 DEF EndInv, RoutedToOwner
<1>6. Seen' = Seen
  BY <1>2, <1>4 DEF Seen
<1>7. StreamInv'
  <2>1. CASE UNCHANGED fromServer
    BY <1>1, <1>2, <1>6, <2>1 DEF StreamInv
  <2>2. ASSUME NEW k \in LoneKind, fromServer' = Append(fromServer, Lone(k)),
               k = "fatal" => serverClosed'
        PROVE  StreamInv'
    <3>1. PICK m \in Msg : m = Lone(k)
      BY LoneType
    <3>2. m.kind = k /\ k \notin AnswerKind
      BY <3>1 DEF Lone, LoneKind, AsyncKind, AnswerKind
    <3> QED BY <1>1, <1>2, <1>6, <2>2, <3>1, <3>2, SeenServed, StreamAppend
  <2> QED BY <2>1, <2>2 DEF ServerAsync, ServerClose, LoneKind, AsyncKind
<1> QED BY <1>0, <1>2, <1>3, <1>4, <1>5, <1>7

\* The invariant is inductive.
LEMMA NextRoute == ASSUME ~EarlyCopyError PROVE IInv /\ [Next]_vars => IInv'
<1> SUFFICES ASSUME IInv, [Next]_vars PROVE IInv'
  OBVIOUS
<1>1. CASE Application
  BY <1>1, SendRoute, DropClientRoute, TaskRoute, SinkRoute DEF Application
<1>2. CASE Poll
  BY <1>2, QuietRoute, ReadRoute, WriteRoute DEF Poll
<1>3. CASE Server
  BY <1>3, ServerReadRoute, AnswerRoute DEF Server, ServerRefusesCopy
<1>4. CASE (\E k \in AsyncKind : ServerAsync(k)) \/ ServerClose
  BY <1>4, LoneRoute
<1>5. CASE UNCHANGED vars
  <2>1. /\ TypeOK' /\ UNCHANGED queueVars
        /\ UNCHANGED <<sink, copyChan, pendingResponses, inbox, result>>
        /\ UNCHANGED <<outbound, fromServer, srv, served, serverClosed>>
    BY <1>5, NextType DEF IInv, vars, queueVars, clientVars, sinkVars, connVars, wireVars, serverVars
  <2>2. Popped' = Popped /\ Written' = Written /\ state' = state /\ requests' = requests
    BY <2>1, KeptQueue DEF IInv, queueVars
  <2> QED BY <2>1, <2>2, KeptQueue, KeptServer, KeptOutbound, KeptCopy, KeptHeld, KeptStream, KeptEnd
          DEF IInv
<1> QED BY <1>1, <1>2, <1>3, <1>4, <1>5 DEF Next, Terminated

\* A Connection that resolved Ok has paged every request its last message.
LEMMA EndSuffices == IInv => ResolvesOnlyAtEnd
<1> SUFFICES ASSUME IInv PROVE ResolvesOnlyAtEnd
  OBVIOUS
<1>1. result = "error" => serverClosed
  BY DEF IInv, EndInv
<1>2. ASSUME result = "ok"
      PROVE  /\ ~clientOpen
             /\ \A r \in 1 .. Len(requests) :
                  inbox[r] # <<>> /\ inbox[r][Len(inbox[r])].kind \in {"ready", "fatal"}
  <2>1. ~clientOpen /\ receiver = <<>> /\ responses = <<>>
    BY <1>2 DEF IInv, EndInv, QueueInv
  <2>2. Completed = Len(requests)
    <3>1. Len(receiver) = 0 /\ Len(responses) = 0 /\ Len(requests) \in Nat
      BY <2>1, Counts DEF IInv
    <3> QED BY <3>1 DEF Popped, Completed
  <2> QED BY <2>1, <2>2 DEF IInv, EndInv
<1> QED BY <1>1, <1>2 DEF ResolvesOnlyAtEnd

\* Every reachable state satisfies the invariant.
LEMMA Routing == ASSUME ~EarlyCopyError PROVE Spec => []IInv
<1>1. Init => IInv
  BY InitRoute
<1>2. IInv /\ [Next]_vars => IInv'
  BY NextRoute
<1> QED BY <1>1, <1>2, PTL DEF Spec

\* With any number of requests pipelined, dropped, finished or interleaved
\* with asynchronous messages, every message poll_read pages to a request was
\* caused by that request: matching `responses` against the ReadyForQuery
\* messages of the stream is enough.  The server must not refuse a COPY before
\* copy mode; MCConnection_refused shows what happens when it does.
THEOREM AnswersReachTheirRequest == ASSUME ~EarlyCopyError PROVE Spec => []RoutedToOwner
<1>1. IInv => RoutedToOwner
  BY DEF IInv
<1> QED BY <1>1, Routing, PTL

\* The Connection future resolves with Err only if the server went away, and
\* with Ok only when the Client is gone and the last message of every
\* request's answer has been paged to it: Terminate is never written while an
\* answer is outstanding.
THEOREM EndsOnlyWhenDone == ASSUME ~EarlyCopyError PROVE Spec => []ResolvesOnlyAtEnd
BY EndSuffices, Routing, PTL
=============================================================================
