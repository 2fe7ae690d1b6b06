----------------------------- MODULE SyncClient -----------------------------
(***************************************************************************)
(* The blocking client of crate opengauss: one thread that runs the        *)
(* Connection only while one of its calls is blocked.  poll_block_on first *)
(* polls the Connection until it has nothing more to do, keeping           *)
(* the notifications it meets, and then the call's own future.             *)
(*                                                                         *)
(* The Connection is the one of module Connection with two restrictions    *)
(* that hold here: everything runs on one thread, so a poll is one step;   *)
(* and a call, or the iterator it returned, borrows the Client, so at most *)
(* one Responses is alive and every other answer is paged into nothing.    *)
(* Every message is a batch of its own.                                    *)
(***************************************************************************)
EXTENDS Query

CONSTANTS
  MaxRequests, \* bound on the requests of the client
  MaxRows,     \* rows of a result
  MaxAsync     \* bound on notifications, notices and parameter changes

ASSUME SyncAssumption == MaxRequests \in Nat /\ MaxRows \in Nat /\ MaxAsync \in Nat

VARIABLES
  op,      \* the call that is blocked or has just returned: its future, its
           \* request (0 before it is sent), whether its timer has run out
  handle,  \* what the application holds: a transaction, a portal, an iterator
           \* over rows and how many it gave, a TimeoutIter, the Client itself
  live,    \* the request whose Responses is alive, 0 if none
  conn,    \* the Connection: what poll_block_on polls
  inbox,   \* what the server has sent and the Connection has not taken
  server,  \* the session at the other end
  plan,    \* what the server made of the live request
  nextId,  \* the next request
  async,   \* asynchronous messages sent
  told,    \* notifications the server has sent
  taken    \* notifications the application has taken

vars == <<op, handle, live, conn, inbox, server, plan, nextId, async, told, taken>>

-----------------------------------------------------------------------------
NoPlan == [n |-> 0, end |-> "none"]
NoIter == Reader("none")

\* The two slots of mpsc::channel(1).
ChanCap == 2

Blocked(call, r, id) == [call |-> call, r |-> r, id |-> id, timer |-> FALSE]
Idle == Blocked("idle", Reader("none"), 0)

\* The numbering of requests and notifications begins with a client that has
\* met a notification, and may be inside a transaction.
Init ==
  /\ op = Idle
  /\ handle \in [client : {TRUE}, tx : BOOLEAN, portal : {FALSE}, iter : {NoIter},
                 given : {0}, delay : {"none"}]
  /\ live = 0
  /\ conn = [reqs |-> <<>>, responses |-> <<>>, chan |-> <<>>, notifications |-> <<1>>,
             closed |-> FALSE, closing |-> FALSE]
  /\ inbox = <<>>
  /\ server = [queue |-> <<>>, stream |-> <<>>, tx |-> handle.tx, up |-> "up"]
  /\ plan = NoPlan
  /\ nextId = 1 /\ async = 0 /\ told = 1 /\ taken = 0

\* The call has its outcome and control is back in the application.
Returned == op.r.res # Pending

-----------------------------------------------------------------------------
(***************************************************************************)
(* The loop of poll_block_on over Connection::poll_message, one message at *)
(* a time, and then the call's future: see PollRead and PollFuture.        *)
(***************************************************************************)

\* poll_write: every request goes out; a closed channel with nothing
\* outstanding sends Terminate.
Outgoing(c) == c.reqs \o IF c.closed /\ c.responses \o c.reqs = <<>> /\ ~c.closing
                         THEN <<[id |-> 0, call |-> "terminate"]>> ELSE <<>>

poll_write(c) ==
  [c EXCEPT !.reqs = <<>>, !.responses = @ \o [i \in DOMAIN c.reqs |-> c.reqs[i].id],
            !.closing = @ \/ (c.closed /\ c.responses \o c.reqs = <<>>)]

Written(c) == [server EXCEPT !.queue = @ \o (IF server.up = "up" THEN Outgoing(c) ELSE <<>>)]

\* The receiver of the first response is gone.
HungUp == Head(conn.responses) # live

\* The message is part of an answer.
Normal(m) == m.is \notin {"notification", "notice", "parameter"}

\* Mutant: an answer whose receiver has hung up waits as well.
Full_HungUp(m) == Normal(m) /\ conn.responses # <<>> /\ (HungUp \/ Len(conn.chan) >= ChanCap)

\* The first response's channel is full: its message waits, and all behind it.
Full(m) == Normal(m) /\ conn.responses # <<>> /\ ~HungUp /\ Len(conn.chan) >= ChanCap

\* The Connection fails: poll_block_on returns its error, and the call's
\* future, polled or not, is dropped.
Fail(why) ==
  /\ op' = [op EXCEPT !.r = Err(@, why)]
  /\ conn' = [conn EXCEPT !.chan = <<>>, !.closed = TRUE]
  /\ live' = 0
  /\ UNCHANGED <<server, taken>>

\* Mutant: an answer nobody waits for is over with its first message.
route_NotPaged(c, m) ==
  [c EXCEPT !.chan = IF HungUp THEN @ ELSE Append(@, m),
            !.responses = IF m.is = "ReadyForQuery" \/ HungUp THEN Tail(@) ELSE @]

\* Into the channel of the first response, or nowhere if nobody reads it.
route(c, m) ==
  [c EXCEPT !.chan = IF HungUp THEN @ ELSE Append(@, m),
            !.responses = IF m.is = "ReadyForQuery" THEN Tail(@) ELSE @]

\* Mutant: what arrives while the client holds notifications is dropped.
push_back_Drop(ns, n) == IF ns = <<>> THEN <<n>> ELSE ns

\* notifications.push_back
push_back(ns, n) == Append(ns, n)

\* poll_read takes a message.  At a notification or a notice poll_message
\* writes and returns, and poll_block_on polls it again.
PollRead ==
  /\ op # Idle /\ ~Returned /\ ~conn.closing
  /\ inbox # <<>> /\ ~Full(Head(inbox))
  /\ inbox' = Tail(inbox)
  /\ LET m == Head(inbox) IN
     \/ /\ m.is \in {"notification", "notice"}
        /\ LET c == IF m.is = "notice" THEN conn
                    ELSE [conn EXCEPT !.notifications = push_back(@, m.n)]
           IN  conn' = poll_write(c) /\ server' = Written(c)
        /\ UNCHANGED <<op, live, taken>>
     \/ m.is = "parameter" /\ UNCHANGED <<op, live, conn, server, taken>>
     \/ Normal(m) /\ conn.responses # <<>>
        /\ conn' = route(conn, m) /\ UNCHANGED <<op, live, server, taken>>
     \/ Normal(m) /\ conn.responses = <<>>
        /\ Fail(IF m.is = "ErrorResponse" THEN "db" ELSE "unexpected")
  /\ UNCHANGED <<handle, plan, nextId, async, told>>

-----------------------------------------------------------------------------
(***************************************************************************)
(* The calls' futures, polled with the Connection c that has written.      *)
(***************************************************************************)

\* InnerClient::send, refused once the channel is closed.
send(c, call) ==
  IF c.closed THEN c ELSE [c EXCEPT !.reqs = Append(@, [id |-> nextId, call |-> call])]

\* One message read by a future, or left in the channel once it has returned.
read(a, m) == IF a.r.res = Pending THEN [a EXCEPT !.r = poll(a.r, m)]
              ELSE [a EXCEPT !.chan = Append(@, m)]

\* The future of a request reads the slots of its channel.  An empty channel
\* whose sender is gone: Error::closed.
Polled(r, c, id) ==
  LET none == [r |-> r, chan |-> <<>>]
      one  == read(none, c.chan[1])
      a    == CASE Len(c.chan) = 0 -> none
                [] Len(c.chan) = 1 -> one
                [] OTHER -> read(one, c.chan[2])
  IN  IF a.r.res = Pending /\ \A i \in DOMAIN c.responses : c.responses[i] # id
      THEN [a EXCEPT !.r = Err(@, "closed")] ELSE a

\* Calls that make a request when they are first polled.
Requests == Bound \cup {"execute_typed", "query_typed", "simple_query", "is_valid", "batch_execute",
                        "begin", "commit", "rollback", "drop_tx", "query_portal", "check_connection"}

Closed(c) ==
  /\ op' = [op EXCEPT !.r = Err(@, "closed")]
  /\ conn' = c
  /\ UNCHANGED <<live, plan, nextId, taken, handle>>

\* The first poll of the future sends the request and finds no answer yet.
SendRequest(c) ==
  /\ op.call \in Requests /\ op.id = 0
  /\ IF c.closed THEN Closed(c)
     ELSE /\ op' = [op EXCEPT !.id = nextId]
          /\ conn' = send(c, op.call)
          /\ live' = nextId /\ nextId' = nextId + 1 /\ plan' = NoPlan
          /\ UNCHANGED <<taken, handle>>

\* Whoever is not handed out as a stream drops its Responses when it returns.
\* A failed begin sends a ROLLBACK nobody waits for (RollbackIfNotDone).
Return(r, c, chan) ==
  LET keeps == r.call \in Streams /\ r.res.is = "ok"
      drops == r.res # Pending /\ ~keeps
      undo  == r.call = "begin" /\ r.res.is = "err" /\ ~c.closed
      d     == [c EXCEPT !.chan = IF drops THEN <<>> ELSE chan]
  IN  /\ op' = [op EXCEPT !.r = r]
      /\ conn' = IF undo THEN send(d, "rollback") ELSE d
      /\ nextId' = IF undo THEN nextId + 1 ELSE nextId
      /\ live' = IF drops THEN 0 ELSE live
      /\ UNCHANGED <<plan, taken, handle>>

\* A later poll reads its answer.  is_valid gives the answer precedence over
\* its timer, and drops the query when the timer has run out.
ReadAnswer(c) ==
  /\ op.id # 0
  /\ \E p \in {Polled(op.r, c, live)} :
       Return(IF op.timer /\ p.r.res = Pending THEN Err(p.r, "timeout") ELSE p.r, c, p.chan)

\* Iter, BlockingIter and TimeoutIter::next: the notification they pop, or
\* None at once, when the Connection is done, or after the delay.
NotificationIters == {"iter", "blocking_iter", "timeout_iter"}

PopNotification(c) ==
  /\ op.call \in NotificationIters
  /\ IF c.notifications # <<>>
     THEN /\ op' = [op EXCEPT !.r.res = Result("ok", <<Head(c.notifications)>>, 0, "")]
          /\ conn' = [c EXCEPT !.notifications = Tail(@)]
          /\ taken' = taken + 1
          /\ handle' = [handle EXCEPT !.delay = IF op.call = "timeout_iter" THEN "armed" ELSE @]
     ELSE /\ op' = IF \/ op.call = "iter" \/ c.closing
                      \/ op.call = "timeout_iter" /\ handle.delay = "elapsed"
                   THEN [op EXCEPT !.r.res = Result("none", <<>>, 0, "")] ELSE op
          /\ conn' = c
          /\ UNCHANGED <<taken, handle>>
  /\ UNCHANGED <<live, plan, nextId>>

\* close_inner waits until the Connection is done.
AwaitDone(c) ==
  /\ op.call \in {"close", "drop_client"}
  /\ op' = IF c.closing THEN [op EXCEPT !.r = Ok(@)] ELSE op
  /\ conn' = c
  /\ UNCHANGED <<live, plan, nextId, taken, handle>>

\* Nothing more to read: the Connection ends with the stream, or writes and
\* the call's future is polled.
PollFuture ==
  /\ op # Idle /\ ~Returned
  /\ \/ conn.closing
     \/ inbox = <<>>
     \/ inbox # <<>> /\ Full(Head(inbox))
  /\ IF server.up = "eof" /\ inbox = <<>> /\ ~conn.closing
     THEN Fail("closed") /\ UNCHANGED <<plan, nextId, handle>>
     ELSE /\ server' = Written(conn)
          /\ \E c \in {poll_write(conn)} :
               SendRequest(c) \/ ReadAnswer(c) \/ PopNotification(c) \/ AwaitDone(c)
  /\ UNCHANGED <<inbox, async, told>>

-----------------------------------------------------------------------------
(***************************************************************************)
(* The application.  Transaction, RowIter and CopyOutReader borrow the     *)
(* Client: nothing else can be called while an iterator is held.           *)
(***************************************************************************)
CanCall(free) ==
  /\ op = Idle /\ handle.client /\ handle.delay = "none"
  /\ handle.iter = NoIter
  /\ nextId + free <= MaxRequests + 1

Start(call) == op' = Blocked(call, Reader(call), 0)

\* Client and Transaction have these.
Call ==
  /\ CanCall(1)
  /\ \E call \in {"execute", "query", "query_opt", "query_one", "query_raw", "copy_out",
                  "execute_typed", "query_typed", "simple_query", "batch_execute"} : Start(call)
  /\ UNCHANGED <<handle, live, conn, inbox, server, plan, nextId, async, told, taken>>

\* The Client alone; begin keeps room for the ROLLBACK of its cleaner.
CallClient ==
  /\ ~handle.tx
  /\ \/ CanCall(1) /\ \E call \in {"is_valid", "check_connection"} : Start(call)
     \/ CanCall(2) /\ ~handle.portal /\ Start("begin")
  /\ UNCHANGED <<handle, live, conn, inbox, server, plan, nextId, async, told, taken>>

\* The Transaction alone.
CallTransaction ==
  /\ handle.tx
  /\ \/ CanCall(1) /\ ~handle.portal /\ Start("bind")
     \/ CanCall(1) /\ handle.portal /\ Start("query_portal")
  /\ UNCHANGED <<handle, live, conn, inbox, server, plan, nextId, async, told, taken>>

\* Mutant: dropping a Transaction sends the ROLLBACK and does not wait.
EndTransaction_Send ==
  /\ handle.tx /\ CanCall(1)
  /\ \/ \E call \in {"commit", "rollback"} : Start(call) /\ UNCHANGED <<conn, nextId>>
     \/ conn' = send(conn, "rollback") /\ nextId' = nextId + 1 /\ UNCHANGED op
  /\ handle' = [handle EXCEPT !.tx = FALSE]
  /\ UNCHANGED <<live, inbox, server, plan, async, told, taken>>

\* commit and rollback consume the Transaction; dropping it blocks on a
\* rollback whose outcome nobody sees.
EndTransaction ==
  /\ handle.tx /\ CanCall(1)
  /\ \E call \in {"commit", "rollback", "drop_tx"} : Start(call)
  /\ handle' = [handle EXCEPT !.tx = FALSE]
  /\ UNCHANGED <<live, conn, inbox, server, plan, nextId, async, told, taken>>

\* Dropping a Portal sends Close and Sync, which nobody waits for.
DropPortal ==
  /\ handle.portal /\ CanCall(1)
  /\ handle' = [handle EXCEPT !.portal = FALSE]
  /\ conn' = send(conn, "close_portal")
  /\ nextId' = IF conn.closed THEN nextId ELSE nextId + 1
  /\ UNCHANGED <<op, live, inbox, server, plan, async, told, taken>>

\* RowIter::next and CopyOutReader::fill_buf, until the end or an error.
NextItem ==
  /\ op = Idle /\ handle.iter # NoIter
  /\ op' = Blocked("next", handle.iter, live)
  /\ UNCHANGED <<handle, live, conn, inbox, server, plan, nextId, async, told, taken>>

\* The application drops an iterator before its end.
DropIter ==
  /\ op = Idle /\ handle.iter # NoIter
  /\ handle' = [handle EXCEPT !.iter = NoIter, !.given = 0]
  /\ live' = 0 /\ plan' = NoPlan /\ conn' = [conn EXCEPT !.chan = <<>>]
  /\ UNCHANGED <<op, inbox, server, nextId, async, told, taken>>

\* The three iterators: what is queued already is returned without a poll.
NextNotification ==
  /\ op = Idle /\ handle.client /\ ~handle.tx /\ handle.iter = NoIter
  /\ \E call \in NotificationIters :
       /\ call = "timeout_iter" <=> handle.delay # "none"
       /\ LET r == Result("ok", <<Head(conn.notifications)>>, 0, "") IN
          IF conn.notifications # <<>>
          THEN /\ op' = Blocked(call, [Reader(call) EXCEPT !.res = r], 0)
               /\ conn' = [conn EXCEPT !.notifications = Tail(@)]
               /\ taken' = taken + 1
               /\ handle' = [handle EXCEPT !.delay = IF call = "timeout_iter" THEN "armed" ELSE @]
          ELSE /\ Start(call) /\ UNCHANGED <<conn, taken, handle>>
  /\ UNCHANGED <<live, inbox, server, plan, nextId, async, told>>

\* Notifications::timeout_iter starts the delay; the TimeoutIter is dropped.
TimeoutIter ==
  /\ op = Idle /\ handle.client /\ ~handle.tx /\ handle.iter = NoIter
  /\ handle' = [handle EXCEPT !.delay = IF @ = "none" THEN "armed" ELSE "none"]
  /\ UNCHANGED <<op, live, conn, inbox, server, plan, nextId, async, told, taken>>

\* close_inner: by close, or because the Client is dropped.
Close ==
  /\ CanCall(0) /\ ~handle.tx /\ ~handle.portal
  /\ \E call \in {"close", "drop_client"} : Start(call)
  /\ conn' = [conn EXCEPT !.closed = TRUE]
  /\ UNCHANGED <<handle, live, inbox, server, plan, nextId, async, told, taken>>

\* The application takes the outcome.  close consumes the Client, whose Drop
\* runs close_inner once more.
TakeResult ==
  /\ Returned
  /\ op' = IF op.call = "close" THEN Blocked("drop_client", Reader("drop_client"), 0) ELSE Idle
  /\ LET r == op.r
         ok == r.res.is = "ok"
     IN  handle' = [handle EXCEPT
           !.tx     = @ \/ (op.call = "begin" /\ ok),
           !.portal = @ \/ (op.call = "bind" /\ ok),
           !.iter   = IF r.call \in Streams /\ ok THEN [r EXCEPT !.res = Pending] ELSE NoIter,
           !.given  = IF op.call = "next" /\ ok THEN @ + 1 ELSE 0,
           !.client = @ /\ op.call # "drop_client"]
  /\ plan' = IF live = 0 THEN NoPlan ELSE plan
  /\ UNCHANGED <<live, conn, inbox, server, nextId, async, told, taken>>

\* Time passes: the timeout of is_valid, the delay of a TimeoutIter.
Elapse ==
  /\ \/ /\ op.call = "is_valid" /\ op.id # 0 /\ ~Returned /\ ~op.timer
        /\ op' = [op EXCEPT !.timer = TRUE] /\ UNCHANGED handle
     \/ /\ handle.delay = "armed"
        /\ handle' = [handle EXCEPT !.delay = "elapsed"] /\ UNCHANGED op
  /\ UNCHANGED <<live, conn, inbox, server, plan, nextId, async, told, taken>>

-----------------------------------------------------------------------------
(***************************************************************************)
(* The server (external): answers the requests in order, and may say       *)
(* something by itself or go away at any time.                             *)
(***************************************************************************)
Control == {"begin", "commit", "rollback", "drop_tx", "close_portal"}

\* Results have one row, but for the calls that tell the numbers apart.
RowCounts(call) == IF call \in {"query_opt", "query_one", "query_raw"} THEN 0..MaxRows ELSE {1}

\* What the server can make of a request: refuse it, return n rows, fail
\* after n rows, or suspend a portal.
Plans(call) ==
  CASE call \in {"begin", "commit"} -> {[n |-> 0, end |-> e] : e \in {"ok", "reject"}}
    [] call \in {"rollback", "drop_tx", "close_portal", "is_valid", "check_connection"} ->
         {[n |-> 0, end |-> "ok"]}
    [] call = "bind" -> {[n |-> 0, end |-> e] : e \in {"ok", "reject"}}
    [] OTHER -> [n : RowCounts(call), end : {"ok", "fail"} \cup (IF call = "query_portal" THEN {"more"} ELSE {})]
                \cup {[n |-> 0, end |-> "reject"]}

Items(is, id, n) == [i \in 1..n |-> Msg(is, id, i)]

\* The messages before the rows, by kind of request.
Preamble(call) ==
  CASE call \in Bound \ {"copy_out"} -> <<"BindComplete">>
    [] call = "copy_out" -> <<"BindComplete", "CopyOutResponse">>
    [] call \in {"query_typed", "execute_typed"} ->
         <<"ParseComplete", "BindComplete", "ParameterDescription", "RowDescription">>
    [] call \in {"simple_query", "batch_execute"} -> <<"RowDescription">>
    [] call = "is_valid" -> <<"EmptyQueryResponse">>
    [] call = "close_portal" -> <<"CloseComplete">>
    [] OTHER -> <<>>

\* The messages after the rows of a request that succeeds.
Epilogue(call, id, pl) ==
  CASE pl.end = "more" -> <<Msg("PortalSuspended", id, 0)>>
    [] call = "copy_out" -> <<Msg("CopyDone", id, 0), Msg("CommandComplete", id, pl.n)>>
    [] call \in {"bind", "is_valid", "check_connection", "close_portal"} -> <<>>
    [] OTHER -> <<Msg("CommandComplete", id, pl.n)>>

Answer(call, id, pl) ==
  LET pre  == [i \in DOMAIN Preamble(call) |-> Msg(Preamble(call)[i], id, 0)]
      body == Items(IF call = "copy_out" THEN "CopyData" ELSE "DataRow", id, pl.n)
      err  == <<Msg("ErrorResponse", id, 0)>>
  IN  (CASE pl.end = "reject" -> err
         [] pl.end = "fail" -> pre \o body \o err
         [] OTHER -> pre \o body \o Epilogue(call, id, pl))
      \o <<Msg("ReadyForQuery", id, 0)>>

\* The session executes its next request.
Execute ==
  /\ server.up = "up" /\ server.stream = <<>> /\ server.queue # <<>>
  /\ LET q == Head(server.queue) IN
     IF q.call = "terminate"
     THEN server' = [server EXCEPT !.queue = <<>>, !.tx = FALSE, !.up = "eof"] /\ UNCHANGED plan
     ELSE \E pl \in Plans(q.call) :
            /\ server' = [server EXCEPT
                 !.queue = Tail(@), !.stream = Answer(q.call, q.id, pl),
                 !.tx = CASE q.call = "begin" -> @ \/ pl.end = "ok"
                          [] q.call \in {"commit", "rollback", "drop_tx"} -> FALSE
                          [] OTHER -> @]
            /\ plan' = IF q.id = live THEN pl ELSE plan
  /\ UNCHANGED <<op, handle, live, conn, inbox, nextId, async, told, taken>>

\* The next message of an answer arrives.
Deliver ==
  /\ server.up = "up" /\ server.stream # <<>>
  /\ inbox' = Append(inbox, Head(server.stream))
  /\ server' = [server EXCEPT !.stream = Tail(@)]
  /\ UNCHANGED <<op, handle, live, conn, plan, nextId, async, told, taken>>

Notify ==
  /\ server.up = "up" /\ async < MaxAsync
  /\ \E is \in {"notification", "notice", "parameter"} :
       /\ told' = IF is = "notification" THEN told + 1 ELSE told
       /\ inbox' = Append(inbox, Msg(is, 0, told'))
  /\ async' = async + 1
  /\ UNCHANGED <<op, handle, live, conn, server, plan, nextId, taken>>

\* The session ends, with a FATAL error before the end of the stream or
\* without.
Disconnect ==
  /\ server.up = "up"
  /\ \/ /\ inbox' = Append(inbox, Msg("ErrorResponse", 0, 0))
        /\ server' = [server EXCEPT !.queue = <<>>, !.stream = <<>>, !.tx = FALSE, !.up = "fatal"]
     \/ /\ server' = [server EXCEPT !.queue = <<>>, !.stream = <<>>, !.tx = FALSE, !.up = "eof"]
        /\ UNCHANGED inbox
  /\ UNCHANGED <<op, handle, live, conn, plan, nextId, async, told, taken>>

Hangup ==
  /\ server.up = "fatal"
  /\ server' = [server EXCEPT !.up = "eof"]
  /\ UNCHANGED <<op, handle, live, conn, inbox, plan, nextId, async, told, taken>>

-----------------------------------------------------------------------------
Application == \/ Call \/ CallClient \/ CallTransaction \/ EndTransaction \/ DropPortal
               \/ NextItem \/ DropIter \/ NextNotification \/ TimeoutIter \/ Close \/ TakeResult

Next == Application \/ PollRead \/ PollFuture \/ Elapse \/ Execute \/ Deliver \/ Notify \/ Disconnect \/ Hangup

\* The runtime polls a future that was woken; the server answers; time passes.
Spec == Init /\ [][Next]_vars
        /\ WF_vars(PollRead \/ PollFuture) /\ WF_vars(Execute) /\ WF_vars(Deliver) /\ WF_vars(Elapse)
        /\ WF_vars(Hangup)

-----------------------------------------------------------------------------
(***************************************************************************)
(* Properties.                                                             *)
(***************************************************************************)

\* What the call's documentation promises of a request with this plan.
Promised(call, id, pl) ==
  LET row   == Items("DataRow", id, pl.n)
      fine  == pl.end \in {"ok", "more"}
      err(why) == Result("err", <<>>, 0, why)
      total == IF pl.end = "more" THEN 0 ELSE pl.n
  IN  IF pl.end = "reject" THEN err("db")
      ELSE IF call \in {"bind", "check_connection"} \cup Streams THEN Result("ok", <<>>, 0, "")
      ELSE IF call \in {"query_opt", "query_one"} /\ pl.n > 1 THEN err("row_count")
      ELSE IF ~fine THEN err("db")
      ELSE IF call = "query_one" /\ pl.n = 0 THEN err("row_count")
      ELSE CASE call \in {"execute", "execute_typed"} -> Result("ok", <<>>, pl.n, "")
             [] call = "is_valid" -> Result("ok", <<Msg("EmptyQueryResponse", id, 0)>>, 0, "")
             [] call = "simple_query" ->
                  Result("ok", <<Msg("RowDescription", id, 0)>> \o row \o <<Msg("CommandComplete", id, pl.n)>>, 0, "")
             [] call \in Control \cup {"batch_execute"} -> Result("ok", <<>>, 0, "")
             [] OTHER -> Result("ok", row, total, "")

\* The item after the first k of a stream.
PromisedItem(call, id, pl, k) ==
  IF k < pl.n THEN Result("ok", <<Msg(IF call = "copy_out" THEN "CopyData" ELSE "DataRow", id, k + 1)>>, 0, "")
  ELSE IF pl.end = "fail" THEN Result("err", <<>>, 0, "db")
  ELSE Result("none", <<>>, IF call = "copy_out" THEN 0 ELSE pl.n, "")

\* OwnAnswer: a call of the blocking client, or the next item of an iterator,
\* returns what the server made of that very request and nothing of an earlier
\* one that was dropped, timed out or only sent (poll_block_on, Responses, the
\* loops of query.rs).  It fails otherwise only when the session has ended, or
\* in is_valid when the time was up.
OwnAnswer ==
  Returned /\ op.call \in Requests \cup {"next"} =>
    \/ /\ plan # NoPlan
       /\ op.r.res = IF op.call = "next" THEN PromisedItem(op.r.call, op.id, plan, handle.given)
                     ELSE Promised(op.call, op.id, plan)
    \/ op.timer /\ op.r.res = Err(op.r, "timeout").res
    \/ server.up # "up" /\ op.r.res \in {Err(op.r, why).res : why \in {"closed", "db"}}

\* NotificationsInOrder: every notification the server has sent is taken once
\* and in order, whichever call happened to be blocked when it arrived and
\* whether or not that call succeeded (Connection::notifications and the three
\* iterators): the client holds those after the last one taken, and those after
\* these are on their way, each once and in order.
NotificationsInOrder ==
  LET held == taken + Len(conn.notifications)
      Arriving == {i \in DOMAIN inbox : inbox[i].is = "notification"}
  IN  /\ held <= told
      /\ \A i \in DOMAIN conn.notifications : conn.notifications[i] = taken + i
      /\ \A i \in Arriving : inbox[i].n \in held + 1 .. told
      /\ \A i, j \in Arriving : i < j => inbox[i].n < inbox[j].n
      /\ \A n \in held + 1 .. told : \E i \in Arriving : inbox[i].n = n

\* TxEndsWithHandle: once control is back in an application that holds no
\* Transaction, the session is in none: a commit that fails, a Transaction
\* that is dropped and a begin that fails have been dealt with by then
\* (Drop for Transaction blocks on the rollback).
TxEndsWithHandle == op = Idle /\ ~handle.tx => ~server.tx

\* EveryBlockOnReturns: every call returns when the server answers or goes
\* away, with an unread iterator before it, notifications in between and
\* requests nobody waits for.  Only BlockingIter may wait for ever.
EveryBlockOnReturns ==
  (op.call \notin {"idle", "blocking_iter"} /\ ~Returned) ~> Returned
=============================================================================
