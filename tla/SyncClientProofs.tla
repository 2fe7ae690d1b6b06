---------------------- MODULE SyncClientProofs ----------------------
(***************************************************************************)
(* Proofs about SyncClient, for any number of requests, rows and           *)
(* asynchronous messages: NotificationsKept, from NoteInv, and             *)
(* AnswersOwnRequest and NoTxWithoutHandle, from SyncInv.  Of its parts,   *)
(* LineInv says which answers are still on their way and in which order,   *)
(* LiveInv how much of the answer to the live request its future has read  *)
(* and where the rest of it is, and TxInv why the session is in a          *)
(* transaction.  The middle of the module goes through poll: ReadStep says *)
(* what a future makes of the next message of its answer.                  *)
(***************************************************************************)
EXTENDS SyncClient, TLAPS

Kinds == {"BindComplete", "CopyOutResponse", "ParseComplete", "ParameterDescription", "RowDescription",
          "EmptyQueryResponse", "CloseComplete", "DataRow", "CopyData", "CommandComplete", "CopyDone",
          "PortalSuspended", "ErrorResponse", "ReadyForQuery", "NoData",
          "notification", "notice", "parameter"}
Msgs  == [is : Kinds, of : Nat, n : Nat]
Calls == Requests \cup NotificationIters \cup {"close", "drop_client", "next", "idle", "none", "close_portal"}
Asked == [id : Nat, call : Calls \cup {"terminate"}]
Loops == {"start", "copy_start", "count", "typed", "rows", "simple", "simple_rows", "batch", "copy", "sync"}
Ends  == {"ok", "reject", "fail", "more", "none"}
Results == [is : {"pending", "ok", "err", "none"}, items : Seq(Msgs) \cup Seq(Nat), n : Nat,
            why : {"", "db", "closed", "unexpected", "row_count", "timeout"}]
Readers == [call : Calls, pc : Loops, items : Seq(Msgs), n : Nat, res : Results]

Ops      == [call : Calls, r : Readers, id : Nat, timer : BOOLEAN]
Handles  == [client : BOOLEAN, tx : BOOLEAN, portal : BOOLEAN, iter : Readers, given : Nat,
             delay : {"none", "armed", "elapsed"}]
Conns    == [reqs : Seq(Asked), responses : Seq(Nat), chan : Seq(Msgs), notifications : Seq(Nat),
             closed : BOOLEAN, closing : BOOLEAN]
Sessions == [queue : Seq(Asked), stream : Seq(Msgs), tx : BOOLEAN, up : {"up", "fatal", "eof"}]

TypeOK ==
  /\ op \in Ops /\ handle \in Handles /\ conn \in Conns /\ server \in Sessions
  /\ live \in Nat /\ inbox \in Seq(Msgs) /\ plan \in [n : Nat, end : Ends]
  /\ nextId \in Nat \ {0} /\ async \in Nat /\ told \in Nat /\ taken \in Nat

-----------------------------------------------------------------------------
(***************************************************************************)
(* What is asked and not answered to the end.                              *)
(***************************************************************************)

\* The oldest request that has not been answered to the end, the first that is
\* not written yet, and the first the server has not executed.
Oldest(c, nid)     == nid - Len(c.reqs) - Len(c.responses)
Unsent(c, nid)     == nid - Len(c.reqs)
Unserved(c, s, nid) == IF c.closing THEN Unsent(c, nid) ELSE Unsent(c, nid) - Len(s.queue)

Ready(m) == m.is = "ReadyForQuery"
Fatal(m) == m.is = "ErrorResponse" /\ m.of = 0

\* The requests are numbered one after the other.
AskInv(c, nid) ==
  /\ Oldest(c, nid) >= 1
  /\ \A i \in 1 .. Len(c.reqs) : c.reqs[i].id = Unsent(c, nid) + i - 1 /\ c.reqs[i].call # "terminate"
  /\ \A i \in 1 .. Len(c.responses) : c.responses[i] = Oldest(c, nid) + i - 1
  /\ c.closing => c.closed /\ c.reqs = <<>> /\ c.responses = <<>>

\* What the server is still to execute, and the answer it is giving: it is to
\* execute request sv next, old is the oldest not answered to the end.
ServeInv(old, sv, closing, s) ==
  /\ s.up # "up" => s.queue = <<>> /\ s.stream = <<>> /\ ~s.tx
  /\ s.up = "up" /\ closing => \A i \in 1 .. Len(s.queue) : s.queue[i].call = "terminate"
  /\ s.up = "up" /\ ~closing => \A i \in 1 .. Len(s.queue) : s.queue[i].id = sv + i - 1 /\ s.queue[i].call # "terminate"
  /\ s.up = "up" => sv >= old
  /\ s.stream # <<>> => sv > old
  /\ \A i \in 1 .. Len(s.stream) :
       Normal(s.stream[i]) /\ s.stream[i].of = sv - 1 /\ (Ready(s.stream[i]) <=> i = Len(s.stream))

\* A message of the answer to an outstanding request, or the last word of a
\* session that fails.
Belongs(m, old, un, sv, up) == m.of >= old /\ m.of < un /\ (up = "up" => m.of < sv)

\* The answers in ib are in order, each closed by its ReadyForQuery.
Ordered(ib) ==
  \A i, j \in 1 .. Len(ib) : i < j /\ ib[i].of # 0 /\ ib[j].of # 0 =>
    ib[i].of <= ib[j].of /\ (Ready(ib[i]) => ib[i].of < ib[j].of)

Finished(ib, y) == \E j \in 1 .. Len(ib) : Ready(ib[j]) /\ ib[j].of = y

\* What arrives; un is the first request not yet written.
ArriveInv(old, un, sv, s, ib) ==
  /\ \A i \in 1 .. Len(ib) : Normal(ib[i]) =>
       Belongs(ib[i], old, un, sv, s.up) \/ (s.up # "up" /\ i = Len(ib) /\ Fatal(ib[i]))
  /\ \A i \in 1 .. Len(ib) : ~Normal(ib[i]) => ib[i].of = 0
  /\ Ordered(ib)
  /\ \A i \in 1 .. Len(ib) : \A y \in old .. ib[i].of - 1 : Finished(ib, y)
  /\ s.up = "up" => \A y \in old .. sv - 1 : Finished(ib, y) \/ (s.stream # <<>> /\ y = sv - 1)
  /\ s.stream # <<>> => ~Finished(ib, sv - 1)

LineInv(c, s, ib, nid) ==
  /\ AskInv(c, nid) /\ ServeInv(Oldest(c, nid), Unserved(c, s, nid), c.closing, s)
  /\ ArriveInv(Oldest(c, nid), Unsent(c, nid), Unserved(c, s, nid), s, ib)

-----------------------------------------------------------------------------
(***************************************************************************)
(* The reader.                                                             *)
(***************************************************************************)
Collects == {"query", "query_opt", "query_one", "query_typed", "query_portal"}

Pre(call) == Len(Preamble(call))

\* Rows among the first k messages of an answer.
RowsIn(call, pl, k) ==
  IF k <= Pre(call) THEN 0 ELSE IF k - Pre(call) <= pl.n THEN k - Pre(call) ELSE pl.n

LoopAt(call, k) ==
  IF k = 0 THEN First(call)
  ELSE CASE call = "execute" -> "count"
         [] call = "copy_out" -> IF k = 1 THEN "copy_start" ELSE "copy"
         [] call \in Bound \ {"execute", "copy_out"} -> "rows"
         [] call = "query_typed" -> IF k <= 3 THEN "typed" ELSE "rows"
         [] call = "simple_query" -> "simple_rows"
         [] OTHER -> First(call)

ItemsAt(call, id, pl, k) ==
  IF k = 0 THEN <<>>
  ELSE CASE call \in Collects -> Items("DataRow", id, RowsIn(call, pl, k))
         [] call = "simple_query" ->
              <<Msg("RowDescription", id, 0)>> \o Items("DataRow", id, RowsIn(call, pl, k))
                \o (IF k > pl.n + 1 THEN <<Msg("CommandComplete", id, pl.n)>> ELSE <<>>)
         [] call = "is_valid" -> <<Msg("EmptyQueryResponse", id, 0)>>
         [] OTHER -> <<>>

\* The tag, once the CommandComplete has been read by a loop that keeps it.
TagAt(call, pl, k) ==
  IF /\ call \in Collects \cup {"execute", "execute_typed", "query_raw"}
     /\ pl.end = "ok" /\ k = Pre(call) + pl.n + 1
  THEN pl.n ELSE 0

\* The future that has read the first k messages of its answer and waits.
ReaderAt(call, id, pl, k) ==
  [call |-> call, pc |-> LoopAt(call, k), items |-> ItemsAt(call, id, pl, k), n |-> TagAt(call, pl, k),
   res |-> Pending]

\* It can wait after k messages.
Waits(call, pl, k) ==
  /\ k \in Nat
  /\ pl.end = "reject" \/ call = "bind" => k = 0
  /\ pl.end = "fail" \/ call = "copy_out" => k <= Pre(call) + pl.n
  /\ pl.end \in {"ok", "more"} /\ call # "copy_out" => k < Pre(call) + pl.n + Len(Epilogue(call, 1, pl)) + 1
  /\ call \in {"query_opt", "query_one"} /\ pl.n > 1 => k <= Pre(call) + 1

-----------------------------------------------------------------------------
(***************************************************************************)
(* The request whose Responses is alive: lv is its number and pl its plan, *)
(* o the call that is blocked, h what the application holds.               *)
(***************************************************************************)
Own(o, h) == IF o.call = "idle" THEN h.iter ELSE o.r

Asks == Requests \cup {"next"}

\* The call that is blocked or has returned, and whether it has a Responses.
CallInv(o, lv, pl) ==
  /\ o.call \in Asks \cup NotificationIters \cup {"idle", "close", "drop_client"}
  /\ o.call = "idle" => o = Idle
  /\ o.call \notin {"idle", "next"} => o.r.call = o.call
  /\ o.call \notin Asks => o.id = 0
  /\ o.call \notin Asks \cup {"idle"} => lv = 0 /\ pl = NoPlan
  /\ o.call \in Requests /\ o.id = 0 => lv = 0 /\ pl = NoPlan /\ (o.r.res = Pending => o.r = Reader(o.call))
  /\ o.call = "next" => o.id # 0
  /\ o.timer => o.call = "is_valid"
  /\ o.call \in Asks /\ o.id # 0 /\ o.r.res = Pending => lv = o.id
  /\ o.call # "idle" /\ lv # 0 => o.id = lv
  /\ o.r.res # Pending => (lv # 0 <=> (o.r.call \in Streams /\ o.r.res.is = "ok"))

\* The iterator the application holds, if any.
HandleInv(o, h, lv, pl) ==
  /\ h.iter # NoIter => h.iter.call \in Streams /\ h.iter.res = Pending /\ o.call \in {"idle", "next"}
  /\ h.iter = NoIter => h.given = 0
  /\ o.call = "idle" => (lv # 0 <=> h.iter # NoIter) /\ (h.iter = NoIter => pl = NoPlan)
  /\ o.call = "next" => h.iter # NoIter /\ o.r.call = h.iter.call
  /\ ~h.client => h.iter = NoIter /\ o.call \in {"idle", "drop_client"}

\* The live request is the last, and the Connection is not closed before it.
LastInv(o, h, lv, c, up, nid) ==
  /\ lv # 0 => lv = nid - 1
  /\ c.closed /\ up = "up" => o.call \in {"close", "drop_client"} \/ ~h.client

\* What is asked for it, and that nobody else begins a transaction.
Named(q, lv, call) == \A i \in 1 .. Len(q) : q[i].id = lv => q[i].call = call
Begins(q, lv)      == \A i \in 1 .. Len(q) : q[i].call = "begin" => q[i].id = lv
AskedInv(c, s, lv, call) ==
  s.up = "up" =>
    /\ lv # 0 => Named(c.reqs, lv, call) /\ Named(s.queue, lv, call)
    /\ Begins(c.reqs, lv) /\ Begins(s.queue, lv)

\* The channel's messages but for the last word of a session that fails.
OwnLen(ch) == IF ch # <<>> /\ Fatal(ch[Len(ch)]) THEN Len(ch) - 1 ELSE Len(ch)

ChanInv(ch, lv, ib, up) ==
  /\ Len(ch) <= ChanCap
  /\ \A i \in 1 .. Len(ch) : Fatal(ch[i]) => i = Len(ch) /\ up # "up" /\ ib = <<>>
  /\ lv = 0 => ch = <<>>

\* The messages f + 1 to q of the answer a are those of request id in ib.
Coming(a, id, f, q, ib) ==
  /\ \A i \in 1 .. Len(ib) : ib[i].of = id => \E p \in f + 1 .. q : ib[i] = a[p]
  /\ \A i, j \in 1 .. Len(ib) : \A p, r \in 1 .. Len(a) : i < j /\ ib[i] = a[p] /\ ib[j] = a[r] => p < r
  /\ \A p \in f + 1 .. q : \E i \in 1 .. Len(ib) : ib[i] = a[p]

\* The answer a has been read up to k, and up to q it is in the channel ch and
\* then among ib, in order.
Rest(a, id, k, q, ch, ib) ==
  /\ k + OwnLen(ch) <= q /\ q <= Len(a)
  /\ \A i \in 1 .. OwnLen(ch) : ch[i] = a[k + i]
  /\ Coming(a, id, k + OwnLen(ch), q, ib)

\* The rest is with the server.
Left(a, q, st) == Len(st) = Len(a) - q /\ \A i \in 1 .. Len(st) : st[i] = a[q + i]

\* The future r of the call cl has read k messages of its answer, and the
\* application has been given the items before this one.
Given(cl, r, given, id, pl, k) ==
  /\ cl \notin {"idle", "next"} /\ r.res = Pending /\ r.call \in Streams => k < Pre(r.call)
  /\ cl \notin {"idle", "next"} /\ r.res # Pending => k = Pre(r.call) /\ r.res = Result("ok", <<>>, 0, "")
  /\ cl \in {"idle", "next"} => k >= Pre(r.call)
  /\ cl = "next" /\ r.res # Pending =>
       k > Pre(r.call) /\ k <= Pre(r.call) + pl.n /\ r.res = PromisedItem(r.call, id, pl, given)
  /\ r.call \in Streams =>
       given = RowsIn(r.call, pl, k) - IF cl = "next" /\ r.res # Pending THEN 1 ELSE 0

ReadTo(cl, r, given, id, pl, k) ==
  /\ [r EXCEPT !.res = Pending] = ReaderAt(r.call, id, pl, k)
  /\ Waits(r.call, pl, k) /\ Given(cl, r, given, id, pl, k)

\* The server has not got to the live request, or it has made pl of it.
Unanswered(o, lv, ch, ib, up, sv) ==
  /\ OwnLen(ch) = 0 /\ \A i \in 1 .. Len(ib) : ib[i].of # lv
  /\ o.call \in Requests /\ o.r = Reader(o.call)
  /\ up = "up" => lv >= sv

Reading(cl, r, given, lv, pl, ch, ib, s) ==
  \E k, q \in Nat :
    /\ ReadTo(cl, r, given, lv, pl, k) /\ Rest(Answer(r.call, lv, pl), lv, k, q, ch, ib)
    /\ s.up = "up" => Left(Answer(r.call, lv, pl), q, s.stream)

Answering(cl, r, given, lv, pl, ch, ib, s, sv) ==
  /\ r.call \in Requests /\ pl \in Plans(r.call)
  /\ s.up = "up" => lv < sv
  /\ Reading(cl, r, given, lv, pl, ch, ib, s)

LiveInv(o, h, lv, pl, c, ib, s, nid) ==
  /\ lv # 0 /\ pl = NoPlan => Unanswered(o, lv, c.chan, ib, s.up, Unserved(c, s, nid))
  /\ lv # 0 /\ pl # NoPlan => Answering(o.call, Own(o, h), h.given, lv, pl, c.chan, ib, s, Unserved(c, s, nid))

\* Why the session is in a transaction.
TxInv(o, h, pl, s) ==
  s.tx =>
    \/ h.tx
    \/ o.call = "begin" /\ pl.end = "ok"
    \/ o.call \in {"commit", "rollback", "drop_tx"} /\ pl = NoPlan /\ o.r.res = Pending

NoteInv ==
  /\ NotificationsInOrder
  /\ \A i \in 1 .. Len(server.stream) : Normal(server.stream[i])

LiveParts ==
  /\ CallInv(op, live, plan) /\ HandleInv(op, handle, live, plan)
  /\ LastInv(op, handle, live, conn, server.up, nextId)
  /\ AskedInv(conn, server, live, Own(op, handle).call)
  /\ ChanInv(conn.chan, live, inbox, server.up)
  /\ LiveInv(op, handle, live, plan, conn, inbox, server, nextId)
  /\ TxInv(op, handle, plan, server)

SyncInv ==
  TypeOK /\ LineInv(conn, server, inbox, nextId) /\ LiveParts /\ OwnAnswer

-----------------------------------------------------------------------------
(***************************************************************************)
(* Sequences.                                                              *)
(***************************************************************************)

\* What is left of a sequence once its head is taken.
LEMMA TailIs ==
  ASSUME NEW S, NEW s \in Seq(S), s # <<>>
  PROVE  /\ Head(s) = s[1] /\ s[1] \in S /\ Len(s) \in Nat /\ Len(s) >= 1
         /\ Tail(s) \in Seq(S) /\ Len(Tail(s)) = Len(s) - 1
         /\ \A i \in 1 .. Len(s) - 1 : Tail(s)[i] = s[i + 1] /\ i + 1 \in 1 .. Len(s)
OBVIOUS

\* What a sequence is with one more at its end.
LEMMA AppendIs ==
  ASSUME NEW S, NEW s \in Seq(S), NEW e \in S
  PROVE  /\ Append(s, e) \in Seq(S) /\ Len(s) \in Nat /\ Len(Append(s, e)) = Len(s) + 1
         /\ Append(s, e)[Len(s) + 1] = e
         /\ \A i \in 1 .. Len(s) : Append(s, e)[i] = s[i]
         /\ \A i \in 1 .. Len(s) + 1 : i \in 1 .. Len(s) \/ i = Len(s) + 1
OBVIOUS

-----------------------------------------------------------------------------
(***************************************************************************)
(* Notifications.                                                          *)
(***************************************************************************)

\* Where the notifications ns, those in ib and the two counters stand.
Noted(ns, ib, to, ta) ==
  LET held == ta + Len(ns)
      Arriving == {i \in DOMAIN ib : ib[i].is = "notification"}
  IN  /\ held <= to
      /\ \A i \in DOMAIN ns : ns[i] = ta + i
      /\ \A i \in Arriving : ib[i].n \in held + 1 .. to
      /\ \A i, j \in Arriving : i < j => ib[i].n < ib[j].n
      /\ \A n \in held + 1 .. to : \E i \in Arriving : ib[i].n = n

\* What NotificationsInOrder says.
LEMMA NotedIs == NotificationsInOrder <=> Noted(conn.notifications, inbox, told, taken)
BY DEF NotificationsInOrder, Noted

\* The same, index by index.
Listed(ns, ib, to, held, ta) ==
  /\ held = ta + Len(ns) /\ held <= to
  /\ \A i \in 1 .. Len(ns) : ns[i] = ta + i
  /\ \A i \in 1 .. Len(ib) : ib[i].is = "notification" => ib[i].n \in held + 1 .. to
  /\ \A i, j \in 1 .. Len(ib) : ib[i].is = "notification" /\ ib[j].is = "notification" /\ i < j => ib[i].n < ib[j].n
  /\ \A n \in held + 1 .. to : \E i \in 1 .. Len(ib) : ib[i].is = "notification" /\ ib[i].n = n

LEMMA NotedListed ==
  ASSUME NEW ns \in Seq(Nat), NEW ib \in Seq(Msgs), NEW to \in Nat, NEW ta \in Nat
  PROVE  Noted(ns, ib, to, ta) <=> Listed(ns, ib, to, ta + Len(ns), ta)
<1>1. DOMAIN ns = 1 .. Len(ns) /\ DOMAIN ib = 1 .. Len(ib)
  OBVIOUS
<1> DEFINE held == ta + Len(ns)
           A == {i \in DOMAIN ib : ib[i].is = "notification"}
<1>2. \A i : i \in A <=> i \in 1 .. Len(ib) /\ ib[i].is = "notification"
  BY <1>1
<1>3. Noted(ns, ib, to, ta) <=>
        /\ held <= to
        /\ \A i \in DOMAIN ns : ns[i] = ta + i
        /\ \A i \in A : ib[i].n \in held + 1 .. to
        /\ \A i, j \in A : i < j => ib[i].n < ib[j].n
        /\ \A n \in held + 1 .. to : \E i \in A : ib[i].n = n
  BY Zenon DEF Noted
<1>4. Listed(ns, ib, to, ta + Len(ns), ta) <=>
        /\ held <= to
        /\ \A i \in 1 .. Len(ns) : ns[i] = ta + i
        /\ \A i \in 1 .. Len(ib) : ib[i].is = "notification" => ib[i].n \in held + 1 .. to
        /\ \A i, j \in 1 .. Len(ib) : ib[i].is = "notification" /\ ib[j].is = "notification" /\ i < j => ib[i].n < ib[j].n
        /\ \A n \in held + 1 .. to : \E i \in 1 .. Len(ib) : ib[i].is = "notification" /\ ib[i].n = n
  BY Zenon DEF Listed
<1> HIDE DEF A, held
<1> QED BY <1>1, <1>2, <1>3, <1>4, Zenon

\* A message that is no notification leaves.
LEMMA NotedTail ==
  ASSUME NEW ns \in Seq(Nat), NEW ib \in Seq(Msgs), NEW to \in Nat, NEW ta \in Nat, Noted(ns, ib, to, ta),
         ib # <<>>, Head(ib).is # "notification"
  PROVE  Noted(ns, Tail(ib), to, ta)
<1>1. /\ Head(ib) = ib[1] /\ Len(ib) \in Nat /\ Len(ib) >= 1 /\ Len(Tail(ib)) = Len(ib) - 1
      /\ \A i \in 1 .. Len(ib) - 1 : Tail(ib)[i] = ib[i + 1] /\ i + 1 \in 1 .. Len(ib)
      /\ Tail(ib) \in Seq(Msgs)
  BY TailIs
<1> DEFINE held == ta + Len(ns)
<1>2. /\ held <= to /\ \A i \in 1 .. Len(ns) : ns[i] = ta + i
      /\ \A i \in 1 .. Len(ib) : ib[i].is = "notification" => ib[i].n \in held + 1 .. to
      /\ \A i, j \in 1 .. Len(ib) : ib[i].is = "notification" /\ ib[j].is = "notification" /\ i < j => ib[i].n < ib[j].n
      /\ \A n \in held + 1 .. to : \E i \in 1 .. Len(ib) : ib[i].is = "notification" /\ ib[i].n = n
  <2>1. Listed(ns, ib, to, held, ta)
    BY NotedListed
  <2> HIDE DEF held
  <2> QED BY <2>1, Zenon DEF Listed
<1> HIDE DEF held
<1>3. \A i \in 1 .. Len(Tail(ib)) : Tail(ib)[i].is = "notification" => Tail(ib)[i].n \in held + 1 .. to
  BY <1>1, <1>2
<1>4. \A i, j \in 1 .. Len(Tail(ib)) : Tail(ib)[i].is = "notification" /\ Tail(ib)[j].is = "notification" /\ i < j =>
        Tail(ib)[i].n < Tail(ib)[j].n
  <2> SUFFICES ASSUME NEW i \in 1 .. Len(Tail(ib)), NEW j \in 1 .. Len(Tail(ib)), i < j,
                      Tail(ib)[i].is = "notification", Tail(ib)[j].is = "notification"
               PROVE  Tail(ib)[i].n < Tail(ib)[j].n
    OBVIOUS
  <2>1. Tail(ib)[i] = ib[i + 1] /\ Tail(ib)[j] = ib[j + 1] /\ i + 1 \in 1 .. Len(ib) /\ j + 1 \in 1 .. Len(ib) /\ i + 1 < j + 1
    BY <1>1
  <2> QED BY <1>2, <2>1
<1>5. ASSUME NEW n \in held + 1 .. to
      PROVE  \E i \in 1 .. Len(Tail(ib)) : Tail(ib)[i].is = "notification" /\ Tail(ib)[i].n = n
  <2>1. PICK i \in 1 .. Len(ib) : ib[i].is = "notification" /\ ib[i].n = n
    BY <1>2
  <2>2. i # 1
    BY <1>1, <2>1
  <2>3. i - 1 \in 1 .. Len(Tail(ib)) /\ Tail(ib)[i - 1] = ib[i]
    BY <1>1, <2>2
  <2> QED BY <2>1, <2>3
<1>6. held = ta + Len(ns) /\ \A i \in 1 .. Len(ns) : ns[i] = ta + i
  BY <1>2 DEF held
<1>7. Listed(ns, Tail(ib), to, ta + Len(ns), ta)
  BY <1>2, <1>3, <1>4, <1>5, <1>6 DEF Listed
<1> QED BY <1>1, <1>7, NotedListed

\* A notification is taken from the stream.
LEMMA NotedHeld ==
  ASSUME NEW ns \in Seq(Nat), NEW ib \in Seq(Msgs), NEW to \in Nat, NEW ta \in Nat, Noted(ns, ib, to, ta),
         ib # <<>>, Head(ib).is = "notification"
  PROVE  Noted(Append(ns, Head(ib).n), Tail(ib), to, ta)
<1>1. /\ Head(ib) = ib[1] /\ Len(ib) \in Nat /\ Len(ib) >= 1 /\ Len(Tail(ib)) = Len(ib) - 1
      /\ \A i \in 1 .. Len(ib) - 1 : Tail(ib)[i] = ib[i + 1] /\ i + 1 \in 1 .. Len(ib)
      /\ Tail(ib) \in Seq(Msgs) /\ ib[1] \in Msgs
  BY TailIs
<1> DEFINE held == ta + Len(ns)
           new == Append(ns, Head(ib).n)
<1>2. /\ held <= to /\ \A i \in 1 .. Len(ns) : ns[i] = ta + i
      /\ \A i \in 1 .. Len(ib) : ib[i].is = "notification" => ib[i].n \in held + 1 .. to
      /\ \A i, j \in 1 .. Len(ib) : ib[i].is = "notification" /\ ib[j].is = "notification" /\ i < j => ib[i].n < ib[j].n
      /\ \A n \in held + 1 .. to : \E i \in 1 .. Len(ib) : ib[i].is = "notification" /\ ib[i].n = n
  <2>1. Listed(ns, ib, to, held, ta)
    BY NotedListed
  <2> HIDE DEF held
  <2> QED BY <2>1, Zenon DEF Listed
<1>3. /\ Len(new) = Len(ns) + 1 /\ new[Len(ns) + 1] = ib[1].n /\ Len(ns) \in Nat /\ new \in Seq(Nat)
      /\ \A i \in 1 .. Len(ns) : new[i] = ns[i]
  BY <1>1, AppendIs DEF Msgs
<1>4. held \in Nat
  BY <1>3
<1>5. ta + Len(new) = held + 1
  BY <1>3
<1>6. ib[1].n = held + 1
  <2>1. ib[1].n \in held + 1 .. to /\ held + 1 \in held + 1 .. to
    BY <1>1, <1>2, <1>4
  <2>2. PICK i \in 1 .. Len(ib) : ib[i].is = "notification" /\ ib[i].n = held + 1
    BY <1>2, <2>1
  <2>3. i # 1 => ib[1].n < ib[i].n
    BY <1>1, <1>2, <2>2
  <2> QED BY <1>4, <2>1, <2>2, <2>3
<1>7. held + 1 <= to
  BY <1>1, <1>2, <1>4
<1>8. \A i \in 1 .. Len(new) : new[i] = ta + i
  <2> SUFFICES ASSUME NEW i \in 1 .. Len(new) PROVE new[i] = ta + i
    OBVIOUS
  <2>1. CASE i \in 1 .. Len(ns)
    BY <1>2, <1>3, <2>1
  <2>2. CASE i = Len(ns) + 1
    BY <1>3, <1>6, <2>2
  <2> QED BY <1>3, <2>1, <2>2
<1> HIDE DEF held, new
<1>9. \A i \in 1 .. Len(Tail(ib)) : Tail(ib)[i].is = "notification" => Tail(ib)[i].n \in held + 1 + 1 .. to
  <2> SUFFICES ASSUME NEW i \in 1 .. Len(Tail(ib)), Tail(ib)[i].is = "notification"
               PROVE  Tail(ib)[i].n \in held + 1 + 1 .. to
    OBVIOUS
  <2>1. Tail(ib)[i] = ib[i + 1] /\ i + 1 \in 1 .. Len(ib) /\ 1 < i + 1 /\ 1 \in 1 .. Len(ib)
    BY <1>1
  <2>2. ib[i + 1].n \in held + 1 .. to /\ ib[1].n < ib[i + 1].n
    BY <1>1, <1>2, <2>1
  <2> QED BY <1>4, <1>6, <2>1, <2>2
<1>10. \A i, j \in 1 .. Len(Tail(ib)) : Tail(ib)[i].is = "notification" /\ Tail(ib)[j].is = "notification" /\ i < j =>
        Tail(ib)[i].n < Tail(ib)[j].n
  <2> SUFFICES ASSUME NEW i \in 1 .. Len(Tail(ib)), NEW j \in 1 .. Len(Tail(ib)), i < j,
                      Tail(ib)[i].is = "notification", Tail(ib)[j].is = "notification"
               PROVE  Tail(ib)[i].n < Tail(ib)[j].n
    OBVIOUS
  <2>1. Tail(ib)[i] = ib[i + 1] /\ Tail(ib)[j] = ib[j + 1] /\ i + 1 \in 1 .. Len(ib) /\ j + 1 \in 1 .. Len(ib) /\ i + 1 < j + 1
    BY <1>1
  <2>2. ib[i + 1].is = "notification" /\ ib[j + 1].is = "notification"
    BY <2>1
  <2>3. ib[i + 1].n < ib[j + 1].n
    BY <1>2, <2>1, <2>2
  <2> QED BY <2>1, <2>3
<1>11. ASSUME NEW n \in held + 1 + 1 .. to
       PROVE  \E i \in 1 .. Len(Tail(ib)) : Tail(ib)[i].is = "notification" /\ Tail(ib)[i].n = n
  <2>0. n \in held + 1 .. to /\ n # held + 1
    BY <1>4
  <2>1. PICK i \in 1 .. Len(ib) : ib[i].is = "notification" /\ ib[i].n = n
    BY <1>2, <2>0
  <2>2. i # 1
    BY <1>6, <2>0, <2>1
  <2>3. i - 1 \in 1 .. Len(Tail(ib)) /\ Tail(ib)[i - 1] = ib[i]
    BY <1>1, <2>2
  <2> QED BY <2>1, <2>3
<1>13. Listed(new, Tail(ib), to, held + 1, ta) /\ held + 1 = ta + Len(new)
  BY <1>5, <1>7, <1>8, <1>9, <1>10, <1>11 DEF Listed
<1>14. Noted(new, Tail(ib), to, ta)
  BY <1>1, <1>3, <1>13, NotedListed
<1> QED BY <1>14 DEF new

\* The application takes a notification.
LEMMA NotedTaken ==
  ASSUME NEW ns \in Seq(Nat), NEW ib, NEW to \in Nat, NEW ta \in Nat, Noted(ns, ib, to, ta), ns # <<>>
  PROVE  Noted(Tail(ns), ib, to, ta + 1)
<1>1. /\ Len(ns) \in Nat /\ Len(ns) >= 1 /\ Len(Tail(ns)) = Len(ns) - 1
      /\ \A i \in 1 .. Len(ns) - 1 : Tail(ns)[i] = ns[i + 1] /\ i + 1 \in 1 .. Len(ns)
      /\ Tail(ns) \in Seq(Nat)
  BY TailIs
<1>2. ta + 1 + Len(Tail(ns)) = ta + Len(ns)
  BY <1>1
<1>3. \A i \in 1 .. Len(ns) : ns[i] = ta + i
  BY DEF Noted
<1>4. \A i \in DOMAIN Tail(ns) : Tail(ns)[i] = ta + 1 + i
  <2> SUFFICES ASSUME NEW i \in 1 .. Len(ns) - 1 PROVE Tail(ns)[i] = ta + 1 + i
    BY <1>1
  <2>1. Tail(ns)[i] = ta + (i + 1)
    BY <1>1, <1>3
  <2> QED BY <2>1
<1> QED BY <1>2, <1>4 DEF Noted

\* The server says something else.
LEMMA NotedOther ==
  ASSUME NEW ns \in Seq(Nat), NEW ib \in Seq(Msgs), NEW to \in Nat, NEW ta \in Nat, Noted(ns, ib, to, ta),
         NEW m \in Msgs, m.is # "notification"
  PROVE  Noted(ns, Append(ib, m), to, ta)
<1>1. /\ Append(ib, m) \in Seq(Msgs) /\ Len(ib) \in Nat /\ Len(Append(ib, m)) = Len(ib) + 1
      /\ Append(ib, m)[Len(ib) + 1] = m
      /\ \A i \in 1 .. Len(ib) : Append(ib, m)[i] = ib[i]
      /\ \A i \in 1 .. Len(ib) + 1 : i \in 1 .. Len(ib) \/ i = Len(ib) + 1
  BY AppendIs
<1>2. \A i \in DOMAIN Append(ib, m) : Append(ib, m)[i].is = "notification" => i \in DOMAIN ib /\ Append(ib, m)[i] = ib[i]
  BY <1>1
<1>3. \A i \in DOMAIN ib : i \in DOMAIN Append(ib, m) /\ Append(ib, m)[i] = ib[i]
  BY <1>1
<1> QED BY <1>2, <1>3 DEF Noted

\* The server notifies.
LEMMA NotedNew ==
  ASSUME NEW ns \in Seq(Nat), NEW ib \in Seq(Msgs), NEW to \in Nat, NEW ta \in Nat, Noted(ns, ib, to, ta),
         NEW m \in Msgs, m.is = "notification", m.n = to + 1
  PROVE  Noted(ns, Append(ib, m), to + 1, ta)
<1>1. /\ Append(ib, m) \in Seq(Msgs) /\ Len(ib) \in Nat /\ Len(Append(ib, m)) = Len(ib) + 1
      /\ Append(ib, m)[Len(ib) + 1] = m
      /\ \A i \in 1 .. Len(ib) : Append(ib, m)[i] = ib[i]
      /\ \A i \in 1 .. Len(ib) + 1 : i \in 1 .. Len(ib) \/ i = Len(ib) + 1
  BY AppendIs
<1> DEFINE held == ta + Len(ns)
           new == Append(ib, m)
<1>2. /\ held <= to /\ \A i \in 1 .. Len(ns) : ns[i] = ta + i
      /\ \A i \in 1 .. Len(ib) : ib[i].is = "notification" => ib[i].n \in held + 1 .. to
      /\ \A i, j \in 1 .. Len(ib) : ib[i].is = "notification" /\ ib[j].is = "notification" /\ i < j => ib[i].n < ib[j].n
      /\ \A n \in held + 1 .. to : \E i \in 1 .. Len(ib) : ib[i].is = "notification" /\ ib[i].n = n
  <2>1. Listed(ns, ib, to, held, ta)
    BY NotedListed
  <2> HIDE DEF held
  <2> QED BY <2>1, Zenon DEF Listed
<1>3. held \in Nat
  OBVIOUS
<1>4. DOMAIN new = 1 .. Len(ib) + 1 /\ Len(new) = Len(ib) + 1 /\ new[Len(ib) + 1] = m /\ \A i \in 1 .. Len(ib) : new[i] = ib[i] /\ i \in DOMAIN new
  BY <1>1
<1> HIDE DEF held, new
<1>5. \A i \in DOMAIN new : new[i].is = "notification" => new[i].n \in held + 1 .. to + 1
  <2> SUFFICES ASSUME NEW i \in DOMAIN new, new[i].is = "notification" PROVE new[i].n \in held + 1 .. to + 1
    OBVIOUS
  <2>1. CASE i \in 1 .. Len(ib)
    <3>1. ib[i].is = "notification" /\ new[i].n = ib[i].n
      BY <1>4, <2>1
    <3>2. ib[i].n \in held + 1 .. to
      BY <1>2, <2>1, <3>1
    <3> QED BY <1>3, <3>1, <3>2
  <2>2. CASE i = Len(ib) + 1
    <3>1. new[i].n = to + 1 /\ held <= to
      BY <1>2, <1>4, <2>2
    <3> QED BY <1>3, <3>1
  <2> QED BY <1>1, <1>4, <2>1, <2>2
<1>6. ASSUME NEW i \in DOMAIN new, NEW j \in DOMAIN new, new[i].is = "notification", new[j].is = "notification", i < j
      PROVE  new[i].n < new[j].n
  <2>1. i \in 1 .. Len(ib)
    BY <1>1, <1>4, <1>6
  <2>2. CASE j \in 1 .. Len(ib)
    BY <1>2, <1>4, <1>6, <2>1, <2>2
  <2>3. CASE j = Len(ib) + 1
    <3>1. ib[i].n \in held + 1 .. to
      BY <1>2, <1>4, <1>6, <2>1
    <3> QED BY <1>3, <1>4, <2>1, <2>3, <3>1
  <2> QED BY <1>1, <1>4, <2>2, <2>3
<1>7. ASSUME NEW n \in held + 1 .. to + 1 PROVE \E i \in DOMAIN new : new[i].is = "notification" /\ new[i].n = n
  <2>1. CASE n = to + 1
    BY <1>1, <1>4, <2>1
  <2>2. CASE n \in held + 1 .. to
    BY <1>2, <1>4, <2>2
  <2> QED BY <1>3, <2>1, <2>2
<1>8. held <= to + 1
  BY <1>2, <1>3
<1>9. held = ta + Len(ns)
  BY DEF held
<1>10. Listed(ns, new, to + 1, held, ta)
  BY <1>2, <1>4, <1>5, <1>6, <1>7, <1>8, <1>9 DEF Listed
<1>11. new \in Seq(Msgs) /\ to + 1 \in Nat
  BY <1>1 DEF new
<1>12. Noted(ns, new, to + 1, ta)
  BY <1>9, <1>10, <1>11, NotedListed
<1> QED BY <1>12 DEF new

-----------------------------------------------------------------------------
(***************************************************************************)
(* What the server answers.                                                *)
(***************************************************************************)
Bodies == {"DataRow", "CopyData", "CommandComplete", "CopyDone", "PortalSuspended", "ErrorResponse", "ReadyForQuery"}
Waited == {"NoData", "notification", "notice", "parameter"}

BodyIs(call) == IF call = "copy_out" THEN "CopyData" ELSE "DataRow"

\* The messages before the rows are all different, and none is one of the rows
\* or of what follows them.
LEMMA PreIs ==
  ASSUME NEW call \in Calls
  PROVE  /\ Preamble(call) \in Seq(Kinds) /\ Pre(call) \in Nat
         /\ \A i \in 1 .. Pre(call) : Preamble(call)[i] \in Kinds \ (Bodies \cup Waited)
         /\ \A i, j \in 1 .. Pre(call) : Preamble(call)[i] = Preamble(call)[j] => i = j
<1>1. CASE call \in Bound \ {"copy_out"}
  <2>1. Preamble(call) = <<"BindComplete">>
    BY <1>1 DEF Preamble, Bound
  <2> QED BY <2>1 DEF Pre, Kinds, Bodies, Waited
<1>2. CASE call = "copy_out"
  <2>1. Preamble(call) = <<"BindComplete", "CopyOutResponse">>
    BY <1>2 DEF Preamble
  <2> QED BY <2>1 DEF Pre, Kinds, Bodies, Waited
<1>3. CASE call \in {"query_typed", "execute_typed"}
  <2>1. Preamble(call) = <<"ParseComplete", "BindComplete", "ParameterDescription", "RowDescription">>
    BY <1>3 DEF Preamble, Bound
  <2> QED BY <2>1 DEF Pre, Kinds, Bodies, Waited
<1>4. CASE call \in {"simple_query", "batch_execute"}
  <2>1. Preamble(call) = <<"RowDescription">>
    BY <1>4 DEF Preamble, Bound
  <2> QED BY <2>1 DEF Pre, Kinds, Bodies, Waited
<1>5. CASE call = "is_valid"
  <2>1. Preamble(call) = <<"EmptyQueryResponse">>
    BY <1>5 DEF Preamble, Bound
  <2> QED BY <2>1 DEF Pre, Kinds, Bodies, Waited
<1>6. CASE call = "close_portal"
  <2>1. Preamble(call) = <<"CloseComplete">>
    BY <1>6 DEF Preamble, Bound
  <2> QED BY <2>1 DEF Pre, Kinds, Bodies, Waited
<1>7. CASE call \notin Bound \cup {"query_typed", "execute_typed", "simple_query", "batch_execute", "is_valid", "close_portal"}
  <2>1. Preamble(call) = <<>>
    BY <1>7 DEF Preamble, Bound
  <2> QED BY <2>1 DEF Pre, Kinds, Bodies, Waited
<1> QED BY <1>1, <1>2, <1>3, <1>4, <1>5, <1>6, <1>7 DEF Bound

\* How many messages follow the rows.
Post(call, pl) == Len(Epilogue(call, 1, pl))

\* A plan is a number of rows and how the answer ends; a request that is
\* refused has none.
LEMMA PlanIs ==
  ASSUME NEW call \in Calls, NEW pl \in Plans(call)
  PROVE  /\ pl \in [n : Nat, end : Ends] /\ pl.n \in Nat /\ pl.end \in {"ok", "reject", "fail", "more"}
         /\ pl # NoPlan
         /\ pl.end = "reject" => pl.n = 0
         /\ pl.end = "more" => call = "query_portal"
         /\ call \in {"bind", "check_connection", "is_valid", "begin", "commit", "rollback", "drop_tx", "close_portal"} =>
              pl.n = 0 /\ pl.end \in {"ok", "reject"}
         /\ call \in {"is_valid", "check_connection", "rollback", "drop_tx", "close_portal"} => pl.end = "ok"
<1>1. RowCounts(call) \subseteq Nat
  BY SyncAssumption DEF RowCounts
<1>2. CASE call \in {"begin", "commit", "bind"}
  <2>1. pl \in {[n |-> 0, end |-> e] : e \in {"ok", "reject"}}
    BY <1>2 DEF Plans
  <2>2. PICK e \in {"ok", "reject"} : pl = [n |-> 0, end |-> e]
    BY <2>1
  <2> QED BY <1>2, <2>2 DEF Ends, NoPlan
<1>3. CASE call \in {"rollback", "drop_tx", "close_portal", "is_valid", "check_connection"}
  <2>1. pl = [n |-> 0, end |-> "ok"]
    BY <1>3 DEF Plans
  <2> QED BY <1>3, <2>1 DEF Ends, NoPlan
<1>4. CASE call \notin {"begin", "commit", "bind", "rollback", "drop_tx", "close_portal", "is_valid", "check_connection"}
  <2>1. pl \in [n : RowCounts(call), end : {"ok", "fail"} \cup (IF call = "query_portal" THEN {"more"} ELSE {})]
               \cup {[n |-> 0, end |-> "reject"]}
    BY <1>4 DEF Plans
  <2>2. CASE pl = [n |-> 0, end |-> "reject"]
    BY <1>4, <2>2 DEF Ends, NoPlan
  <2>3. CASE pl \in [n : RowCounts(call), end : {"ok", "fail"} \cup (IF call = "query_portal" THEN {"more"} ELSE {})]
    <3>1. /\ pl.n \in Nat /\ pl.end \in {"ok", "fail", "more"}
          /\ pl.end = "more" => call = "query_portal"
          /\ pl = [n |-> pl.n, end |-> pl.end]
      BY <1>1, <2>3
    <3>2. pl \in [n : Nat, end : Ends]
      BY <3>1 DEF Ends
    <3>3. pl # NoPlan
      BY <3>1 DEF NoPlan
    <3> QED BY <1>4, <3>1, <3>2, <3>3
  <2> QED BY <2>1, <2>2, <2>3
<1> QED BY <1>2, <1>3, <1>4

\* What follows the rows of a request that succeeds.
LEMMA PostIs ==
  ASSUME NEW call \in Calls, NEW id \in Nat, NEW pl \in Plans(call), pl.end \in {"ok", "more"}
  PROVE  /\ Epilogue(call, id, pl) \in Seq(Msgs) /\ Len(Epilogue(call, id, pl)) = Post(call, pl) /\ Post(call, pl) \in Nat
         /\ pl.end = "more" => Post(call, pl) = 1 /\ Epilogue(call, id, pl)[1] = Msg("PortalSuspended", id, 0)
         /\ call = "copy_out" =>
              /\ Post(call, pl) = 2
              /\ Epilogue(call, id, pl)[1] = Msg("CopyDone", id, 0) /\ Epilogue(call, id, pl)[2] = Msg("CommandComplete", id, pl.n)
         /\ call \in {"bind", "is_valid", "check_connection", "close_portal"} => Post(call, pl) = 0
         /\ pl.end = "ok" /\ call \notin {"copy_out", "bind", "is_valid", "check_connection", "close_portal"} =>
              Post(call, pl) = 1 /\ Epilogue(call, id, pl)[1] = Msg("CommandComplete", id, pl.n)
         /\ \A i \in 1 .. Post(call, pl) :
              /\ Epilogue(call, id, pl)[i].of = id
              /\ Epilogue(call, id, pl)[i].is \in {"PortalSuspended", "CopyDone", "CommandComplete"}
         /\ \A i, j \in 1 .. Post(call, pl) : Epilogue(call, id, pl)[i].is = Epilogue(call, id, pl)[j].is => i = j
<1>0. pl.n \in Nat /\ \A is \in Kinds, n \in Nat : Msg(is, id, n) \in Msgs
  BY PlanIs DEF Msg, Msgs
<1>1. CASE pl.end = "more"
  <2>1. Epilogue(call, id, pl) = <<Msg("PortalSuspended", id, 0)>> /\ Post(call, pl) = 1 /\ call = "query_portal"
    BY <1>1, PlanIs DEF Epilogue, Post
  <2>2. Msg("PortalSuspended", id, 0) \in Msgs
    BY <1>0 DEF Kinds
  <2> QED BY <1>1, <2>1, <2>2 DEF Msg
<1>2. CASE pl.end = "ok" /\ call = "copy_out"
  <2>1. Epilogue(call, id, pl) = <<Msg("CopyDone", id, 0), Msg("CommandComplete", id, pl.n)>> /\ Post(call, pl) = 2
    BY <1>2 DEF Epilogue, Post
  <2>2. Msg("CopyDone", id, 0) \in Msgs /\ Msg("CommandComplete", id, pl.n) \in Msgs
    BY <1>0 DEF Kinds
  <2>3. /\ Epilogue(call, id, pl) \in Seq(Msgs) /\ Len(Epilogue(call, id, pl)) = 2
        /\ Epilogue(call, id, pl)[1] = Msg("CopyDone", id, 0)
        /\ Epilogue(call, id, pl)[2] = Msg("CommandComplete", id, pl.n)
    BY <2>1, <2>2
  <2>4. \A i \in 1 .. 2 : i = 1 \/ i = 2
    OBVIOUS
  <2> HIDE DEF Msgs
  <2>5. /\ Epilogue(call, id, pl)[1].is = "CopyDone" /\ Epilogue(call, id, pl)[1].of = id
        /\ Epilogue(call, id, pl)[2].is = "CommandComplete" /\ Epilogue(call, id, pl)[2].of = id
    BY <2>3 DEF Msg
  <2>6. ASSUME NEW i \in 1 .. 2, NEW j \in 1 .. 2
        PROVE  /\ Epilogue(call, id, pl)[i].of = id
               /\ Epilogue(call, id, pl)[i].is \in {"PortalSuspended", "CopyDone", "CommandComplete"}
               /\ Epilogue(call, id, pl)[i].is = Epilogue(call, id, pl)[j].is => i = j
    <3>1. CASE i = 1
      BY <2>4, <2>5, <3>1
    <3>2. CASE i = 2
      BY <2>4, <2>5, <3>2
    <3> QED BY <2>4, <3>1, <3>2
  <2>7. Post(call, pl) = 2 /\ Epilogue(call, id, pl) \in Seq(Msgs) /\ Len(Epilogue(call, id, pl)) = Post(call, pl)
    BY <2>1, <2>3
  <2>8. 1 .. Post(call, pl) = 1 .. 2 /\ Post(call, pl) \in Nat
    BY <2>7
  <2>9. /\ pl.end # "more" /\ call = "copy_out"
        /\ call \notin {"bind", "is_valid", "check_connection", "close_portal"}
    BY <1>2
  <2> HIDE DEF Post, Epilogue
  <2>10. \A i, j \in 1 .. Post(call, pl) :
               /\ Epilogue(call, id, pl)[i].of = id
               /\ Epilogue(call, id, pl)[i].is \in {"PortalSuspended", "CopyDone", "CommandComplete"}
               /\ Epilogue(call, id, pl)[i].is = Epilogue(call, id, pl)[j].is => i = j
    BY <2>6, <2>8, Zenon
  <2> QED BY <2>3, <2>7, <2>8, <2>9, <2>10, Zenon
<1>3. CASE pl.end = "ok" /\ call \in {"bind", "is_valid", "check_connection", "close_portal"}
  <2>1. Epilogue(call, id, pl) = <<>> /\ Post(call, pl) = 0
    BY <1>3 DEF Epilogue, Post
  <2> QED BY <1>3, <2>1
<1>4. CASE pl.end = "ok" /\ call \notin {"copy_out", "bind", "is_valid", "check_connection", "close_portal"}
  <2>1. Epilogue(call, id, pl) = <<Msg("CommandComplete", id, pl.n)>> /\ Post(call, pl) = 1
    BY <1>4 DEF Epilogue, Post
  <2>2. Msg("CommandComplete", id, pl.n) \in Msgs
    BY <1>0 DEF Kinds
  <2> QED BY <1>4, <2>1, <2>2 DEF Msg
<1> QED BY <1>1, <1>2, <1>3, <1>4

\* The message at each place of an answer.
Placed(a, call, id, pl) ==
  /\ a \in Seq(Msgs)
  /\ pl.end = "reject" => Len(a) = 2 /\ a[1] = Msg("ErrorResponse", id, 0)
  /\ pl.end # "reject" =>
       /\ Len(a) = Pre(call) + pl.n + (IF pl.end = "fail" THEN 1 ELSE Post(call, pl)) + 1
       /\ \A i \in 1 .. Pre(call) : a[i] = Msg(Preamble(call)[i], id, 0)
       /\ \A i \in 1 .. pl.n : a[Pre(call) + i] = Msg(BodyIs(call), id, i)
  /\ pl.end = "fail" => a[Pre(call) + pl.n + 1] = Msg("ErrorResponse", id, 0)
  /\ pl.end \in {"ok", "more"} =>
       \A i \in 1 .. Post(call, pl) : a[Pre(call) + pl.n + i] = Epilogue(call, id, pl)[i]
  /\ a[Len(a)] = Msg("ReadyForQuery", id, 0)

\* A sequence behind another.
Joined(s, t) == s \o t

Parts(z, s, t) ==
  /\ Len(s) \in Nat /\ Len(t) \in Nat /\ Len(z) = Len(s) + Len(t)
  /\ \A i \in 1 .. Len(s) : z[i] = s[i]
  /\ \A i \in 1 .. Len(t) : z[Len(s) + i] = t[i]

LEMMA TwoParts ==
  ASSUME NEW S, NEW s \in Seq(S), NEW t \in Seq(S)
  PROVE  Joined(s, t) \in Seq(S) /\ Parts(Joined(s, t), s, t)
BY DEF Joined, Parts

\* Four sequences one behind the other.
FourOf(a, p, b, e, r) ==
  /\ Len(a) = Len(p) + Len(b) + Len(e) + 1
  /\ \A i \in 1 .. Len(p) : a[i] = p[i]
  /\ \A i \in 1 .. Len(b) : a[Len(p) + i] = b[i]
  /\ \A i \in 1 .. Len(e) : a[Len(p) + Len(b) + i] = e[i]
  /\ a[Len(a)] = r[1]

LEMMA FourParts ==
  ASSUME NEW S, NEW p \in Seq(S), NEW b \in Seq(S), NEW e \in Seq(S), NEW r \in Seq(S), Len(r) = 1,
         NEW a, a = Joined(Joined(Joined(p, b), e), r)
  PROVE  a \in Seq(S) /\ FourOf(a, p, b, e, r)
<1>0. Len(p) \in Nat /\ Len(b) \in Nat /\ Len(e) \in Nat
  OBVIOUS
<1> DEFINE x == Joined(p, b)
           y == Joined(x, e)
<1>a. x \in Seq(S) /\ Parts(x, p, b)
  BY TwoParts
<1>1. /\ Len(x) = Len(p) + Len(b)
      /\ \A i \in 1 .. Len(p) : x[i] = p[i]
      /\ \A i \in 1 .. Len(b) : x[Len(p) + i] = b[i]
  BY <1>a DEF Parts
<1> HIDE DEF x
<1>b. y \in Seq(S) /\ Parts(y, x, e)
  BY <1>a, TwoParts
<1>2. /\ Len(y) = Len(x) + Len(e)
      /\ \A i \in 1 .. Len(x) : y[i] = x[i]
      /\ \A i \in 1 .. Len(e) : y[Len(x) + i] = e[i]
  BY <1>b DEF Parts
<1> HIDE DEF y
<1>3. /\ a \in Seq(S) /\ Len(a) = Len(y) + 1
      /\ \A i \in 1 .. Len(y) : a[i] = y[i]
      /\ a[Len(y) + 1] = r[1]
  <2>1. a = Joined(y, r)
    BY DEF y, x
  <2>2. a \in Seq(S) /\ Parts(a, y, r)
    BY <1>b, <2>1, TwoParts
  <2>3. 1 \in 1 .. Len(r)
    OBVIOUS
  <2> QED BY <2>2, <2>3 DEF Parts
<1>4. Len(a) = Len(p) + Len(b) + Len(e) + 1 /\ a[Len(a)] = r[1]
  BY <1>0, <1>1, <1>2, <1>3
<1>5. \A i \in 1 .. Len(p) : a[i] = p[i]
  <2> SUFFICES ASSUME NEW i \in 1 .. Len(p) PROVE a[i] = p[i]
    OBVIOUS
  <2>1. i \in 1 .. Len(x) /\ i \in 1 .. Len(y)
    BY <1>0, <1>1, <1>2
  <2> QED BY <1>1, <1>2, <1>3, <2>1, Zenon
<1>6. \A i \in 1 .. Len(b) : a[Len(p) + i] = b[i]
  <2> SUFFICES ASSUME NEW i \in 1 .. Len(b) PROVE a[Len(p) + i] = b[i]
    OBVIOUS
  <2>1. Len(p) + i \in 1 .. Len(x) /\ Len(p) + i \in 1 .. Len(y)
    BY <1>0, <1>1, <1>2
  <2> QED BY <1>1, <1>2, <1>3, <2>1, Zenon
<1>7. \A i \in 1 .. Len(e) : a[Len(p) + Len(b) + i] = e[i]
  <2> SUFFICES ASSUME NEW i \in 1 .. Len(e) PROVE a[Len(p) + Len(b) + i] = e[i]
    OBVIOUS
  <2>1. Len(x) + i \in 1 .. Len(y) /\ Len(x) + i = Len(p) + Len(b) + i
    BY <1>0, <1>1, <1>2
  <2>2. a[Len(x) + i] = e[i]
    BY <1>2, <1>3, <2>1, Zenon
  <2> QED BY <2>1, <2>2
<1> QED BY <1>3, <1>4, <1>5, <1>6, <1>7, Zenon DEF FourOf

\* An answer is laid out as Placed says.
LEMMA AnswerIs ==
  ASSUME NEW call \in Calls, NEW id \in Nat, NEW pl \in Plans(call)
  PROVE  Placed(Answer(call, id, pl), call, id, pl)
<1> DEFINE pre  == [i \in DOMAIN Preamble(call) |-> Msg(Preamble(call)[i], id, 0)]
           body == Items(BodyIs(call), id, pl.n)
           err  == <<Msg("ErrorResponse", id, 0)>>
           last == Msg("ReadyForQuery", id, 0)
<1>0. pl.n \in Nat /\ pl.end \in {"ok", "reject", "fail", "more"} /\ \A is \in Kinds, n \in Nat : Msg(is, id, n) \in Msgs
  BY PlanIs DEF Msg, Msgs
<1>1. /\ pre \in Seq(Msgs) /\ Len(pre) = Pre(call) /\ \A i \in 1 .. Pre(call) : pre[i] = Msg(Preamble(call)[i], id, 0)
  <2>1. DOMAIN Preamble(call) = 1 .. Pre(call) /\ Pre(call) \in Nat /\ \A i \in 1 .. Pre(call) : Preamble(call)[i] \in Kinds
    BY PreIs DEF Pre
  <2>2. \A i \in 1 .. Pre(call) : Msg(Preamble(call)[i], id, 0) \in Msgs
    BY <1>0, <2>1
  <2>3. pre \in [1 .. Pre(call) -> Msgs]
    BY <2>1, <2>2
  <2> QED BY <2>1, <2>3
<1>2. body \in Seq(Msgs) /\ Len(body) = pl.n /\ \A i \in 1 .. pl.n : body[i] = Msg(BodyIs(call), id, i)
  <2>1. BodyIs(call) \in Kinds
    BY DEF BodyIs, Kinds
  <2>2. body = [i \in 1 .. pl.n |-> Msg(BodyIs(call), id, i)]
    BY DEF Items
  <2>3. body \in [1 .. pl.n -> Msgs]
    BY <1>0, <2>1, <2>2
  <2>4. body \in Seq(Msgs) /\ Len(body) = pl.n
    <3> HIDE DEF body
    <3> QED BY <1>0, <2>3
  <2> QED BY <2>2, <2>4
<1>3. err \in Seq(Msgs) /\ Len(err) = 1 /\ err[1] = Msg("ErrorResponse", id, 0) /\ last \in Msgs
  BY <1>0 DEF Kinds
<1>4. Answer(call, id, pl) = (CASE pl.end = "reject" -> err
                                [] pl.end = "fail" -> (pre \o body) \o err
                                [] OTHER -> (pre \o body) \o Epilogue(call, id, pl)) \o <<last>>
  BY DEF Answer, BodyIs
<1> HIDE DEF pre, body, err, last
<1> DEFINE a == Answer(call, id, pl)
<1>5. CASE pl.end = "reject"
  <2>1. PICK z : z = <<last>>
    OBVIOUS
  <2>2. z \in Seq(Msgs) /\ Len(z) = 1 /\ z[1] = last
    BY <1>3, <2>1
  <2>3. a = Joined(err, z)
    BY <1>4, <1>5, <2>1 DEF Joined
  <2> HIDE DEF a
  <2>4. /\ a \in Seq(Msgs) /\ Len(a) = Len(err) + Len(z)
        /\ \A i \in 1 .. Len(err) : a[i] = err[i]
        /\ \A i \in 1 .. Len(z) : a[Len(err) + i] = z[i]
    <3>1. a \in Seq(Msgs) /\ Parts(a, err, z)
      BY <1>3, <2>2, <2>3, TwoParts
    <3> QED BY <3>1 DEF Parts
  <2>5. Len(a) = 2 /\ a[1] = Msg("ErrorResponse", id, 0) /\ a[Len(a)] = last
    <3>1. 1 \in 1 .. 1 /\ Len(a) = 2
      BY <1>3, <2>2, <2>4
    <3>2. a[1] = err[1] /\ a[1 + 1] = z[1]
      BY <1>3, <2>2, <2>4, <3>1
    <3> QED BY <1>3, <2>2, <3>1, <3>2
  <2>6. Placed(a, call, id, pl)
    BY <1>5, <2>4, <2>5 DEF Placed, last
  <2> QED BY <2>6 DEF a
<1>z. PICK z : z = <<last>> /\ z \in Seq(Msgs) /\ Len(z) = 1 /\ z[1] = last
  <2>1. <<last>> \in Seq(Msgs) /\ Len(<<last>>) = 1 /\ <<last>>[1] = last
    BY <1>3
  <2> QED BY <2>1
<1>6. ASSUME pl.end # "reject" PROVE Placed(a, call, id, pl)
  <2> DEFINE Ending(e) == /\ a = Joined(Joined(Joined(pre, body), e), z)
                          /\ Len(e) = IF pl.end = "fail" THEN 1 ELSE Post(call, pl)
                          /\ pl.end = "fail" => e[1] = Msg("ErrorResponse", id, 0)
                          /\ pl.end # "fail" => e = Epilogue(call, id, pl)
  <2>e. PICK e \in Seq(Msgs) : Ending(e)
    <3>1. CASE pl.end = "fail"
      <4>1. a = Joined(Joined(Joined(pre, body), err), z)
        BY <1>4, <1>z, <3>1 DEF Joined
      <4>2. Ending(err)
        BY <1>3, <3>1, <4>1
      <4> QED BY <1>3, <4>2, Zenon
    <3>2. CASE pl.end \in {"ok", "more"}
      <4>1. a = Joined(Joined(Joined(pre, body), Epilogue(call, id, pl)), z)
        BY <1>4, <1>z, <3>2 DEF Joined
      <4>2. Epilogue(call, id, pl) \in Seq(Msgs) /\ Len(Epilogue(call, id, pl)) = Post(call, pl)
        BY <3>2, PostIs
      <4>3. Ending(Epilogue(call, id, pl))
        BY <3>2, <4>1, <4>2
      <4> QED BY <4>2, <4>3, Zenon
    <3> QED BY <1>0, <1>6, <3>1, <3>2
  <2> HIDE DEF a
  <2>1. pre \in Seq(Msgs) /\ body \in Seq(Msgs)
    BY <1>1, <1>2
  <2>2. /\ a \in Seq(Msgs) /\ Len(a) = Len(pre) + Len(body) + Len(e) + 1
        /\ \A i \in 1 .. Len(pre) : a[i] = pre[i]
        /\ \A i \in 1 .. Len(body) : a[Len(pre) + i] = body[i]
        /\ \A i \in 1 .. Len(e) : a[Len(pre) + Len(body) + i] = e[i]
        /\ a[Len(a)] = last
    <3>1. a \in Seq(Msgs) /\ FourOf(a, pre, body, e, z)
      BY <1>z, <2>1, <2>e, FourParts
    <3> QED BY <1>z, <3>1 DEF FourOf
  <2>3. Len(pre) = Pre(call) /\ Len(body) = pl.n
    BY <1>1, <1>2
  <2>4. \A i \in 1 .. Pre(call) : a[i] = Msg(Preamble(call)[i], id, 0)
    BY <1>1, <2>2, <2>3, Zenon
  <2>5. \A i \in 1 .. pl.n : a[Pre(call) + i] = Msg(BodyIs(call), id, i)
    BY <1>2, <2>2, <2>3, Zenon
  <2>6. Len(a) = Pre(call) + pl.n + (IF pl.end = "fail" THEN 1 ELSE Post(call, pl)) + 1
    BY <1>6, <2>e, <2>2, <2>3, Zenon
  <2>7. pl.end = "fail" => a[Pre(call) + pl.n + 1] = Msg("ErrorResponse", id, 0)
    <3> SUFFICES ASSUME pl.end = "fail" PROVE a[Pre(call) + pl.n + 1] = Msg("ErrorResponse", id, 0)
      OBVIOUS
    <3>1. 1 \in 1 .. Len(e)
      BY <1>6, <2>e
    <3> QED BY <1>6, <2>e, <2>2, <2>3, <3>1, Zenon
  <2>8. pl.end \in {"ok", "more"} =>
          \A i \in 1 .. Post(call, pl) : a[Pre(call) + pl.n + i] = Epilogue(call, id, pl)[i]
    BY <1>6, <2>e, <2>2, <2>3
  <2>9. a \in Seq(Msgs) /\ a[Len(a)] = Msg("ReadyForQuery", id, 0)
    BY <2>2 DEF last
  <2> QED BY <1>6, <2>e, <2>4, <2>5, <2>6, <2>7, <2>8, <2>9, Zenon DEF Placed
<1> QED BY <1>5, <1>6

\* Where a place of an answer is.
LEMMA Section ==
  ASSUME NEW call \in Calls, NEW id \in Nat, NEW pl \in Plans(call), NEW a, Placed(a, call, id, pl),
         NEW i \in 1 .. Len(a)
  PROVE  \/ i = Len(a) /\ a[i].is = "ReadyForQuery" /\ a[i].of = id
         \/ pl.end = "reject" /\ i = 1 /\ i # Len(a) /\ a[i].is = "ErrorResponse" /\ a[i].of = id
         \/ pl.end = "fail" /\ i = Pre(call) + pl.n + 1 /\ i # Len(a) /\ a[i].is = "ErrorResponse" /\ a[i].of = id
         \/ /\ pl.end # "reject" /\ i \in 1 .. Pre(call) /\ i # Len(a)
            /\ a[i].is = Preamble(call)[i] /\ a[i].of = id
         \/ /\ pl.end # "reject" /\ i - Pre(call) \in 1 .. pl.n /\ i # Len(a)
            /\ a[i].is = BodyIs(call) /\ a[i].of = id /\ a[i].n = i - Pre(call)
         \/ /\ pl.end \in {"ok", "more"} /\ i - Pre(call) - pl.n \in 1 .. Post(call, pl) /\ i # Len(a)
            /\ a[i] = Epilogue(call, id, pl)[i - Pre(call) - pl.n] /\ a[i].of = id
<1>1. Placed(a, call, id, pl)
  OBVIOUS
<1>2. Pre(call) \in Nat /\ pl.n \in Nat /\ pl.end \in {"ok", "reject", "fail", "more"}
  BY PreIs, PlanIs
<1>0. Len(a) \in Nat /\ a[Len(a)] = Msg("ReadyForQuery", id, 0)
  BY <1>1 DEF Placed
<1>3. CASE i = Len(a)
  BY <1>0, <1>3 DEF Msg
<1>4. CASE pl.end = "reject" /\ i # Len(a)
  <2>1. Len(a) = 2 /\ a[1] = Msg("ErrorResponse", id, 0)
    BY <1>1, <1>4 DEF Placed
  <2>2. i = 1
    BY <1>4, <2>1
  <2> QED BY <1>4, <2>1, <2>2 DEF Msg
<1>5. CASE pl.end # "reject" /\ i # Len(a)
  <2>1. CASE i \in 1 .. Pre(call)
    <3>1. a[i] = Msg(Preamble(call)[i], id, 0)
      BY <1>1, <1>5, <2>1 DEF Placed
    <3> QED BY <1>5, <2>1, <3>1 DEF Msg
  <2>2. CASE i - Pre(call) \in 1 .. pl.n
    <3>1. a[Pre(call) + (i - Pre(call))] = Msg(BodyIs(call), id, i - Pre(call))
      BY <1>1, <1>5, <2>2 DEF Placed
    <3>2. Pre(call) + (i - Pre(call)) = i
      BY <1>2
    <3> QED BY <1>5, <2>2, <3>1, <3>2 DEF Msg
  <2>3. CASE pl.end = "fail" /\ i > Pre(call) + pl.n
    <3>1. i = Pre(call) + pl.n + 1
      BY <1>1, <1>2, <1>5, <2>3 DEF Placed
    <3> QED BY <1>1, <1>5, <2>3, <3>1 DEF Placed, Msg
  <2>4. CASE pl.end # "fail" /\ i > Pre(call) + pl.n
    <3>0. pl.end \in {"ok", "more"} /\ Post(call, pl) \in Nat
      BY <1>2, <1>5, <2>4, PostIs
    <3>1. i - Pre(call) - pl.n \in 1 .. Post(call, pl)
      BY <1>1, <1>2, <1>5, <2>4, <3>0 DEF Placed
    <3>2. Pre(call) + pl.n + (i - Pre(call) - pl.n) = i
      BY <1>2
    <3>3. a[i] = Epilogue(call, id, pl)[i - Pre(call) - pl.n]
      BY <1>1, <3>0, <3>1, <3>2 DEF Placed
    <3>4. a[i].of = id
      BY <3>0, <3>1, <3>3, PostIs
    <3> QED BY <1>5, <3>0, <3>1, <3>3, <3>4
  <2>5. i \in 1 .. Pre(call) \/ i - Pre(call) \in 1 .. pl.n \/ i > Pre(call) + pl.n
    BY <1>2
  <2> QED BY <2>1, <2>2, <2>3, <2>4, <2>5
<1> QED BY <1>3, <1>4, <1>5

\* Every message of an answer is a part of it and of no other; it is over with
\* its ReadyForQuery.
LEMMA AnswerParts ==
  ASSUME NEW call \in Calls, NEW id \in Nat, NEW pl \in Plans(call), NEW a, Placed(a, call, id, pl)
  PROVE  /\ a \in Seq(Msgs) /\ Len(a) \in Nat /\ Len(a) >= 1
         /\ \A i \in 1 .. Len(a) : a[i].of = id /\ Normal(a[i]) /\ (Ready(a[i]) <=> i = Len(a))
<1>1. Placed(a, call, id, pl) /\ Pre(call) \in Nat /\ pl.n \in Nat /\ pl.end \in {"ok", "reject", "fail", "more"}
  BY PreIs, PlanIs
<1>2. a \in Seq(Msgs) /\ Len(a) \in Nat /\ Len(a) >= 1
  <2>1. a \in Seq(Msgs) /\ Len(a) \in Nat
    BY <1>1 DEF Placed
  <2>2. pl.end \in {"ok", "more"} => Post(call, pl) \in Nat
    BY PostIs
  <2> QED BY <1>1, <2>1, <2>2 DEF Placed
<1>3. ASSUME NEW i \in 1 .. Len(a) PROVE a[i].of = id /\ Normal(a[i]) /\ (Ready(a[i]) <=> i = Len(a))
  <2>1. pl.end \in {"ok", "more"} => \A j \in 1 .. Post(call, pl) :
          Epilogue(call, id, pl)[j].is \in {"PortalSuspended", "CopyDone", "CommandComplete"}
    BY PostIs
  <2>2. \A j \in 1 .. Pre(call) : Preamble(call)[j] \notin Bodies \cup Waited
    BY PreIs
  <2>3. BodyIs(call) \in {"DataRow", "CopyData"}
    BY DEF BodyIs
  <2>4. /\ a[i].of = id
        /\ \/ i = Len(a) /\ a[i].is = "ReadyForQuery"
           \/ i # Len(a) /\ a[i].is \notin {"ReadyForQuery", "notification", "notice", "parameter"}
    BY <2>1, <2>2, <2>3, Section DEF Bodies, Waited
  <2> QED BY <2>4 DEF Normal, Ready
<1> QED BY <1>2, <1>3

\* No message comes twice in an answer.
LEMMA Distinct ==
  ASSUME NEW call \in Calls, NEW id \in Nat, NEW pl \in Plans(call), NEW a, Placed(a, call, id, pl),
         NEW i \in 1 .. Len(a), NEW j \in 1 .. Len(a), a[i] = a[j]
  PROVE  i = j
<1> DEFINE At(x) == \/ x = Len(a) /\ a[x].is = "ReadyForQuery"
                    \/ pl.end = "reject" /\ x = 1 /\ a[x].is = "ErrorResponse"
                    \/ pl.end = "fail" /\ x = Pre(call) + pl.n + 1 /\ a[x].is = "ErrorResponse"
                    \/ x \in 1 .. Pre(call) /\ a[x].is = Preamble(call)[x]
                    \/ a[x].is = BodyIs(call) /\ a[x].n = x - Pre(call)
                    \/ /\ pl.end \in {"ok", "more"} /\ x - Pre(call) - pl.n \in 1 .. Post(call, pl)
                       /\ a[x] = Epilogue(call, id, pl)[x - Pre(call) - pl.n]
<1>1. At(i) /\ At(j)
  BY Section
<1>2. Pre(call) \in Nat /\ pl.n \in Nat /\ BodyIs(call) \in {"DataRow", "CopyData"}
  BY PreIs, PlanIs DEF BodyIs
<1>3. /\ \A x \in 1 .. Pre(call) : Preamble(call)[x] \notin Bodies
      /\ \A x, y \in 1 .. Pre(call) : Preamble(call)[x] = Preamble(call)[y] => x = y
  BY PreIs
<1>4. pl.end \in {"ok", "more"} =>
        /\ \A x \in 1 .. Post(call, pl) : Epilogue(call, id, pl)[x].is \in {"PortalSuspended", "CopyDone", "CommandComplete"}
        /\ \A x, y \in 1 .. Post(call, pl) : Epilogue(call, id, pl)[x].is = Epilogue(call, id, pl)[y].is => x = y
  BY PostIs
<1>5. a[i] = a[j] /\ i \in Int /\ j \in Int
  OBVIOUS
<1>6. CASE a[i].is = "ReadyForQuery"
  BY <1>1, <1>2, <1>3, <1>4, <1>5, <1>6 DEF Bodies
<1>7. CASE a[i].is = "ErrorResponse"
  BY <1>1, <1>2, <1>3, <1>4, <1>5, <1>7 DEF Bodies
<1>8. CASE a[i].is = BodyIs(call)
  <2>1. a[i].n = i - Pre(call) /\ a[j].n = j - Pre(call)
    BY <1>1, <1>2, <1>3, <1>4, <1>5, <1>8 DEF Bodies
  <2> QED BY <1>2, <1>5, <2>1
<1>9. CASE a[i].is \in {"PortalSuspended", "CopyDone", "CommandComplete"}
  <2>1. ASSUME NEW x \in {i, j}
        PROVE  /\ pl.end \in {"ok", "more"} /\ x - Pre(call) - pl.n \in 1 .. Post(call, pl)
               /\ a[x] = Epilogue(call, id, pl)[x - Pre(call) - pl.n]
    BY <1>1, <1>2, <1>3, <1>5, <1>9 DEF Bodies
  <2>2. i - Pre(call) - pl.n = j - Pre(call) - pl.n
    BY <1>4, <1>5, <2>1
  <2> QED BY <1>2, <1>5, <2>2
<1>10. CASE a[i].is \notin Bodies
  <2>1. /\ i \in 1 .. Pre(call) /\ a[i].is = Preamble(call)[i]
        /\ j \in 1 .. Pre(call) /\ a[j].is = Preamble(call)[j]
    BY <1>1, <1>2, <1>4, <1>5, <1>10 DEF Bodies
  <2> QED BY <1>3, <1>5, <2>1
<1>11. CASE a[i].is \in {"DataRow", "CopyData"} /\ a[i].is # BodyIs(call)
  BY <1>1, <1>2, <1>3, <1>4, <1>5, <1>11 DEF Bodies
<1> QED BY <1>6, <1>7, <1>8, <1>9, <1>10, <1>11 DEF Bodies

-----------------------------------------------------------------------------
(***************************************************************************)
(* Types.                                                                  *)
(***************************************************************************)

\* The parts of a future.
LEMMA ReaderFields ==
  ASSUME NEW r \in Readers
  PROVE  /\ r.call \in Calls /\ r.pc \in Loops /\ r.items \in Seq(Msgs) /\ r.n \in Nat /\ r.res \in Results
         /\ \A res \in Results : [r EXCEPT !.res = res] \in Readers /\ [r EXCEPT !.res = res].call = r.call
                                 /\ [r EXCEPT !.res = res].res = res
         /\ \A pc \in Loops : [r EXCEPT !.pc = pc] \in Readers /\ [r EXCEPT !.pc = pc].call = r.call
         /\ \A n \in Nat : [r EXCEPT !.n = n] \in Readers /\ [r EXCEPT !.n = n].call = r.call
         /\ \A m \in Msgs : [r EXCEPT !.items = Append(@, m)] \in Readers
                            /\ [r EXCEPT !.items = Append(@, m)].call = r.call
<1>1. \A m \in Msgs : Append(r.items, m) \in Seq(Msgs)
  BY DEF Readers
<1> HIDE DEF Msgs
<1> QED BY <1>1 DEF Readers

\* Outcomes.
LEMMA ResultTypes ==
  /\ \A items \in Seq(Msgs) \cup Seq(Nat), n \in Nat : Result("ok", items, n, "") \in Results /\ Result("none", items, n, "") \in Results
  /\ \A why \in {"", "db", "closed", "unexpected", "row_count", "timeout"} : Result("err", <<>>, 0, why) \in Results
  /\ \A n \in Nat : Result("none", <<>>, n, "") \in Results /\ Result("ok", <<>>, n, "") \in Results
  /\ Pending \in Results
  /\ \A m \in Msgs : Result("ok", <<m>>, 0, "") \in Results
  /\ \A n \in Nat : Result("ok", <<n>>, 0, "") \in Results
<1>1. <<>> \in Seq(Msgs) /\ (\A m \in Msgs : <<m>> \in Seq(Msgs)) /\ \A n \in Nat : <<n>> \in Seq(Nat)
  OBVIOUS
<1> QED BY <1>1 DEF Results, Result, Pending

\* The readers stay readers, for the same call.
LEMMA OutcomeType ==
  ASSUME NEW r \in Readers
  PROVE  /\ Ok(r) \in Readers /\ Ok(r).call = r.call
         /\ \A why \in {"", "db", "closed", "unexpected", "row_count", "timeout"} : Err(r, why) \in Readers /\ Err(r, why).call = r.call
         /\ \A pc \in Loops : Goto(r, pc) \in Readers /\ Goto(r, pc).call = r.call
         /\ End(r) \in Readers /\ End(r).call = r.call
         /\ \A m \in Msgs : Item(r, m) \in Readers /\ Item(r, m).call = r.call
<1>1. Ok(r) \in Readers /\ Ok(r).call = r.call
  BY ReaderFields, ResultTypes DEF Ok
<1>2. \A why \in {"", "db", "closed", "unexpected", "row_count", "timeout"} : Err(r, why) \in Readers /\ Err(r, why).call = r.call
  BY ReaderFields, ResultTypes DEF Err
<1>3. \A pc \in Loops : Goto(r, pc) \in Readers /\ Goto(r, pc).call = r.call
  BY ReaderFields DEF Goto
<1>4. End(r) \in Readers /\ End(r).call = r.call
  <2>1. Result("none", <<>>, r.n, "") \in Results
    BY ReaderFields, ResultTypes
  <2> QED BY <1>1, <1>2, <2>1, ReaderFields DEF End
<1>5. \A m \in Msgs : Item(r, m) \in Readers /\ Item(r, m).call = r.call
  BY <1>2, ReaderFields, ResultTypes DEF Item
<1> QED BY <1>1, <1>2, <1>3, <1>4, <1>5

\* A future that reads a message is a future of the same call.
LEMMA PollType ==
  ASSUME NEW r \in Readers, NEW m \in Msgs
  PROVE  poll(r, m) \in Readers /\ poll(r, m).call = r.call
<1>1. /\ Ok(r) \in Readers /\ Ok(r).call = r.call
      /\ \A why \in {"", "db", "closed", "unexpected", "row_count", "timeout"} : Err(r, why) \in Readers /\ Err(r, why).call = r.call
      /\ \A pc \in Loops : Goto(r, pc) \in Readers /\ Goto(r, pc).call = r.call
      /\ End(r) \in Readers /\ End(r).call = r.call
      /\ Item(r, m) \in Readers /\ Item(r, m).call = r.call
  BY OutcomeType
<1>2. \A pc \in Loops : /\ Ok(Goto(r, pc)) \in Readers /\ Ok(Goto(r, pc)).call = r.call
                        /\ Item(Goto(r, pc), m) \in Readers /\ Item(Goto(r, pc), m).call = r.call
  <2> SUFFICES ASSUME NEW pc \in Loops
               PROVE  /\ Ok(Goto(r, pc)) \in Readers /\ Ok(Goto(r, pc)).call = r.call
                      /\ Item(Goto(r, pc), m) \in Readers /\ Item(Goto(r, pc), m).call = r.call
    OBVIOUS
  <2>1. Goto(r, pc) \in Readers /\ Goto(r, pc).call = r.call
    BY <1>1
  <2> QED BY <2>1, OutcomeType
<1>3. \A n \in Nat : [r EXCEPT !.n = n] \in Readers /\ [r EXCEPT !.n = n].call = r.call
  BY ReaderFields
<1>4. m.n \in Nat /\ 0 \in Nat /\ {"rows", "copy_start", "count", "copy", "simple_rows"} \subseteq Loops
  BY DEF Msgs, Loops
<1>5. start(r, m) \in Readers /\ start(r, m).call = r.call
  BY <1>1, <1>2, <1>4 DEF start
<1>6. copy_start(r, m) \in Readers /\ copy_start(r, m).call = r.call
  BY <1>1, <1>2, <1>4 DEF copy_start
<1>7. count(r, m) \in Readers /\ count(r, m).call = r.call
  <2>1. count(r, m) \in {r, [r EXCEPT !.n = 0], [r EXCEPT !.n = m.n], Ok(r), Err(r, "unexpected")}
    BY DEF count
  <2> QED BY <1>1, <1>3, <1>4, <2>1
<1>8. typed(r, m) \in Readers /\ typed(r, m).call = r.call
  BY <1>1, <1>4 DEF typed
<1>9. rows(r, m) \in Readers /\ rows(r, m).call = r.call
  BY <1>1, <1>3, <1>4 DEF rows
<1>10. simple(r, m) \in Readers /\ simple(r, m).call = r.call
  BY <1>1, <1>2, <1>4 DEF simple
<1>11. batch_execute(r, m) \in Readers /\ batch_execute(r, m).call = r.call
  BY <1>1 DEF batch_execute
<1>12. copy(r, m) \in Readers /\ copy(r, m).call = r.call
  BY <1>1 DEF copy
<1>13. sync(r, m) \in Readers /\ sync(r, m).call = r.call
  BY <1>1 DEF sync
<1> QED BY <1>1, <1>5, <1>6, <1>7, <1>8, <1>9, <1>10, <1>11, <1>12, <1>13 DEF poll

\* A call that begins.
LEMMA StartType ==
  /\ \A call \in Calls : Reader(call) \in Readers /\ Reader(call).call = call /\ Reader(call).res = Pending
  /\ NoIter \in Readers /\ NoIter.res = Pending /\ NoIter.call = "none"
  /\ Idle \in Ops /\ Idle.call = "idle" /\ Idle.id = 0
  /\ Idle.r.res = Pending /\ ~Idle.timer
<1>1. ASSUME NEW call \in Calls PROVE Reader(call) \in Readers /\ Reader(call).call = call /\ Reader(call).res = Pending
  <2>1. First(call) \in Loops
    BY DEF First, Loops
  <2>2. Pending \in Results
    BY ResultTypes
  <2>3. <<>> \in Seq(Msgs)
    OBVIOUS
  <2> HIDE DEF Msgs
  <2> QED BY <2>1, <2>2, <2>3 DEF Reader, Readers
<1>2. "none" \in Calls /\ "idle" \in Calls
  BY DEF Calls
<1> QED BY <1>1, <1>2 DEF NoIter, Idle, Blocked, Ops

\* What a future makes of the channel: the three cases of Polled.
Closes(c, id) == \A i \in DOMAIN c.responses : c.responses[i] # id

Ended(r, c, id) == IF r.res = Pending /\ Closes(c, id) THEN Err(r, "closed") ELSE r

\* One poll of the future takes the messages the channel holds.
LEMMA PolledIs ==
  ASSUME NEW r, NEW c, NEW id, Len(c.chan) \in Nat
  PROVE  /\ Len(c.chan) = 0 => Polled(r, c, id) = [r |-> Ended(r, c, id), chan |-> <<>>]
         /\ r.res = Pending /\ Len(c.chan) = 1 =>
              Polled(r, c, id) = [r |-> Ended(poll(r, c.chan[1]), c, id), chan |-> <<>>]
         /\ r.res = Pending /\ Len(c.chan) > 1 /\ poll(r, c.chan[1]).res = Pending =>
              Polled(r, c, id) = [r |-> Ended(poll(poll(r, c.chan[1]), c.chan[2]), c, id), chan |-> <<>>]
         /\ r.res = Pending /\ Len(c.chan) > 1 /\ poll(r, c.chan[1]).res # Pending =>
              Polled(r, c, id) = [r |-> poll(r, c.chan[1]), chan |-> <<c.chan[2]>>]
<1> DEFINE none == [r |-> r, chan |-> <<>>]
           one  == read(none, c.chan[1])
           two  == read(one, c.chan[2])
           a    == CASE Len(c.chan) = 0 -> none
                     [] Len(c.chan) = 1 -> one
                     [] OTHER -> two
<1>1. Polled(r, c, id) = IF a.r.res = Pending /\ \A i \in DOMAIN c.responses : c.responses[i] # id
                         THEN [a EXCEPT !.r = Err(@, "closed")] ELSE a
  BY DEF Polled
<1>2. \A x, y : LET b == [r |-> x, chan |-> y] IN
        (IF b.r.res = Pending /\ \A i \in DOMAIN c.responses : c.responses[i] # id
         THEN [b EXCEPT !.r = Err(@, "closed")] ELSE b) = [r |-> Ended(x, c, id), chan |-> y]
  BY DEF Ended, Closes
<1>3. CASE Len(c.chan) = 0
  <2>1. a = none
    BY <1>3
  <2> QED BY <1>1, <1>2, <1>3, <2>1
<1>4. r.res = Pending => one = [r |-> poll(r, c.chan[1]), chan |-> <<>>]
  BY DEF read
<1>5. CASE r.res = Pending /\ Len(c.chan) = 1
  <2>1. a = [r |-> poll(r, c.chan[1]), chan |-> <<>>]
    BY <1>4, <1>5
  <2> QED BY <1>1, <1>2, <1>5, <2>1
<1>6. CASE r.res = Pending /\ Len(c.chan) > 1 /\ poll(r, c.chan[1]).res = Pending
  <2>1. two = [r |-> poll(poll(r, c.chan[1]), c.chan[2]), chan |-> <<>>]
    BY <1>4, <1>6 DEF read
  <2>2. a = two
    BY <1>6
  <2> HIDE DEF a, two
  <2> QED BY <1>1, <1>2, <1>6, <2>1, <2>2
<1>7. CASE r.res = Pending /\ Len(c.chan) > 1 /\ poll(r, c.chan[1]).res # Pending
  <2>1. two = [r |-> poll(r, c.chan[1]), chan |-> Append(<<>>, c.chan[2])]
    BY <1>4, <1>7 DEF read
  <2>2. a = two /\ Append(<<>>, c.chan[2]) = <<c.chan[2]>>
    BY <1>7
  <2>3. Ended(poll(r, c.chan[1]), c, id) = poll(r, c.chan[1])
    BY <1>7 DEF Ended
  <2> HIDE DEF a, two
  <2> QED BY <1>1, <1>2, <1>7, <2>1, <2>2, <2>3
<1> QED BY <1>3, <1>5, <1>6, <1>7

LEMMA PolledType ==
  ASSUME NEW r \in Readers, NEW c, c.chan \in Seq(Msgs), NEW id, r.res = Pending
  PROVE  /\ Polled(r, c, id).r \in Readers /\ Polled(r, c, id).r.call = r.call
         /\ Polled(r, c, id).chan \in Seq(Msgs)
<1>1. \A x \in Readers : Ended(x, c, id) \in Readers /\ Ended(x, c, id).call = x.call
  BY OutcomeType DEF Ended
<1>2. Len(c.chan) \in Nat /\ (Len(c.chan) >= 1 => c.chan[1] \in Msgs)
      /\ (Len(c.chan) > 1 => c.chan[2] \in Msgs /\ <<c.chan[2]>> \in Seq(Msgs)) /\ <<>> \in Seq(Msgs)
  OBVIOUS
<1>3. CASE Len(c.chan) = 0
  <2>1. Polled(r, c, id) = [r |-> Ended(r, c, id), chan |-> <<>>]
    BY <1>2, <1>3, PolledIs
  <2> QED BY <1>1, <1>2, <2>1
<1>4. CASE Len(c.chan) = 1
  <2>1. Polled(r, c, id) = [r |-> Ended(poll(r, c.chan[1]), c, id), chan |-> <<>>]
    BY <1>2, <1>4, PolledIs
  <2> QED BY <1>1, <1>2, <1>4, <2>1, PollType
<1>5. CASE Len(c.chan) > 1
  <2>1. poll(r, c.chan[1]) \in Readers /\ poll(r, c.chan[1]).call = r.call
    BY <1>2, <1>5, PollType
  <2>2. CASE poll(r, c.chan[1]).res = Pending
    <3>1. Polled(r, c, id) = [r |-> Ended(poll(poll(r, c.chan[1]), c.chan[2]), c, id), chan |-> <<>>]
      BY <1>2, <1>5, <2>2, PolledIs
    <3>2. poll(poll(r, c.chan[1]), c.chan[2]) \in Readers /\ poll(poll(r, c.chan[1]), c.chan[2]).call = r.call
      BY <1>2, <1>5, <2>1, PollType
    <3> QED BY <1>1, <1>2, <3>1, <3>2
  <2>3. CASE poll(r, c.chan[1]).res # Pending
    <3>1. Polled(r, c, id) = [r |-> poll(r, c.chan[1]), chan |-> <<c.chan[2]>>]
      BY <1>2, <1>5, <2>3, PolledIs
    <3> QED BY <1>2, <1>5, <2>1, <3>1
  <2> QED BY <2>2, <2>3
<1>6. Len(c.chan) = 0 \/ Len(c.chan) = 1 \/ Len(c.chan) > 1
  <2>1. \A n \in Nat : n = 0 \/ n = 1 \/ n > 1
    OBVIOUS
  <2> QED BY <1>2, <2>1, Zenon
<1> QED BY <1>3, <1>4, <1>5, <1>6

-----------------------------------------------------------------------------
(***************************************************************************)
(* What the operations of the Connection make of it.                       *)
(***************************************************************************)

\* It writes every request, and Terminate when there is nothing left to do.
Terminates(c) == c.closed /\ c.responses = <<>> /\ c.reqs = <<>> /\ ~c.closing

Terminate == [id |-> 0, call |-> "terminate"]

\* What poll_write, its peer, InnerClient::send and route do to their records.
LEMMA OutgoingIs ==
  ASSUME NEW c \in Conns
  PROVE  /\ Outgoing(c) \in Seq(Asked) /\ Len(c.reqs) \in Nat /\ Len(c.responses) \in Nat
         /\ Terminates(c) => Outgoing(c) = <<Terminate>>
         /\ ~Terminates(c) => Outgoing(c) = c.reqs
<1>1. c.reqs \in Seq(Asked) /\ c.responses \in Seq(Nat) /\ <<Terminate>> \in Seq(Asked) /\ <<>> \in Seq(Asked)
  BY DEF Conns, Asked, Terminate
<1>2. c.responses \o c.reqs = <<>> <=> c.responses = <<>> /\ c.reqs = <<>>
  BY <1>1
<1>3. Outgoing(c) = c.reqs \o IF Terminates(c) THEN <<Terminate>> ELSE <<>>
  BY <1>2 DEF Outgoing, Terminates, Terminate
<1>4. CASE Terminates(c)
  <2>1. c.reqs = <<>>
    BY <1>4 DEF Terminates
  <2>2. <<>> \o <<Terminate>> = <<Terminate>>
    BY <1>1
  <2> QED BY <1>1, <1>3, <1>4, <2>1, <2>2
<1>5. CASE ~Terminates(c)
  <2>1. c.reqs \o <<>> = c.reqs
    BY <1>1
  <2> QED BY <1>1, <1>3, <1>5, <2>1
<1> QED BY <1>4, <1>5

LEMMA WriteIs ==
  ASSUME NEW c \in Conns
  PROVE  /\ poll_write(c) \in Conns /\ poll_write(c).reqs = <<>>
         /\ poll_write(c).chan = c.chan /\ poll_write(c).notifications = c.notifications
         /\ poll_write(c).closed = c.closed /\ (poll_write(c).closing <=> c.closing \/ Terminates(c))
         /\ Len(poll_write(c).responses) = Len(c.responses) + Len(c.reqs)
         /\ \A i \in 1 .. Len(c.responses) : poll_write(c).responses[i] = c.responses[i]
         /\ \A i \in 1 .. Len(c.reqs) : poll_write(c).responses[Len(c.responses) + i] = c.reqs[i].id
<1> DEFINE ids == [i \in DOMAIN c.reqs |-> c.reqs[i].id]
           w == poll_write(c)
<1>1. c.reqs \in Seq(Asked) /\ c.responses \in Seq(Nat) /\ c.closing \in BOOLEAN /\ c.closed \in BOOLEAN
  BY DEF Conns
<1>2. ids \in Seq(Nat) /\ Len(ids) = Len(c.reqs) /\ \A i \in 1 .. Len(c.reqs) : ids[i] = c.reqs[i].id
  <2>1. DOMAIN c.reqs = 1 .. Len(c.reqs) /\ Len(c.reqs) \in Nat /\ \A i \in 1 .. Len(c.reqs) : c.reqs[i] \in Asked
    BY <1>1
  <2>2. \A i \in 1 .. Len(c.reqs) : c.reqs[i].id \in Nat
    BY <2>1 DEF Asked
  <2>3. ids \in [1 .. Len(c.reqs) -> Nat]
    BY <2>1, <2>2
  <2> QED BY <2>1, <2>3
<1>3. c.responses \o c.reqs = <<>> <=> c.responses = <<>> /\ c.reqs = <<>>
  BY <1>1
<1>4. w = [c EXCEPT !.reqs = <<>>, !.responses = Joined(@, ids),
                    !.closing = @ \/ (c.closed /\ c.responses \o c.reqs = <<>>)]
  BY DEF poll_write, Joined
<1> HIDE DEF w, ids
<1>5. Joined(c.responses, ids) \in Seq(Nat) /\ Parts(Joined(c.responses, ids), c.responses, ids)
  BY <1>1, <1>2, TwoParts
<1>6. /\ w.reqs = <<>> /\ w.responses = Joined(c.responses, ids) /\ w.chan = c.chan
      /\ w.notifications = c.notifications /\ w.closed = c.closed
      /\ w.closing = (c.closing \/ (c.closed /\ c.responses \o c.reqs = <<>>))
  BY <1>4 DEF Conns
<1>7. w \in Conns
  <2>1. (c.closing \/ (c.closed /\ c.responses \o c.reqs = <<>>)) \in BOOLEAN /\ <<>> \in Seq(Asked)
    BY <1>1
  <2> QED BY <1>4, <1>5, <2>1 DEF Conns
<1>8. w.closing <=> c.closing \/ Terminates(c)
  BY <1>3, <1>6 DEF Terminates
<1>9. /\ Len(w.responses) = Len(c.responses) + Len(c.reqs)
      /\ \A i \in 1 .. Len(c.responses) : w.responses[i] = c.responses[i]
      /\ \A i \in 1 .. Len(c.reqs) : w.responses[Len(c.responses) + i] = c.reqs[i].id
  BY <1>2, <1>5, <1>6 DEF Parts
<1> QED BY <1>6, <1>7, <1>8, <1>9 DEF w

LEMMA WrittenIs ==
  ASSUME NEW c \in Conns, server \in Sessions
  PROVE  /\ Written(c) \in Sessions /\ Written(c).stream = server.stream
         /\ Written(c).tx = server.tx /\ Written(c).up = server.up
         /\ server.up # "up" => Written(c) = server
         /\ server.up = "up" => Parts(Written(c).queue, server.queue, Outgoing(c))
<1>1. server.queue \in Seq(Asked) /\ Outgoing(c) \in Seq(Asked)
  BY OutgoingIs DEF Sessions
<1>2. CASE server.up = "up"
  <2>1. Written(c) = [server EXCEPT !.queue = Joined(@, Outgoing(c))]
    BY <1>2 DEF Written, Joined
  <2>2. Joined(server.queue, Outgoing(c)) \in Seq(Asked) /\ Parts(Joined(server.queue, Outgoing(c)), server.queue, Outgoing(c))
    BY <1>1, TwoParts
  <2> QED BY <1>2, <2>1, <2>2 DEF Sessions
<1>3. CASE server.up # "up"
  <2>1. server.queue \o <<>> = server.queue
    BY <1>1
  <2>2. Written(c) = server
    BY <1>3, <2>1 DEF Written, Sessions
  <2> QED BY <1>3, <2>2
<1> QED BY <1>2, <1>3

LEMMA SendIs ==
  ASSUME NEW c \in Conns, NEW call \in Calls, nextId \in Nat
  PROVE  /\ send(c, call) \in Conns /\ send(c, call).responses = c.responses /\ send(c, call).chan = c.chan
         /\ send(c, call).notifications = c.notifications /\ send(c, call).closed = c.closed
         /\ send(c, call).closing = c.closing
         /\ c.closed => send(c, call) = c
         /\ ~c.closed => send(c, call).reqs = Append(c.reqs, [id |-> nextId, call |-> call])
<1>1. [id |-> nextId, call |-> call] \in Asked
  BY DEF Asked
<1>2. Append(c.reqs, [id |-> nextId, call |-> call]) \in Seq(Asked)
  BY <1>1 DEF Conns
<1> QED BY <1>2 DEF send, Conns

LEMMA RouteIs ==
  ASSUME conn \in Conns, NEW m \in Msgs, conn.responses # <<>>
  PROVE  /\ route(conn, m) \in Conns /\ route(conn, m).reqs = conn.reqs
         /\ route(conn, m).notifications = conn.notifications /\ route(conn, m).closed = conn.closed
         /\ route(conn, m).closing = conn.closing
         /\ route(conn, m).chan = IF HungUp THEN conn.chan ELSE Append(conn.chan, m)
         /\ route(conn, m).responses = IF Ready(m) THEN Tail(conn.responses) ELSE conn.responses
<1>1. Append(conn.chan, m) \in Seq(Msgs) /\ Tail(conn.responses) \in Seq(Nat)
  BY DEF Conns
<1> QED BY <1>1 DEF route, Conns, Ready

-----------------------------------------------------------------------------
(***************************************************************************)
(* TypeOK.                                                                 *)
(***************************************************************************)
Whys == {"", "db", "closed", "unexpected", "row_count", "timeout"}

\* The empty sequence, of whatever.
LEMMA Empty == \A S : <<>> \in Seq(S)
OBVIOUS

LEMMA TypeInit == Init => TypeOK
<1> SUFFICES ASSUME Init PROVE TypeOK
  OBVIOUS
<1>1. op \in Ops
  BY StartType DEF Init
<1>2. handle \in Handles
  <2>1. PICK tx \in BOOLEAN : handle = [client |-> TRUE, tx |-> tx, portal |-> FALSE, iter |-> NoIter, given |-> 0, delay |-> "none"]
    BY DEF Init
  <2> QED BY <2>1, StartType DEF Handles
<1>3. conn \in Conns
  BY DEF Init, Conns
<1>4. server \in Sessions
  <2>1. handle.tx \in BOOLEAN
    BY <1>2 DEF Handles
  <2> QED BY <2>1 DEF Init, Sessions
<1>5. plan \in [n : Nat, end : Ends]
  BY DEF Init, NoPlan, Ends
<1> QED BY <1>1, <1>2, <1>3, <1>4, <1>5 DEF Init, TypeOK

LEMMA FailTypes ==
  ASSUME TypeOK, NEW why \in Whys, Fail(why)
  PROVE  op' \in Ops /\ conn' \in Conns /\ server' \in Sessions /\ live' \in Nat /\ taken' \in Nat
<1>1. op.r \in Readers
  BY DEF TypeOK, Ops
<1>2. Err(op.r, why) \in Readers
  BY <1>1, OutcomeType DEF Whys
<1>3. op' \in Ops
  BY <1>2 DEF TypeOK, Ops, Fail
<1>4. conn' \in Conns
  <2> HIDE DEF Msgs
  <2> QED BY Empty DEF TypeOK, Conns, Fail
<1> QED BY <1>3, <1>4 DEF TypeOK, Fail

\* Every step keeps the types.
LEMMA TypePollRead == TypeOK /\ PollRead => TypeOK'
<1> SUFFICES ASSUME TypeOK, PollRead PROVE TypeOK'
  OBVIOUS
<1> DEFINE m == Head(inbox)
<1>1. inbox \in Seq(Msgs) /\ inbox # <<>>
  BY DEF TypeOK, PollRead
<1>2. m \in Msgs /\ Tail(inbox) \in Seq(Msgs)
  BY <1>1, TailIs
<1>3. UNCHANGED <<handle, plan, nextId, async, told>> /\ inbox' = Tail(inbox)
  BY DEF PollRead
<1> HIDE DEF m
<1>4. ASSUME op' \in Ops, conn' \in Conns, server' \in Sessions, live' \in Nat, taken' \in Nat
      PROVE  TypeOK'
  BY <1>2, <1>3, <1>4 DEF TypeOK
<1>5. CASE m.is \in {"notification", "notice"} /\ UNCHANGED <<op, live, taken>>
           /\ LET c == IF m.is = "notice" THEN conn
                       ELSE [conn EXCEPT !.notifications = push_back(@, m.n)]
              IN  conn' = poll_write(c) /\ server' = Written(c)
  <2> DEFINE c == IF m.is = "notice" THEN conn ELSE [conn EXCEPT !.notifications = push_back(@, m.n)]
  <2>1. push_back(conn.notifications, m.n) \in Seq(Nat)
    BY <1>2 DEF TypeOK, Conns, Msgs, push_back
  <2>2. c \in Conns
    BY <2>1 DEF TypeOK, Conns
  <2>3. conn' = poll_write(c) /\ server' = Written(c)
    BY <1>5
  <2> HIDE DEF c
  <2>4. conn' \in Conns /\ server' \in Sessions
    BY <2>2, <2>3, WriteIs, WrittenIs DEF TypeOK
  <2> QED BY <1>4, <1>5, <2>4 DEF TypeOK
<1>6. CASE m.is = "parameter" /\ UNCHANGED <<op, live, conn, server, taken>>
  BY <1>4, <1>6 DEF TypeOK
<1>7. CASE Normal(m) /\ conn.responses # <<>> /\ conn' = route(conn, m) /\ UNCHANGED <<op, live, server, taken>>
  <2>1. conn' \in Conns
    BY <1>2, <1>7, RouteIs DEF TypeOK
  <2> QED BY <1>4, <1>7, <2>1 DEF TypeOK
<1>8. CASE Fail(IF m.is = "ErrorResponse" THEN "db" ELSE "unexpected")
  BY <1>4, <1>8, FailTypes DEF Whys
<1> QED BY <1>5, <1>6, <1>7, <1>8 DEF PollRead, m

\* The calls there are.
LEMMA CallTypes ==
  /\ Requests \subseteq Calls /\ NotificationIters \subseteq Calls /\ Bound \subseteq Requests
  /\ {"close", "drop_client", "next", "idle", "none", "close_portal"} \subseteq Calls
  /\ Streams \subseteq Requests
  /\ \A call \in Requests : call \notin NotificationIters \cup {"close", "drop_client", "next", "idle", "none", "close_portal", "terminate"}
BY DEF Calls, Requests, Bound, Streams, NotificationIters

LEMMA TypePollFuture == TypeOK /\ PollFuture => TypeOK'
<1> SUFFICES ASSUME TypeOK, PollFuture PROVE TypeOK'
  OBVIOUS
<1>1. UNCHANGED <<inbox, async, told>> /\ ~Returned
  BY DEF PollFuture
<1>0. op.r \in Readers /\ op.r.res = Pending /\ op.call \in Calls /\ conn \in Conns
  BY <1>1 DEF TypeOK, Ops, Returned
<1>2. CASE Fail("closed") /\ UNCHANGED <<plan, nextId, handle>>
  BY <1>1, <1>2, FailTypes DEF TypeOK, Whys
<1>3. CASE server' = Written(conn)
           /\ \E c \in {poll_write(conn)} : SendRequest(c) \/ ReadAnswer(c) \/ PopNotification(c) \/ AwaitDone(c)
  <2> DEFINE c == poll_write(conn)
  <2>1. server' \in Sessions /\ c \in Conns
    BY <1>0, <1>3, WriteIs, WrittenIs DEF TypeOK
  <2>2. SendRequest(c) \/ ReadAnswer(c) \/ PopNotification(c) \/ AwaitDone(c)
    BY <1>3
  <2> HIDE DEF c
  <2>e. \A why \in Whys : Err(op.r, why) \in Readers /\ [op EXCEPT !.r = Err(@, why)] \in Ops
    <3>1. \A why \in Whys : Err(op.r, why) \in Readers
      BY <1>0, OutcomeType DEF Whys
    <3> QED BY <3>1 DEF TypeOK, Ops
  <2>3. CASE SendRequest(c)
    <3>1. CASE Closed(c)
      BY <1>1, <2>1, <2>e, <3>1 DEF Closed, TypeOK, Whys
    <3>2. CASE op' = [op EXCEPT !.id = nextId] /\ conn' = send(c, op.call)
               /\ live' = nextId /\ nextId' = nextId + 1 /\ plan' = NoPlan
               /\ UNCHANGED <<taken, handle>>
      <4>1. conn' \in Conns
        BY <1>0, <2>1, <3>2, SendIs DEF TypeOK
      <4>2. op' \in Ops
        BY <3>2 DEF TypeOK, Ops
      <4>3. plan' \in [n : Nat, end : Ends]
        BY <3>2 DEF NoPlan, Ends
      <4> QED BY <1>1, <2>1, <3>2, <4>1, <4>2, <4>3 DEF TypeOK
    <3> QED BY <2>3, <3>1, <3>2 DEF SendRequest
  <2>4. CASE ReadAnswer(c)
    <3>1. PICK p \in {Polled(op.r, c, live)} :
             Return(IF op.timer /\ p.r.res = Pending THEN Err(p.r, "timeout") ELSE p.r, c, p.chan)
      BY <2>4 DEF ReadAnswer
    <3>2. p.r \in Readers /\ p.chan \in Seq(Msgs)
      BY <1>0, <2>1, <3>1, PolledType DEF Conns
    <3> DEFINE r == IF op.timer /\ p.r.res = Pending THEN Err(p.r, "timeout") ELSE p.r
    <3>3. r \in Readers
      BY <3>2, OutcomeType
    <3>4. Return(r, c, p.chan)
      BY <3>1
    <3> HIDE DEF r
    <3>5. op' \in Ops
      BY <3>3, <3>4 DEF TypeOK, Ops, Return
    <3>6. PICK d : d \in Conns /\ (conn' = d \/ conn' = send(d, "rollback"))
      <4>1. [c EXCEPT !.chan = <<>>] \in Conns /\ [c EXCEPT !.chan = p.chan] \in Conns
        <5>1. <<>> \in Seq(Msgs)
          BY Empty
        <5> HIDE DEF Msgs
        <5> QED BY <2>1, <3>2, <5>1 DEF Conns
      <4>2. \E d \in {[c EXCEPT !.chan = <<>>], [c EXCEPT !.chan = p.chan]} : conn' = d \/ conn' = send(d, "rollback")
        BY <3>4 DEF Return
      <4> QED BY <4>1, <4>2
    <3>7. conn' \in Conns
      BY <3>6, CallTypes, SendIs DEF TypeOK, Requests
    <3>8. nextId' \in Nat \ {0} /\ live' \in Nat /\ UNCHANGED <<plan, taken, handle>>
      BY <3>4 DEF Return, TypeOK
    <3> QED BY <1>1, <2>1, <3>5, <3>7, <3>8 DEF TypeOK
  <2>5. CASE PopNotification(c)
    <3>0. UNCHANGED <<live, plan, nextId>>
      BY <2>5 DEF PopNotification
    <3>1. CASE c.notifications # <<>>
      <4>1. Head(c.notifications) \in Nat /\ Tail(c.notifications) \in Seq(Nat)
        BY <2>1, <3>1, TailIs DEF Conns
      <4>2. /\ op' = [op EXCEPT !.r.res = Result("ok", <<Head(c.notifications)>>, 0, "")]
            /\ conn' = [c EXCEPT !.notifications = Tail(@)]
            /\ taken' = taken + 1
            /\ handle' = [handle EXCEPT !.delay = IF op.call = "timeout_iter" THEN "armed" ELSE @]
        BY <2>5, <3>1 DEF PopNotification
      <4>3. [op.r EXCEPT !.res = Result("ok", <<Head(c.notifications)>>, 0, "")] \in Readers
        BY <1>0, <4>1, ReaderFields, ResultTypes
      <4>4. op' \in Ops
        BY <4>2, <4>3 DEF TypeOK, Ops
      <4>5. conn' \in Conns
        BY <2>1, <4>1, <4>2 DEF Conns
      <4>6. handle' \in Handles
        BY <4>2 DEF TypeOK, Handles
      <4>7. taken' \in Nat
        <5>1. taken' = taken + 1 /\ taken \in Nat
          BY <4>2, Zenon DEF TypeOK
        <5> QED BY <5>1
      <4>8. /\ live' \in Nat /\ inbox' \in Seq(Msgs) /\ plan' \in [n : Nat, end : Ends]
            /\ nextId' \in Nat \ {0} /\ async' \in Nat /\ told' \in Nat
        BY <1>1, <3>0 DEF TypeOK
      <4> QED BY <2>1, <4>4, <4>5, <4>6, <4>7, <4>8, Zenon DEF TypeOK
    <3>2. CASE c.notifications = <<>>
      <4>1. /\ op' \in {[op EXCEPT !.r.res = Result("none", <<>>, 0, "")], op}
            /\ conn' = c /\ UNCHANGED <<taken, handle>>
        BY <2>5, <3>2 DEF PopNotification
      <4>2. [op.r EXCEPT !.res = Result("none", <<>>, 0, "")] \in Readers
        BY <1>0, ReaderFields, ResultTypes
      <4>3. op' \in Ops
        BY <4>1, <4>2 DEF TypeOK, Ops
      <4> QED BY <1>1, <2>1, <3>0, <4>1, <4>3 DEF TypeOK
    <3> QED BY <3>1, <3>2
  <2>6. CASE AwaitDone(c)
    <3>1. [op EXCEPT !.r = Ok(@)] \in Ops
      BY <1>0, OutcomeType DEF TypeOK, Ops
    <3> QED BY <1>1, <2>1, <2>6, <3>1 DEF AwaitDone, TypeOK
  <2> QED BY <2>2, <2>3, <2>4, <2>5, <2>6
<1> QED BY <1>2, <1>3 DEF PollFuture

\* A call begins.
LEMMA BlockedType ==
  ASSUME NEW call \in Calls
  PROVE  /\ Blocked(call, Reader(call), 0) \in Ops
         /\ \A r \in Readers, id \in Nat : Blocked(call, r, id) \in Ops
BY StartType DEF Blocked, Ops

LEMMA TypeApplication == TypeOK /\ Application => TypeOK'
<1> SUFFICES ASSUME TypeOK, Application PROVE TypeOK'
  OBVIOUS
<1>0. \A call \in Calls : Start(call) => op' \in Ops
  BY BlockedType DEF Start
<1>1. CASE Call
  <2>1. op' \in Ops
    BY <1>0, <1>1, CallTypes DEF Call, Requests, Bound
  <2> QED BY <1>1, <2>1 DEF Call, TypeOK
<1>2. CASE CallClient
  <2>1. op' \in Ops
    BY <1>0, <1>2, CallTypes DEF CallClient, Requests
  <2> QED BY <1>2, <2>1 DEF CallClient, TypeOK
<1>3. CASE CallTransaction
  <2>1. op' \in Ops
    BY <1>0, <1>3, CallTypes DEF CallTransaction, Requests, Bound
  <2> QED BY <1>3, <2>1 DEF CallTransaction, TypeOK
<1>4. CASE EndTransaction
  <2>1. op' \in Ops
    BY <1>0, <1>4, CallTypes DEF EndTransaction, Requests
  <2>2. handle' \in Handles
    BY <1>4 DEF EndTransaction, TypeOK, Handles
  <2> QED BY <1>4, <2>1, <2>2 DEF EndTransaction, TypeOK
<1>5. CASE DropPortal
  <2>1. handle' \in Handles
    BY <1>5 DEF DropPortal, TypeOK, Handles
  <2>2. conn' \in Conns
    BY <1>5, CallTypes, SendIs DEF DropPortal, TypeOK
  <2> QED BY <1>5, <2>1, <2>2 DEF DropPortal, TypeOK
<1>6. CASE NextItem
  <2>1. op' \in Ops
    BY <1>6, CallTypes, BlockedType DEF NextItem, TypeOK, Handles
  <2> QED BY <1>6, <2>1 DEF NextItem, TypeOK
<1>7. CASE DropIter
  <2>1. handle' \in Handles
    BY <1>7, StartType DEF DropIter, TypeOK, Handles
  <2>2. conn' \in Conns
    <3>1. <<>> \in Seq(Msgs)
      BY Empty
    <3> QED BY <1>7, <3>1 DEF DropIter, TypeOK, Conns
  <2>3. plan' \in [n : Nat, end : Ends]
    BY <1>7 DEF DropIter, NoPlan, Ends
  <2> QED BY <1>7, <2>1, <2>2, <2>3 DEF DropIter, TypeOK
<1>8. CASE NextNotification
  <2>0. UNCHANGED <<live, inbox, server, plan, nextId, async, told>>
    BY <1>8 DEF NextNotification
  <2>1. PICK call \in NotificationIters :
          LET r == Result("ok", <<Head(conn.notifications)>>, 0, "") IN
          IF conn.notifications # <<>>
          THEN /\ op' = Blocked(call, [Reader(call) EXCEPT !.res = r], 0)
               /\ conn' = [conn EXCEPT !.notifications = Tail(@)]
               /\ taken' = taken + 1
               /\ handle' = [handle EXCEPT !.delay = IF call = "timeout_iter" THEN "armed" ELSE @]
          ELSE /\ Start(call) /\ UNCHANGED <<conn, taken, handle>>
    BY <1>8 DEF NextNotification
  <2>2. call \in Calls
    BY CallTypes
  <2>3. CASE conn.notifications # <<>>
    <3> DEFINE r == Result("ok", <<Head(conn.notifications)>>, 0, "")
    <3>1. /\ op' = Blocked(call, [Reader(call) EXCEPT !.res = r], 0)
          /\ conn' = [conn EXCEPT !.notifications = Tail(@)]
          /\ taken' = taken + 1
          /\ handle' = [handle EXCEPT !.delay = IF call = "timeout_iter" THEN "armed" ELSE @]
      BY <2>1, <2>3
    <3>2. Head(conn.notifications) \in Nat /\ Tail(conn.notifications) \in Seq(Nat)
      BY <2>3, TailIs DEF TypeOK, Conns
    <3>3. r \in Results
      BY <3>2, ResultTypes
    <3> HIDE DEF r
    <3>4. [Reader(call) EXCEPT !.res = r] \in Readers
      BY <2>2, <3>3, StartType, ReaderFields
    <3>5. op' \in Ops
      BY <2>2, <3>1, <3>4, BlockedType
    <3>6. conn' \in Conns
      BY <3>1, <3>2 DEF TypeOK, Conns
    <3>7. handle' \in Handles
      BY <3>1 DEF TypeOK, Handles
    <3> QED BY <2>0, <3>1, <3>5, <3>6, <3>7 DEF TypeOK
  <2>4. CASE conn.notifications = <<>>
    <3>1. op' \in Ops /\ UNCHANGED <<conn, taken, handle>>
      BY <1>0, <2>1, <2>2, <2>4
    <3> QED BY <2>0, <3>1 DEF TypeOK
  <2> QED BY <2>3, <2>4
<1>9. CASE TimeoutIter
  <2>1. handle' \in Handles
    BY <1>9 DEF TimeoutIter, TypeOK, Handles
  <2> QED BY <1>9, <2>1 DEF TimeoutIter, TypeOK
<1>10. CASE Close
  <2>1. op' \in Ops
    BY <1>0, <1>10, CallTypes DEF Close
  <2>2. conn' \in Conns
    BY <1>10 DEF Close, TypeOK, Conns
  <2> QED BY <1>10, <2>1, <2>2 DEF Close, TypeOK
<1>11. CASE TakeResult
  <2>1. op' \in Ops
    BY <1>11, CallTypes, StartType, BlockedType DEF TakeResult
  <2>2. op.r \in Readers
    BY DEF TypeOK, Ops
  <2>3. [op.r EXCEPT !.res = Pending] \in Readers
    BY <2>2, ReaderFields, ResultTypes
  <2>4. handle' \in Handles
    <3> DEFINE ok == op.r.res.is = "ok"
               it == IF op.r.call \in Streams /\ ok THEN [op.r EXCEPT !.res = Pending] ELSE NoIter
               gv == IF op.call = "next" /\ ok THEN handle.given + 1 ELSE 0
    <3>1. it \in Readers /\ gv \in Nat
      BY <2>3, StartType DEF TypeOK, Handles
    <3>2. handle' = [handle EXCEPT !.tx = @ \/ (op.call = "begin" /\ ok), !.portal = @ \/ (op.call = "bind" /\ ok),
                                   !.iter = it, !.given = gv, !.client = @ /\ op.call # "drop_client"]
      BY <1>11 DEF TakeResult, TypeOK, Handles
    <3>3. (handle.tx \/ (op.call = "begin" /\ ok)) \in BOOLEAN /\ (handle.portal \/ (op.call = "bind" /\ ok)) \in BOOLEAN
          /\ (handle.client /\ op.call # "drop_client") \in BOOLEAN
      BY DEF TypeOK, Handles
    <3> HIDE DEF it, gv, ok
    <3> QED BY <3>1, <3>2, <3>3 DEF TypeOK, Handles
  <2>5. plan' \in [n : Nat, end : Ends]
    BY <1>11 DEF TakeResult, NoPlan, Ends, TypeOK
  <2> QED BY <1>11, <2>1, <2>4, <2>5 DEF TakeResult, TypeOK
<1> QED BY <1>1, <1>2, <1>3, <1>4, <1>5, <1>6, <1>7, <1>8, <1>9, <1>10, <1>11 DEF Application

LEMMA TypeServer ==
  TypeOK /\ (Execute \/ Deliver \/ Notify \/ Disconnect \/ Hangup \/ Elapse) => TypeOK'
<1> SUFFICES ASSUME TypeOK, Execute \/ Deliver \/ Notify \/ Disconnect \/ Hangup \/ Elapse PROVE TypeOK'
  OBVIOUS
<1>1. CASE Execute
  <2>0. UNCHANGED <<op, handle, live, conn, inbox, nextId, async, told, taken>> /\ server.queue # <<>>
    BY <1>1 DEF Execute
  <2> DEFINE q == Head(server.queue)
  <2>1. q \in Asked /\ Tail(server.queue) \in Seq(Asked)
    BY <2>0, TailIs DEF TypeOK, Sessions
  <2>2. CASE q.call = "terminate"
    <3>1. server' \in Sessions /\ plan' = plan
      <4>1. <<>> \in Seq(Asked)
        BY Empty
      <4>2. server' = [server EXCEPT !.queue = <<>>, !.tx = FALSE, !.up = "eof"] /\ plan' = plan
        BY <1>1, <2>2 DEF Execute
      <4>3. server \in Sessions
        BY DEF TypeOK
      <4> QED BY <4>1, <4>2, <4>3 DEF Sessions
    <3> QED BY <2>0, <3>1 DEF TypeOK
  <2>3. CASE q.call # "terminate"
    <3>1. PICK pl \in Plans(q.call) :
            /\ server' = [server EXCEPT
                 !.queue = Tail(@), !.stream = Answer(q.call, q.id, pl),
                 !.tx = CASE q.call = "begin" -> @ \/ pl.end = "ok"
                          [] q.call \in {"commit", "rollback", "drop_tx"} -> FALSE
                          [] OTHER -> @]
            /\ plan' = IF q.id = live THEN pl ELSE plan
      BY <1>1, <2>3 DEF Execute
    <3>2. q.call \in Calls /\ q.id \in Nat
      BY <2>1, <2>3 DEF Asked
    <3> HIDE DEF q
    <3>3. Answer(q.call, q.id, pl) \in Seq(Msgs)
      BY <3>2, AnswerIs, AnswerParts
    <3>4. pl \in [n : Nat, end : Ends]
      BY <3>2, PlanIs
    <3> DEFINE tx == CASE q.call = "begin" -> server.tx \/ pl.end = "ok"
                       [] q.call \in {"commit", "rollback", "drop_tx"} -> FALSE
                       [] OTHER -> server.tx
    <3>5. tx \in BOOLEAN
      BY DEF TypeOK, Sessions
    <3>6. server' = [server EXCEPT !.queue = Tail(@), !.stream = Answer(q.call, q.id, pl), !.tx = tx]
      BY <3>1 DEF TypeOK, Sessions
    <3> HIDE DEF tx
    <3>7. server' \in Sessions
      BY <2>1, <3>3, <3>5, <3>6 DEF TypeOK, Sessions
    <3> QED BY <2>0, <3>1, <3>4, <3>7 DEF TypeOK
  <2> QED BY <2>2, <2>3
<1>2. CASE Deliver
  <2>1. server.stream \in Seq(Msgs) /\ server.stream # <<>>
    BY <1>2 DEF Deliver, TypeOK, Sessions
  <2>2. Head(server.stream) \in Msgs /\ Tail(server.stream) \in Seq(Msgs)
    BY <2>1, TailIs
  <2>3. inbox' \in Seq(Msgs)
    BY <1>2, <2>2, AppendIs DEF Deliver, TypeOK
  <2>4. server' \in Sessions
    BY <1>2, <2>2 DEF Deliver, TypeOK, Sessions
  <2> QED BY <1>2, <2>3, <2>4 DEF Deliver, TypeOK
<1>3. CASE Notify
  <2>1. PICK is \in {"notification", "notice", "parameter"} :
          told' = (IF is = "notification" THEN told + 1 ELSE told) /\ inbox' = Append(inbox, Msg(is, 0, told'))
    BY <1>3 DEF Notify
  <2>2. told' \in Nat
    BY <2>1 DEF TypeOK
  <2>3. Msg(is, 0, told') \in Msgs
    BY <2>2 DEF Msg, Msgs, Kinds
  <2>4. inbox' \in Seq(Msgs)
    BY <2>1, <2>3, AppendIs DEF TypeOK
  <2> QED BY <1>3, <2>2, <2>4 DEF Notify, TypeOK
<1>4. CASE Disconnect
  <2>1. Msg("ErrorResponse", 0, 0) \in Msgs
    BY DEF Msg, Msgs, Kinds
  <2>2. inbox' \in Seq(Msgs)
    <3>1. inbox \in Seq(Msgs)
      BY DEF TypeOK
    <3>2. inbox' = inbox \/ inbox' = Append(inbox, Msg("ErrorResponse", 0, 0))
      BY <1>4 DEF Disconnect
    <3> QED BY <2>1, <3>1, <3>2, AppendIs
  <2>3. server' \in Sessions
    <3>1. <<>> \in Seq(Asked) /\ <<>> \in Seq(Msgs)
      BY Empty
    <3>2. \/ server' = [server EXCEPT !.queue = <<>>, !.stream = <<>>, !.tx = FALSE, !.up = "fatal"]
          \/ server' = [server EXCEPT !.queue = <<>>, !.stream = <<>>, !.tx = FALSE, !.up = "eof"]
      BY <1>4 DEF Disconnect
    <3>3. server \in Sessions
      BY DEF TypeOK
    <3> QED BY <3>1, <3>2, <3>3 DEF Sessions
  <2> QED BY <1>4, <2>2, <2>3 DEF Disconnect, TypeOK
<1>5. CASE Hangup
  <2>1. server' \in Sessions
    BY <1>5 DEF Hangup, TypeOK, Sessions
  <2> QED BY <1>5, <2>1 DEF Hangup, TypeOK
<1>6. CASE Elapse
  <2>1. op' \in Ops
    BY <1>6 DEF Elapse, TypeOK, Ops
  <2>2. handle' \in Handles
    BY <1>6 DEF Elapse, TypeOK, Handles
  <2> QED BY <1>6, <2>1, <2>2 DEF Elapse, TypeOK
<1> QED BY <1>1, <1>2, <1>3, <1>4, <1>5, <1>6

LEMMA TypeStep == TypeOK /\ [Next]_vars => TypeOK'
<1> SUFFICES ASSUME TypeOK, [Next]_vars PROVE TypeOK'
  OBVIOUS
<1>1. CASE UNCHANGED vars
  BY <1>1 DEF vars, TypeOK
<1> QED BY <1>1, TypePollRead, TypePollFuture, TypeApplication, TypeServer DEF Next

-----------------------------------------------------------------------------
(***************************************************************************)
(* NotificationsInOrder.                                                   *)
(***************************************************************************)

\* What the first conjunct of NoteInv needs of a step that neither takes nor
\* sends a notification.
LEMMA NotesKept ==
  ASSUME NoteInv, UNCHANGED <<inbox, told, taken>>, conn'.notifications = conn.notifications, server'.stream = server.stream
  PROVE  NoteInv'
BY DEF NoteInv, NotificationsInOrder

\* Every step keeps the notifications in order.
LEMMA NoteInit == Init => NoteInv
<1> SUFFICES ASSUME Init PROVE NoteInv
  OBVIOUS
<1>1. conn.notifications = <<1>> /\ inbox = <<>> /\ told = 1 /\ taken = 0 /\ server.stream = <<>>
  BY DEF Init
<1>2. Noted(<<1>>, <<>>, 1, 0)
  BY DEF Noted
<1> QED BY <1>1, <1>2, NotedIs DEF NoteInv

LEMMA NotePollRead == TypeOK /\ NoteInv /\ PollRead => NoteInv'
<1> SUFFICES ASSUME TypeOK, NoteInv, PollRead PROVE NoteInv'
  OBVIOUS
<1> DEFINE m == Head(inbox)
<1>1. inbox \in Seq(Msgs) /\ inbox # <<>> /\ conn.notifications \in Seq(Nat) /\ told \in Nat /\ taken \in Nat
  BY DEF TypeOK, Conns, PollRead
<1>2. m \in Msgs /\ Tail(inbox) \in Seq(Msgs)
  BY <1>1, TailIs
<1>3. UNCHANGED told /\ inbox' = Tail(inbox)
  BY DEF PollRead
<1>4. Noted(conn.notifications, inbox, told, taken) /\ \A i \in 1 .. Len(server.stream) : Normal(server.stream[i])
  BY NotedIs DEF NoteInv
<1>t. m.is # "notification" => Noted(conn.notifications, Tail(inbox), told, taken)
  BY <1>1, <1>4, NotedTail
<1>5. ASSUME Noted(conn'.notifications, inbox', told', taken'), server'.stream = server.stream PROVE NoteInv'
  BY <1>4, <1>5 DEF NoteInv, Noted, NotificationsInOrder
<1> HIDE DEF m
<1>6. CASE m.is \in {"notification", "notice"} /\ UNCHANGED <<op, live, taken>>
           /\ LET c == IF m.is = "notice" THEN conn
                       ELSE [conn EXCEPT !.notifications = push_back(@, m.n)]
              IN  conn' = poll_write(c) /\ server' = Written(c)
  <2> DEFINE c == IF m.is = "notice" THEN conn ELSE [conn EXCEPT !.notifications = push_back(@, m.n)]
  <2>1. push_back(conn.notifications, m.n) \in Seq(Nat)
    BY <1>1, <1>2 DEF Msgs, push_back
  <2>2. c \in Conns
    BY <2>1 DEF TypeOK, Conns
  <2>3. conn' = poll_write(c) /\ server' = Written(c)
    BY <1>6
  <2>4. c.notifications = IF m.is = "notice" THEN conn.notifications ELSE Append(conn.notifications, m.n)
    BY DEF TypeOK, Conns, push_back
  <2> HIDE DEF c
  <2>5. conn'.notifications = c.notifications /\ server'.stream = server.stream
    BY <2>2, <2>3, WriteIs, WrittenIs DEF TypeOK
  <2>6. Noted(c.notifications, Tail(inbox), told, taken)
    <3>1. CASE m.is = "notice"
      BY <1>t, <2>4, <3>1
    <3>2. CASE m.is = "notification"
      <4>1. Noted(Append(conn.notifications, Head(inbox).n), Tail(inbox), told, taken)
        BY <1>1, <1>4, <3>2, NotedHeld DEF m
      <4> QED BY <2>4, <3>2, <4>1 DEF m
    <3> QED BY <1>6, <3>1, <3>2
  <2> QED BY <1>3, <1>5, <1>6, <2>5, <2>6
<1>7. CASE m.is = "parameter" /\ UNCHANGED <<op, live, conn, server, taken>>
  BY <1>3, <1>5, <1>7, <1>t
<1>8. CASE Normal(m) /\ conn.responses # <<>> /\ conn' = route(conn, m) /\ UNCHANGED <<op, live, server, taken>>
  <2>1. conn'.notifications = conn.notifications
    BY <1>2, <1>8, RouteIs DEF TypeOK
  <2> QED BY <1>3, <1>5, <1>8, <1>t, <2>1 DEF Normal
<1>9. CASE Normal(m) /\ Fail(IF m.is = "ErrorResponse" THEN "db" ELSE "unexpected")
  <2>1. conn'.notifications = conn.notifications /\ UNCHANGED <<server, taken>>
    BY <1>9 DEF Fail, TypeOK, Conns
  <2> QED BY <1>3, <1>5, <1>9, <1>t, <2>1 DEF Normal
<1> QED BY <1>6, <1>7, <1>8, <1>9 DEF PollRead, m

LEMMA NotePollFuture == TypeOK /\ NoteInv /\ PollFuture => NoteInv'
<1> SUFFICES ASSUME TypeOK, NoteInv, PollFuture PROVE NoteInv'
  OBVIOUS
<1>1. UNCHANGED <<inbox, told>> /\ conn \in Conns
  BY DEF PollFuture, TypeOK
<1>2. CASE Fail("closed")
  <2>1. conn'.notifications = conn.notifications /\ UNCHANGED <<server, taken>>
    BY <1>1, <1>2 DEF Fail, Conns
  <2> QED BY <1>1, <2>1, NotesKept
<1>3. CASE server' = Written(conn)
           /\ \E c \in {poll_write(conn)} : SendRequest(c) \/ ReadAnswer(c) \/ PopNotification(c) \/ AwaitDone(c)
  <2> DEFINE c == poll_write(conn)
  <2>1. server'.stream = server.stream /\ c \in Conns /\ c.notifications = conn.notifications
    BY <1>3, WriteIs, WrittenIs DEF TypeOK
  <2>2. SendRequest(c) \/ ReadAnswer(c) \/ PopNotification(c) \/ AwaitDone(c)
    BY <1>3
  <2> HIDE DEF c
  <2>k. ASSUME conn'.notifications = c.notifications, taken' = taken PROVE NoteInv'
    BY <1>1, <2>1, <2>k, NotesKept
  <2>3. CASE SendRequest(c)
    <3>1. op.call \in Calls
      BY DEF TypeOK, Ops
    <3>2. conn' = c \/ conn' = send(c, op.call)
      BY <2>3 DEF SendRequest, Closed
    <3>3. conn'.notifications = c.notifications
      <4>1. nextId \in Nat
        BY DEF TypeOK
      <4>2. send(c, op.call).notifications = c.notifications
        BY <2>1, <3>1, <4>1, SendIs
      <4> QED BY <3>2, <4>2
    <3>4. taken' = taken
      BY <2>3 DEF SendRequest, Closed
    <3> QED BY <2>k, <3>3, <3>4
  <2>4. CASE ReadAnswer(c)
    <3>0. op.r \in Readers /\ op.r.res = Pending
      BY DEF PollFuture, TypeOK, Ops, Returned
    <3>1. PICK p \in {Polled(op.r, c, live)} :
             Return(IF op.timer /\ p.r.res = Pending THEN Err(p.r, "timeout") ELSE p.r, c, p.chan)
      BY <2>4 DEF ReadAnswer
    <3>2. p.chan \in Seq(Msgs)
      BY <2>1, <3>0, <3>1, PolledType DEF Conns
    <3>3. PICK r : Return(r, c, p.chan)
      BY <3>1
    <3>4. PICK d : d \in Conns /\ d.notifications = c.notifications /\ (conn' = d \/ conn' = send(d, "rollback"))
      <4>1. \A ch \in Seq(Msgs) : [c EXCEPT !.chan = ch] \in Conns /\ [c EXCEPT !.chan = ch].notifications = c.notifications
        BY <2>1 DEF Conns
      <4>2. <<>> \in Seq(Msgs)
        BY Empty
      <4>3. \E ch \in {<<>>, p.chan} : conn' = [c EXCEPT !.chan = ch] \/ conn' = send([c EXCEPT !.chan = ch], "rollback")
        <5> DEFINE ch == IF r.res # Pending /\ ~(r.call \in Streams /\ r.res.is = "ok") THEN <<>> ELSE p.chan
        <5>1. conn' = [c EXCEPT !.chan = ch] \/ conn' = send([c EXCEPT !.chan = ch], "rollback")
          BY <3>3 DEF Return
        <5>2. ch \in {<<>>, p.chan}
          OBVIOUS
        <5> HIDE DEF ch
        <5> QED BY <5>1, <5>2
      <4> QED BY <3>2, <4>1, <4>2, <4>3
    <3>5. conn'.notifications = c.notifications
      <4>1. nextId \in Nat /\ "rollback" \in Calls
        BY CallTypes DEF TypeOK, Requests
      <4>2. send(d, "rollback").notifications = d.notifications
        BY <3>4, <4>1, SendIs
      <4> QED BY <3>4, <4>2
    <3>6. taken' = taken
      BY <3>3 DEF Return
    <3> QED BY <2>k, <3>5, <3>6
  <2>5. CASE PopNotification(c) /\ c.notifications # <<>>
    <3>1. conn' = [c EXCEPT !.notifications = Tail(@)] /\ taken' = taken + 1
      BY <2>5 DEF PopNotification
    <3>2. conn'.notifications = Tail(conn.notifications) /\ conn.notifications # <<>> /\ conn.notifications \in Seq(Nat)
      BY <2>1, <2>5, <3>1 DEF Conns
    <3>3. Noted(conn.notifications, inbox, told, taken) /\ told \in Nat /\ taken \in Nat
      BY NotedIs DEF NoteInv, TypeOK
    <3>4. Noted(Tail(conn.notifications), inbox, told, taken + 1)
      BY <3>2, <3>3, NotedTaken
    <3>5. NotificationsInOrder'
      BY <1>1, <3>1, <3>2, <3>4 DEF Noted, NotificationsInOrder
    <3> QED BY <2>1, <3>5 DEF NoteInv
  <2>6. CASE PopNotification(c) /\ c.notifications = <<>>
    BY <2>6, <2>k DEF PopNotification
  <2>7. CASE AwaitDone(c)
    BY <2>7, <2>k DEF AwaitDone
  <2> QED BY <2>2, <2>3, <2>4, <2>5, <2>6, <2>7
<1> QED BY <1>2, <1>3 DEF PollFuture

LEMMA NoteApplication == TypeOK /\ NoteInv /\ Application => NoteInv'
<1> SUFFICES ASSUME TypeOK, NoteInv, Application PROVE NoteInv'
  OBVIOUS
<1>0. conn \in Conns
  BY DEF TypeOK
<1>1. CASE Call \/ CallClient \/ CallTransaction \/ EndTransaction \/ NextItem \/ TimeoutIter \/ TakeResult
  <2>1. UNCHANGED <<conn, server, inbox, told, taken>>
    BY <1>1 DEF Call, CallClient, CallTransaction, EndTransaction, NextItem, TimeoutIter, TakeResult
  <2> QED BY <2>1, NotesKept
<1>2. CASE DropPortal
  <2>1. conn'.notifications = conn.notifications
    BY <1>0, <1>2, CallTypes, SendIs DEF DropPortal, TypeOK
  <2> QED BY <1>2, <2>1, NotesKept DEF DropPortal
<1>3. CASE DropIter
  <2>1. conn'.notifications = conn.notifications
    BY <1>0, <1>3 DEF DropIter, Conns
  <2> QED BY <1>3, <2>1, NotesKept DEF DropIter
<1>4. CASE Close
  <2>1. conn'.notifications = conn.notifications
    BY <1>0, <1>4 DEF Close, Conns
  <2> QED BY <1>4, <2>1, NotesKept DEF Close
<1>5. CASE NextNotification /\ conn.notifications = <<>>
  <2>1. UNCHANGED <<conn, server, inbox, told, taken>>
    BY <1>5 DEF NextNotification
  <2> QED BY <2>1, NotesKept
<1>6. CASE NextNotification /\ conn.notifications # <<>>
  <2>1. conn' = [conn EXCEPT !.notifications = Tail(@)] /\ taken' = taken + 1 /\ UNCHANGED <<server, inbox, told>>
    BY <1>6 DEF NextNotification
  <2>2. conn'.notifications = Tail(conn.notifications) /\ conn.notifications \in Seq(Nat)
    BY <1>0, <2>1 DEF Conns
  <2>3. Noted(conn.notifications, inbox, told, taken) /\ told \in Nat /\ taken \in Nat
    BY NotedIs DEF NoteInv, TypeOK
  <2>4. Noted(Tail(conn.notifications), inbox, told, taken + 1)
    BY <1>6, <2>2, <2>3, NotedTaken
  <2>5. NotificationsInOrder'
    BY <2>1, <2>2, <2>4 DEF Noted, NotificationsInOrder
  <2> QED BY <2>1, <2>5 DEF NoteInv
<1> QED BY <1>1, <1>2, <1>3, <1>4, <1>5, <1>6 DEF Application

LEMMA NoteServer ==
  TypeOK /\ NoteInv /\ (Execute \/ Deliver \/ Notify \/ Disconnect \/ Hangup \/ Elapse) => NoteInv'
<1> SUFFICES ASSUME TypeOK, NoteInv, Execute \/ Deliver \/ Notify \/ Disconnect \/ Hangup \/ Elapse PROVE NoteInv'
  OBVIOUS
<1>0. /\ inbox \in Seq(Msgs) /\ conn.notifications \in Seq(Nat) /\ told \in Nat /\ taken \in Nat
      /\ server \in Sessions /\ server.stream \in Seq(Msgs)
      /\ Noted(conn.notifications, inbox, told, taken)
      /\ \A i \in 1 .. Len(server.stream) : Normal(server.stream[i])
  BY NotedIs DEF TypeOK, Conns, Sessions, NoteInv
<1>n. ASSUME Noted(conn.notifications, inbox', told', taken), UNCHANGED <<conn, taken>> PROVE NotificationsInOrder'
  BY <1>n DEF Noted, NotificationsInOrder
<1>1. CASE Execute
  <2>1. UNCHANGED <<inbox, conn, told, taken>> /\ server.queue # <<>> /\ server.queue \in Seq(Asked)
    BY <1>0, <1>1 DEF Execute, Sessions
  <2> DEFINE q == Head(server.queue)
  <2>2. q \in Asked
    BY <2>1, TailIs
  <2>3. CASE q.call = "terminate"
    <3>1. server'.stream = server.stream
      BY <1>0, <1>1, <2>3 DEF Execute, Sessions
    <3> QED BY <2>1, <3>1, NotesKept
  <2>4. CASE q.call # "terminate"
    <3>1. PICK pl \in Plans(q.call) : server'.stream = Answer(q.call, q.id, pl)
      BY <1>0, <1>1, <2>4 DEF Execute, Sessions
    <3>2. q.call \in Calls /\ q.id \in Nat
      BY <2>2, <2>4 DEF Asked
    <3> HIDE DEF q
    <3>3. \A i \in 1 .. Len(server'.stream) : Normal(server'.stream[i])
      BY <3>1, <3>2, AnswerIs, AnswerParts
    <3> QED BY <1>0, <1>n, <2>1, <3>3 DEF NoteInv
  <2> QED BY <2>3, <2>4
<1>2. CASE Deliver
  <2>1. UNCHANGED <<conn, told, taken>> /\ server.stream # <<>> /\ inbox' = Append(inbox, Head(server.stream))
        /\ server'.stream = Tail(server.stream)
    BY <1>0, <1>2 DEF Deliver, Sessions
  <2>2. /\ Head(server.stream) \in Msgs /\ Head(server.stream) = server.stream[1] /\ Len(server.stream) \in Nat
        /\ Len(server.stream) >= 1 /\ Len(server'.stream) = Len(server.stream) - 1
        /\ \A i \in 1 .. Len(server.stream) - 1 : server'.stream[i] = server.stream[i + 1] /\ i + 1 \in 1 .. Len(server.stream)
    BY <1>0, <2>1, TailIs
  <2>3. Head(server.stream).is # "notification"
    BY <1>0, <2>2 DEF Normal
  <2>4. Noted(conn.notifications, inbox', told', taken)
    BY <1>0, <2>1, <2>2, <2>3, NotedOther
  <2>5. \A i \in 1 .. Len(server'.stream) : Normal(server'.stream[i])
    BY <1>0, <2>2
  <2> QED BY <1>n, <2>1, <2>4, <2>5 DEF NoteInv
<1>3. CASE Notify
  <2>1. PICK is \in {"notification", "notice", "parameter"} :
          told' = (IF is = "notification" THEN told + 1 ELSE told) /\ inbox' = Append(inbox, Msg(is, 0, told'))
    BY <1>3 DEF Notify
  <2>2. Msg(is, 0, told') \in Msgs /\ Msg(is, 0, told').is = is /\ Msg(is, 0, told').n = told'
    BY <1>0, <2>1 DEF Msg, Msgs, Kinds
  <2>3. Noted(conn.notifications, inbox', told', taken)
    <3>1. CASE is = "notification"
      BY <1>0, <2>1, <2>2, <3>1, NotedNew
    <3>2. CASE is # "notification"
      BY <1>0, <2>1, <2>2, <3>2, NotedOther
    <3> QED BY <3>1, <3>2
  <2> QED BY <1>0, <1>3, <1>n, <2>3 DEF Notify, NoteInv
<1>4. CASE Disconnect
  <2>1. UNCHANGED <<conn, told, taken>> /\ server'.stream = <<>>
    BY <1>0, <1>4 DEF Disconnect, Sessions
  <2>2. Msg("ErrorResponse", 0, 0) \in Msgs /\ Msg("ErrorResponse", 0, 0).is # "notification"
    BY DEF Msg, Msgs, Kinds
  <2>3. Noted(conn.notifications, inbox', told', taken)
    <3>1. Noted(conn.notifications, Append(inbox, Msg("ErrorResponse", 0, 0)), told, taken)
      BY <1>0, <2>2, NotedOther
    <3>2. inbox' = Append(inbox, Msg("ErrorResponse", 0, 0)) \/ inbox' = inbox
      BY <1>4 DEF Disconnect
    <3> QED BY <1>0, <2>1, <3>1, <3>2
  <2> QED BY <1>n, <2>1, <2>3 DEF NoteInv
<1>5. CASE Hangup
  <2>1. UNCHANGED <<conn, told, taken, inbox>> /\ server'.stream = server.stream
    BY <1>0, <1>5 DEF Hangup, Sessions
  <2> QED BY <2>1, NotesKept
<1>6. CASE Elapse
  BY <1>6, NotesKept DEF Elapse
<1> QED BY <1>1, <1>2, <1>3, <1>4, <1>5, <1>6

\* Every notification the server has sent is taken once and in order, whichever
\* call was blocked when it arrived (Connection::notifications and the three
\* iterators), for any number of requests, rows and notifications.
THEOREM NotificationsKept == Spec => []NotificationsInOrder
<1>1. Init => TypeOK /\ NoteInv
  BY TypeInit, NoteInit
<1>2. TypeOK /\ NoteInv /\ [Next]_vars => TypeOK' /\ NoteInv'
  <2> SUFFICES ASSUME TypeOK, NoteInv, [Next]_vars PROVE NoteInv'
    BY TypeStep
  <2>1. CASE UNCHANGED vars
    BY <2>1, NotesKept DEF vars
  <2> QED BY <2>1, NotePollRead, NotePollFuture, NoteApplication, NoteServer DEF Next
<1>3. NoteInv => NotificationsInOrder
  BY DEF NoteInv
<1> QED BY <1>1, <1>2, <1>3, PTL DEF Spec

-----------------------------------------------------------------------------
(***************************************************************************)
(* How a future reads its answer.                                          *)
(***************************************************************************)

\* What follows the first k messages, once the future has had those and waits.
IsError(pl, call, id, k, m) ==
  /\ m = Msg("ErrorResponse", id, 0)
  /\ (pl.end = "reject" /\ k = 0) \/ (pl.end = "fail" /\ k = Pre(call) + pl.n)
IsPre(pl, call, id, k, m) ==
  pl.end # "reject" /\ k < Pre(call) /\ m = Msg(Preamble(call)[k + 1], id, 0)
IsRow(pl, call, id, k, m) ==
  pl.end # "reject" /\ k >= Pre(call) /\ k < Pre(call) + pl.n /\ m = Msg(BodyIs(call), id, k - Pre(call) + 1)
IsTag(pl, call, id, k, m) ==
  /\ pl.end \in {"ok", "more"} /\ k >= Pre(call) + pl.n /\ k < Pre(call) + pl.n + Post(call, pl)
  /\ m = Epilogue(call, id, pl)[k - Pre(call) - pl.n + 1]
IsLast(pl, call, id, k, m) ==
  pl.end \in {"ok", "more"} /\ call # "copy_out" /\ k = Pre(call) + pl.n + Post(call, pl) /\ m = Msg("ReadyForQuery", id, 0)

LEMMA CopyPost ==
  ASSUME NEW pl \in Plans("copy_out"), pl.end \in {"ok", "more"}
  PROVE  Post("copy_out", pl) = 2
<1>1. "copy_out" \in Calls /\ 1 \in Nat
  BY CallTypes DEF Bound
<1> QED BY <1>1, PostIs

\* What the next message of an answer can be, by how many are read.
LEMMA NextMessage ==
  ASSUME NEW call \in Calls, NEW id \in Nat, NEW pl \in Plans(call), NEW a, Placed(a, call, id, pl),
         NEW k, Waits(call, pl, k)
  PROVE  /\ k \in Nat /\ k < Len(a) /\ a[k + 1] \in Msgs
         /\ \/ IsError(pl, call, id, k, a[k + 1]) \/ IsPre(pl, call, id, k, a[k + 1])
            \/ IsRow(pl, call, id, k, a[k + 1]) \/ IsTag(pl, call, id, k, a[k + 1])
            \/ IsLast(pl, call, id, k, a[k + 1])
<1>1. k \in Nat
  BY DEF Waits
<1>2. Pre(call) \in Nat /\ pl.n \in Nat /\ pl.end \in {"ok", "reject", "fail", "more"} /\ (pl.end = "reject" => pl.n = 0)
  BY PreIs, PlanIs
<1>3. Len(a) \in Nat /\ a \in Seq(Msgs)
  BY AnswerParts
<1>4. pl.end \in {"ok", "more"} => Post(call, pl) \in Nat
  BY PostIs
<1>5. CASE pl.end = "reject"
  <2>1. k = 0 /\ Len(a) = 2 /\ a[1] = Msg("ErrorResponse", id, 0)
    BY <1>5 DEF Waits, Placed
  <2>2. 1 \in 1 .. Len(a)
    BY <2>1
  <2>3. a[1] \in Msgs
    BY <1>3, <2>2
  <2>4. a[k + 1] = a[1] /\ k < Len(a)
    BY <2>1
  <2> QED BY <1>1, <1>5, <2>1, <2>3, <2>4 DEF IsError
<1>6. CASE pl.end # "reject"
  <2>1. /\ Len(a) = Pre(call) + pl.n + (IF pl.end = "fail" THEN 1 ELSE Post(call, pl)) + 1
        /\ \A i \in 1 .. Pre(call) : a[i] = Msg(Preamble(call)[i], id, 0)
        /\ \A i \in 1 .. pl.n : a[Pre(call) + i] = Msg(BodyIs(call), id, i)
        /\ pl.end = "fail" => a[Pre(call) + pl.n + 1] = Msg("ErrorResponse", id, 0)
        /\ pl.end \in {"ok", "more"} =>
             \A i \in 1 .. Post(call, pl) : a[Pre(call) + pl.n + i] = Epilogue(call, id, pl)[i]
        /\ a[Len(a)] = Msg("ReadyForQuery", id, 0)
    BY <1>6 DEF Placed
  <2>2. /\ pl.end = "fail" \/ call = "copy_out" => k <= Pre(call) + pl.n
        /\ pl.end \in {"ok", "more"} /\ call # "copy_out" => k < Pre(call) + pl.n + Post(call, pl) + 1
    BY DEF Waits, Post
  <2>3. k < Len(a) /\ k + 1 \in 1 .. Len(a)
    <3>1. CASE pl.end = "fail"
      <4>1. Len(a) = Pre(call) + pl.n + 1 + 1 /\ k <= Pre(call) + pl.n
        BY <2>1, <2>2, <3>1
      <4> QED BY <1>1, <1>2, <4>1
    <3>2. CASE pl.end \in {"ok", "more"}
      BY <1>1, <1>2, <1>4, <2>1, <2>2, <3>2
    <3> QED BY <1>2, <1>6, <3>1, <3>2
  <2>4. a[k + 1] \in Msgs
    BY <1>3, <2>3
  <2>5. CASE k < Pre(call)
    <3>1. k + 1 \in 1 .. Pre(call)
      BY <1>1, <1>2, <2>5
    <3> QED BY <1>1, <1>6, <2>1, <2>3, <2>4, <2>5, <3>1 DEF IsPre
  <2>6. CASE k >= Pre(call) /\ k < Pre(call) + pl.n
    <3>1. k - Pre(call) + 1 \in 1 .. pl.n /\ Pre(call) + (k - Pre(call) + 1) = k + 1
      BY <1>1, <1>2, <2>6
    <3>2. a[k + 1] = Msg(BodyIs(call), id, k - Pre(call) + 1)
      BY <2>1, <3>1
    <3> QED BY <1>1, <1>6, <2>3, <2>4, <2>6, <3>2 DEF IsRow
  <2>7. CASE k >= Pre(call) + pl.n /\ pl.end = "fail"
    <3>1. k = Pre(call) + pl.n
      BY <1>1, <1>2, <2>2, <2>7
    <3> QED BY <1>1, <2>1, <2>3, <2>4, <2>7, <3>1 DEF IsError
  <2>8. CASE k >= Pre(call) + pl.n /\ pl.end \in {"ok", "more"} /\ k < Pre(call) + pl.n + Post(call, pl)
    <3>1. k - Pre(call) - pl.n + 1 \in 1 .. Post(call, pl) /\ Pre(call) + pl.n + (k - Pre(call) - pl.n + 1) = k + 1
      BY <1>1, <1>2, <1>4, <2>8
    <3>2. a[k + 1] = Epilogue(call, id, pl)[k - Pre(call) - pl.n + 1]
      BY <2>1, <2>8, <3>1
    <3>3. IsTag(pl, call, id, k, a[k + 1])
      BY <2>8, <3>2 DEF IsTag
    <3> QED BY <1>1, <2>3, <2>4, <3>3
  <2>9. CASE pl.end \in {"ok", "more"} /\ k >= Pre(call) + pl.n + Post(call, pl)
    <3>1. CASE call = "copy_out"
      <4>1. Post(call, pl) = 2
        BY <2>9, <3>1, CopyPost
      <4>2. k <= Pre(call) + pl.n /\ k >= Pre(call) + pl.n + Post(call, pl)
        BY <2>2, <2>9, <3>1
      <4> QED BY <1>1, <1>2, <4>1, <4>2
    <3>2. CASE call # "copy_out"
      <4>1. k = Pre(call) + pl.n + Post(call, pl) /\ k + 1 = Len(a)
        <5> DEFINE x == Pre(call)
                   y == pl.n
                   z == Post(call, pl)
                   l == Len(a)
        <5>1. k < x + y + z + 1 /\ k >= x + y + z /\ x \in Nat /\ y \in Nat /\ z \in Nat
          BY <1>2, <1>4, <2>2, <2>9, <3>2
        <5>2. l = x + y + z + 1
          BY <2>1, <2>9
        <5> HIDE DEF x, y, z, l
        <5>3. k = x + y + z /\ k + 1 = l
          BY <1>1, <5>1, <5>2
        <5> QED BY <5>3 DEF x, y, z, l
      <4>2. a[k + 1] = Msg("ReadyForQuery", id, 0)
        BY <2>1, <4>1
      <4>3. IsLast(pl, call, id, k, a[k + 1])
        BY <2>9, <3>2, <4>1, <4>2 DEF IsLast
      <4> QED BY <1>1, <2>3, <2>4, <4>3
    <3> QED BY <3>1, <3>2
  <2> QED BY <1>1, <1>2, <1>6, <1>4, <2>5, <2>6, <2>7, <2>8, <2>9
<1> QED BY <1>5, <1>6

\* What a future is, field by field.
LEMMA ReaderAtIs ==
  ASSUME NEW call, NEW id, NEW pl, NEW k
  PROVE  /\ ReaderAt(call, id, pl, k).call = call /\ ReaderAt(call, id, pl, k).pc = LoopAt(call, k)
         /\ ReaderAt(call, id, pl, k).items = ItemsAt(call, id, pl, k) /\ ReaderAt(call, id, pl, k).n = TagAt(call, pl, k)
         /\ ReaderAt(call, id, pl, k).res = Pending
         /\ \A pc, items, n :
              LoopAt(call, k) = pc /\ ItemsAt(call, id, pl, k) = items /\ TagAt(call, pl, k) = n =>
              ReaderAt(call, id, pl, k) = [call |-> call, pc |-> pc, items |-> items, n |-> n, res |-> Pending]
BY DEF ReaderAt

\* It begins as the call does.
LEMMA ReaderStart ==
  ASSUME NEW call, NEW id, NEW pl, pl.n \in Nat, Pre(call) \in Nat
  PROVE  ReaderAt(call, id, pl, 0) = Reader(call)
<1>1. TagAt(call, pl, 0) = 0
  BY DEF TagAt
<1>2. LoopAt(call, 0) = First(call)
  BY DEF LoopAt
<1>3. ItemsAt(call, id, pl, 0) = <<>>
  BY DEF ItemsAt
<1> QED BY <1>1, <1>2, <1>3 DEF ReaderAt, Reader

\* What it makes of the next message: it waits for another, or it has what the
\* call promises.
Next1(call, id, pl, k, m) ==
  /\ poll(ReaderAt(call, id, pl, k), m) = ReaderAt(call, id, pl, k + 1) /\ Waits(call, pl, k + 1)
  /\ call \in Streams => k + 1 < Pre(call) \/ k >= Pre(call) + pl.n
Done1(call, id, pl, k, m) ==
  /\ call \notin Streams
  /\ poll(ReaderAt(call, id, pl, k), m).res = Promised(call, id, pl)
Handed1(call, id, pl, k, m) ==
  /\ call \in Streams /\ k + 1 = Pre(call) /\ Promised(call, id, pl) = Result("ok", <<>>, 0, "")
  /\ poll(ReaderAt(call, id, pl, k), m) = [ReaderAt(call, id, pl, k + 1) EXCEPT !.res = Result("ok", <<>>, 0, "")]
  /\ Waits(call, pl, k + 1)
Failed1(call, id, pl, k, m) ==
  /\ call \in Streams /\ k < Pre(call) /\ Promised(call, id, pl) = Result("err", <<>>, 0, "db")
  /\ poll(ReaderAt(call, id, pl, k), m).res = Result("err", <<>>, 0, "db")
Given1(call, id, pl, k, m) ==
  /\ call \in Streams /\ k >= Pre(call) /\ k < Pre(call) + pl.n
  /\ PromisedItem(call, id, pl, RowsIn(call, pl, k)).is = "ok"
  /\ poll(ReaderAt(call, id, pl, k), m) =
       [ReaderAt(call, id, pl, k + 1) EXCEPT !.res = PromisedItem(call, id, pl, RowsIn(call, pl, k))]
  /\ Waits(call, pl, k + 1)
Over1(call, id, pl, k, m) ==
  /\ call \in Streams /\ k >= Pre(call) + pl.n
  /\ PromisedItem(call, id, pl, RowsIn(call, pl, k)).is # "ok"
  /\ poll(ReaderAt(call, id, pl, k), m).res = PromisedItem(call, id, pl, RowsIn(call, pl, k))

Reads(call, id, pl, k, m) ==
  \/ Next1(call, id, pl, k, m) \/ Done1(call, id, pl, k, m) \/ Handed1(call, id, pl, k, m)
  \/ Failed1(call, id, pl, k, m) \/ Given1(call, id, pl, k, m) \/ Over1(call, id, pl, k, m)

\* A future with these fields that waits.
Rd(call, pc, items, n) == [call |-> call, pc |-> pc, items |-> items, n |-> n, res |-> Pending]

\* A reader by its fields.
LEMMA RdIs ==
  ASSUME NEW call, NEW pc, NEW items, NEW n, NEW r, r = Rd(call, pc, items, n)
  PROVE  /\ r.call = call /\ r.pc = pc /\ r.items = items /\ r.n = n /\ r.res = Pending
         /\ \A q : Goto(r, q) = Rd(call, q, items, n)
         /\ \A x : [r EXCEPT !.n = x] = Rd(call, pc, items, x)
         /\ \A m : [r EXCEPT !.items = Append(@, m)] = Rd(call, pc, Append(items, m), n)
         /\ Ok(r) = [r EXCEPT !.res = Result("ok", items, n, "")] /\ Ok(r).res = Result("ok", items, n, "")
         /\ \A why : Err(r, why).res = Result("err", <<>>, 0, why)
BY DEF Rd, Goto, Ok, Err

LEMMA ReaderRd ==
  ASSUME NEW call, NEW id, NEW pl, NEW k
  PROVE  ReaderAt(call, id, pl, k) = Rd(call, LoopAt(call, k), ItemsAt(call, id, pl, k), TagAt(call, pl, k))
BY DEF ReaderAt, Rd

LEMMA PollIs ==
  ASSUME NEW r, r.res = Pending, NEW m
  PROVE  /\ m.is = "ErrorResponse" => poll(r, m) = Err(r, "db")
         /\ m.is # "ErrorResponse" =>
              /\ r.pc = "start" => poll(r, m) = start(r, m)
              /\ r.pc = "copy_start" => poll(r, m) = copy_start(r, m)
              /\ r.pc = "count" => poll(r, m) = count(r, m)
              /\ r.pc = "typed" => poll(r, m) = typed(r, m)
              /\ r.pc = "rows" => poll(r, m) = rows(r, m)
              /\ r.pc \in {"simple", "simple_rows"} => poll(r, m) = simple(r, m)
              /\ r.pc = "batch" => poll(r, m) = batch_execute(r, m)
              /\ r.pc = "copy" => poll(r, m) = copy(r, m)
              /\ r.pc = "sync" => poll(r, m) = sync(r, m)
BY DEF poll

\* The rows of an answer, one more.
LEMMA ItemsIs ==
  ASSUME NEW is \in Kinds, NEW id \in Nat, NEW n \in Nat
  PROVE  /\ Items(is, id, n) \in Seq(Msgs) /\ Len(Items(is, id, n)) = n
         /\ Items(is, id, 0) = <<>>
         /\ Append(Items(is, id, n), Msg(is, id, n + 1)) = Items(is, id, n + 1)
         /\ Items(is, id, n) = <<>> <=> n = 0
<1>1. \A i \in Nat : Msg(is, id, i) \in Msgs
  BY DEF Msg, Msgs
<1>2. \A k \in Nat : Items(is, id, k) \in Seq(Msgs) /\ Len(Items(is, id, k)) = k /\ DOMAIN Items(is, id, k) = 1 .. k
                     /\ \A i \in 1 .. k : Items(is, id, k)[i] = Msg(is, id, i)
  <2> SUFFICES ASSUME NEW k \in Nat
               PROVE  Items(is, id, k) \in Seq(Msgs) /\ Len(Items(is, id, k)) = k /\ DOMAIN Items(is, id, k) = 1 .. k
                      /\ \A i \in 1 .. k : Items(is, id, k)[i] = Msg(is, id, i)
    OBVIOUS
  <2>1. Items(is, id, k) \in [1 .. k -> Msgs]
    BY <1>1 DEF Items
  <2>2. \A i \in 1 .. k : Items(is, id, k)[i] = Msg(is, id, i)
    BY DEF Items
  <2> QED BY <2>1, <2>2
<1>3. Items(is, id, 0) = <<>>
  BY <1>2
<1>4. Append(Items(is, id, n), Msg(is, id, n + 1)) = Items(is, id, n + 1)
  <2> DEFINE s == Items(is, id, n)
             t == Items(is, id, n + 1)
             e == Msg(is, id, n + 1)
  <2>1. /\ s \in Seq(Msgs) /\ Len(s) = n /\ e \in Msgs /\ t \in Seq(Msgs) /\ Len(t) = n + 1
        /\ \A i \in 1 .. n : t[i] = s[i]
        /\ t[n + 1] = e
    BY <1>1, <1>2
  <2> HIDE DEF s, t, e
  <2>2. Append(s, e) \in Seq(Msgs) /\ Len(Append(s, e)) = n + 1
        /\ \A i \in 1 .. n + 1 : Append(s, e)[i] = t[i]
    BY <2>1
  <2>3. Append(s, e) = t
    BY <2>1, <2>2
  <2> QED BY <2>3 DEF s, t, e
<1> QED BY <1>2, <1>3, <1>4

\* A description, rows and a tag, as SimpleQueryStream hands them out.
LEMMA SimpleItems ==
  ASSUME NEW x \in Msgs, NEW e \in Msgs, NEW s \in Seq(Msgs)
  PROVE  /\ <<x>> \o s \o <<>> = <<x>> \o s
         /\ Append(<<x>> \o s, e) = <<x>> \o Append(s, e)
         /\ Append(<<x>> \o s, e) = <<x>> \o s \o <<e>>
         /\ <<x>> \o <<>> = <<x>> /\ Append(<<>>, x) = <<x>>
OBVIOUS

\* How long the part before the rows is, and which loop reads the rest.
LEMMA PreLen ==
  ASSUME NEW call \in Requests
  PROVE  Pre(call) = IF call = "copy_out" THEN 2
                     ELSE IF call \in {"query_typed", "execute_typed"} THEN 4
                     ELSE IF call \in Bound \cup {"simple_query", "batch_execute", "is_valid"} THEN 1 ELSE 0
<1>1. CASE call = "copy_out"
  <2>1. Preamble(call) = <<"BindComplete", "CopyOutResponse">>
    BY <1>1 DEF Preamble
  <2> QED BY <1>1, <2>1 DEF Pre
<1>2. CASE call \in {"query_typed", "execute_typed"}
  <2>1. Preamble(call) = <<"ParseComplete", "BindComplete", "ParameterDescription", "RowDescription">>
    BY <1>2 DEF Preamble, Bound
  <2> QED BY <1>2, <2>1 DEF Pre
<1>3. CASE call \in Bound \ {"copy_out"}
  <2>1. Preamble(call) = <<"BindComplete">>
    BY <1>3 DEF Preamble, Bound
  <2>2. Pre(call) = 1
    BY <2>1 DEF Pre
  <2> QED BY <1>3, <2>2 DEF Bound
<1>4. CASE call \in {"simple_query", "batch_execute"}
  <2>1. Preamble(call) = <<"RowDescription">>
    BY <1>4 DEF Preamble, Bound
  <2> QED BY <1>4, <2>1 DEF Pre
<1>5. CASE call = "is_valid"
  <2>1. Preamble(call) = <<"EmptyQueryResponse">>
    BY <1>5 DEF Preamble, Bound
  <2> QED BY <1>5, <2>1 DEF Pre
<1>6. CASE call \in {"begin", "commit", "rollback", "drop_tx", "query_portal", "check_connection"}
  <2>1. Preamble(call) = <<>>
    BY <1>6 DEF Preamble, Bound
  <2> QED BY <1>6, <2>1 DEF Pre, Bound
<1> QED BY <1>1, <1>2, <1>3, <1>4, <1>5, <1>6 DEF Requests

RowCalls == Collects \cup {"query_raw"}

\* The loop, the items and the tag once the preamble is read.
LEMMA LoopIs ==
  ASSUME NEW call \in Requests, NEW k \in Nat, k >= Pre(call)
  PROVE  /\ call \in RowCalls => LoopAt(call, k) = "rows"
         /\ call \in {"execute", "execute_typed"} => LoopAt(call, k) = "count"
         /\ call = "copy_out" => LoopAt(call, k) = "copy"
         /\ call = "simple_query" => LoopAt(call, k) = "simple_rows"
         /\ call = "is_valid" => LoopAt(call, k) = "simple"
         /\ call \in {"batch_execute", "begin", "commit", "rollback", "drop_tx"} => LoopAt(call, k) = "batch"
         /\ call = "check_connection" => LoopAt(call, k) = "sync"
<1>1. Pre(call) = IF call = "copy_out" THEN 2
                  ELSE IF call \in {"query_typed", "execute_typed"} THEN 4
                  ELSE IF call \in Bound \cup {"simple_query", "batch_execute", "is_valid"} THEN 1 ELSE 0
  BY PreLen
<1>2. CASE call \in RowCalls
  <2>1. CASE call = "query_typed"
    BY <1>1, <2>1 DEF LoopAt, Bound, Collects, RowCalls
  <2>2. CASE call = "query_portal"
    BY <1>1, <2>2 DEF LoopAt, First, Bound, Collects, RowCalls
  <2>3. CASE call \in {"query", "query_opt", "query_one", "query_raw"}
    BY <1>1, <2>3 DEF LoopAt, Bound, Collects, RowCalls
  <2> QED BY <1>2, <2>1, <2>2, <2>3 DEF RowCalls, Collects
<1>3. call = "execute" => LoopAt(call, k) = "count"
  BY <1>1 DEF LoopAt, Bound
<1>4. call = "execute_typed" => LoopAt(call, k) = "count"
  BY <1>1 DEF LoopAt, First, Bound
<1>5. call = "copy_out" => LoopAt(call, k) = "copy"
  BY <1>1 DEF LoopAt
<1>6. call = "simple_query" => LoopAt(call, k) = "simple_rows"
  BY <1>1 DEF LoopAt, Bound
<1>7. call = "is_valid" => LoopAt(call, k) = "simple"
  BY <1>1 DEF LoopAt, First, Bound
<1>8. call \in {"batch_execute", "begin", "commit", "rollback", "drop_tx"} => LoopAt(call, k) = "batch"
  BY DEF LoopAt, First, Bound
<1>9. call = "check_connection" => LoopAt(call, k) = "sync"
  BY DEF LoopAt, First, Bound
<1>10. call \notin RowCalls \/ LoopAt(call, k) = "rows"
  BY <1>2
<1> QED BY <1>3, <1>4, <1>5, <1>6, <1>7, <1>8, <1>9, <1>10

\* The rows among the first k messages.
LEMMA RowsInIs ==
  ASSUME NEW call \in Calls, NEW pl \in Plans(call), NEW k \in Nat
  PROVE  /\ RowsIn(call, pl, k) \in Nat
         /\ k <= Pre(call) => RowsIn(call, pl, k) = 0
         /\ k >= Pre(call) /\ k <= Pre(call) + pl.n => RowsIn(call, pl, k) = k - Pre(call)
         /\ k >= Pre(call) + pl.n => RowsIn(call, pl, k) = pl.n
<1>1. Pre(call) \in Nat /\ pl.n \in Nat
  BY PreIs, PlanIs
<1> QED BY <1>1 DEF RowsIn

\* What has been collected once the rows begin.
LEMMA ItemsAre ==
  ASSUME NEW call \in Requests, NEW id \in Nat, NEW pl \in Plans(call), NEW k \in Nat, k >= Pre(call)
  PROVE  /\ call \in Collects => ItemsAt(call, id, pl, k) = Items("DataRow", id, RowsIn(call, pl, k))
         /\ call \notin Collects \cup {"simple_query", "is_valid"} => ItemsAt(call, id, pl, k) = <<>>
         /\ call = "simple_query" => ItemsAt(call, id, pl, k) =
              <<Msg("RowDescription", id, 0)>> \o Items("DataRow", id, RowsIn(call, pl, k))
                \o (IF k > pl.n + 1 THEN <<Msg("CommandComplete", id, pl.n)>> ELSE <<>>)
         /\ call = "is_valid" => ItemsAt(call, id, pl, k) = <<Msg("EmptyQueryResponse", id, 0)>>
<1>0. call \in Calls
  BY CallTypes
<1>1. Pre(call) = IF call = "copy_out" THEN 2
                  ELSE IF call \in {"query_typed", "execute_typed"} THEN 4
                  ELSE IF call \in Bound \cup {"simple_query", "batch_execute", "is_valid"} THEN 1 ELSE 0
  BY PreLen
<1>2. ASSUME call \in Collects PROVE ItemsAt(call, id, pl, k) = Items("DataRow", id, RowsIn(call, pl, k))
  <2>1. CASE k = 0
    <3>1. RowsIn(call, pl, k) = 0
      BY <1>0, <2>1, RowsInIs, PreIs
    <3>2. Items("DataRow", id, 0) = <<>>
      BY ItemsIs DEF Kinds
    <3> QED BY <2>1, <3>1, <3>2 DEF ItemsAt
  <2>2. CASE k # 0
    <3>1. call # "simple_query" /\ call # "is_valid"
      BY <1>2 DEF Collects
    <3> QED BY <1>2, <2>2, <3>1 DEF ItemsAt
  <2> QED BY <2>1, <2>2
<1>3. call \notin Collects \cup {"simple_query", "is_valid"} => ItemsAt(call, id, pl, k) = <<>>
  BY DEF ItemsAt
<1>4. call \in {"simple_query", "is_valid"} => k # 0
  BY <1>1
<1>5. call = "simple_query" => ItemsAt(call, id, pl, k) =
              <<Msg("RowDescription", id, 0)>> \o Items("DataRow", id, RowsIn(call, pl, k))
                \o (IF k > pl.n + 1 THEN <<Msg("CommandComplete", id, pl.n)>> ELSE <<>>)
  BY <1>4 DEF ItemsAt, Collects
<1>6. call = "is_valid" => ItemsAt(call, id, pl, k) = <<Msg("EmptyQueryResponse", id, 0)>>
  BY <1>4 DEF ItemsAt, Collects
<1> QED BY <1>2, <1>3, <1>5, <1>6

\* The tag is read last.
LEMMA TagIs ==
  ASSUME NEW call \in Calls, NEW pl \in Plans(call), NEW k \in Nat
  PROVE  /\ k <= Pre(call) + pl.n => TagAt(call, pl, k) = 0
         /\ k > Pre(call) + pl.n + 1 => TagAt(call, pl, k) = 0
         /\ pl.end # "ok" => TagAt(call, pl, k) = 0
         /\ call \notin RowCalls \cup {"execute", "execute_typed"} => TagAt(call, pl, k) = 0
         /\ call \in RowCalls \cup {"execute", "execute_typed"} /\ pl.end = "ok" /\ k = Pre(call) + pl.n + 1 =>
              TagAt(call, pl, k) = pl.n
<1>1. Pre(call) \in Nat /\ pl.n \in Nat
  BY PreIs, PlanIs
<1> QED BY <1>1 DEF TagAt, RowCalls

\* An error ends every call.
LEMMA ReadError ==
  ASSUME NEW call \in Requests, NEW id \in Nat, NEW pl \in Plans(call), NEW k, NEW m,
         Waits(call, pl, k), IsError(pl, call, id, k, m)
  PROVE  Reads(call, id, pl, k, m)
<1>1. poll(ReaderAt(call, id, pl, k), m).res = Result("err", <<>>, 0, "db")
  <2>1. ReaderAt(call, id, pl, k).res = Pending
    BY ReaderAtIs
  <2>2. m.is = "ErrorResponse"
    BY DEF IsError, Msg
  <2>3. poll(ReaderAt(call, id, pl, k), m) = Err(ReaderAt(call, id, pl, k), "db")
    BY <2>1, <2>2, PollIs
  <2>4. Err(ReaderAt(call, id, pl, k), "db").res = Result("err", <<>>, 0, "db")
    BY DEF Err, ReaderAt
  <2> QED BY <2>3, <2>4
<1>0. call \in Calls /\ k \in Nat
  BY CallTypes DEF Waits
<1>2. Pre(call) \in Nat /\ pl.n \in Nat /\ (call \in Streams => Pre(call) > 0)
  BY <1>0, PreIs, PlanIs, PreLen DEF Streams, Bound
<1>3. CASE pl.end = "reject" /\ k = 0
  <2>1. Promised(call, id, pl) = Result("err", <<>>, 0, "db")
    BY <1>3 DEF Promised
  <2> QED BY <1>1, <1>2, <1>3, <2>1 DEF Reads, Done1, Failed1
<1>4. CASE pl.end = "fail" /\ k = Pre(call) + pl.n
  <2>0. call \notin {"bind", "check_connection"}
    BY <1>0, <1>4, PlanIs
  <2>1. CASE call \notin Streams
    <3>1. ~(call \in {"query_opt", "query_one"} /\ pl.n > 1)
      BY <1>2, <1>4 DEF Waits
    <3>2. Promised(call, id, pl) = Result("err", <<>>, 0, "db")
      BY <1>4, <2>0, <2>1, <3>1 DEF Promised
    <3> QED BY <1>1, <2>1, <3>2 DEF Reads, Done1
  <2>2. CASE call \in Streams
    <3>1. RowsIn(call, pl, k) = pl.n
      BY <1>0, <1>2, <1>4, RowsInIs
    <3>2. PromisedItem(call, id, pl, pl.n) = Result("err", <<>>, 0, "db")
      <4>1. ~(pl.n < pl.n)
        BY <1>2
      <4> QED BY <1>4, <4>1 DEF PromisedItem
    <3>3. Result("err", <<>>, 0, "db").is # "ok"
      BY DEF Result
    <3>4. k >= Pre(call) + pl.n
      BY <1>2, <1>4
    <3> QED BY <1>1, <2>2, <3>1, <3>2, <3>3, <3>4 DEF Reads, Over1
  <2> QED BY <2>1, <2>2
<1> QED BY <1>3, <1>4 DEF IsError

\* It waits for the next message.
LEMMA WaitsNext ==
  ASSUME NEW call \in Calls, NEW pl \in Plans(call), NEW k, Waits(call, pl, k), pl.end # "reject", call # "bind",
         \/ k + 1 <= Pre(call) + pl.n
         \/ pl.end \in {"ok", "more"} /\ call # "copy_out" /\ k + 1 < Pre(call) + pl.n + Post(call, pl) + 1,
         call \in {"query_opt", "query_one"} /\ pl.n > 1 => k + 1 <= Pre(call) + 1
  PROVE  Waits(call, pl, k + 1)
<1>1. k \in Nat /\ Pre(call) \in Nat /\ pl.n \in Nat /\ pl.end \in {"ok", "reject", "fail", "more"}
  BY PreIs, PlanIs DEF Waits
<1>2. pl.end \in {"ok", "more"} => Post(call, pl) \in Nat
  BY PostIs
<1>3. k + 1 \in Nat
  BY <1>1
<1>4. pl.end = "fail" \/ call = "copy_out" => k + 1 <= Pre(call) + pl.n
  BY <1>1
<1>5. pl.end \in {"ok", "more"} /\ call # "copy_out" => k + 1 < Pre(call) + pl.n + Post(call, pl) + 1
  BY <1>1, <1>2
<1> QED BY <1>3, <1>4, <1>5 DEF Waits, Post

\* The messages before the rows.
LEMMA ReadPre ==
  ASSUME NEW call \in Requests, NEW id \in Nat, NEW pl \in Plans(call), NEW k, NEW m,
         Waits(call, pl, k), IsPre(pl, call, id, k, m)
  PROVE  Reads(call, id, pl, k, m)
<1>0. call \in Calls /\ k \in Nat /\ pl.n \in Nat /\ pl.end # "reject" /\ k < Pre(call) /\ m = Msg(Preamble(call)[k + 1], id, 0)
      /\ pl.end \in {"ok", "fail", "more"}
  BY CallTypes, PlanIs DEF Waits, IsPre
<1>1. Pre(call) = IF call = "copy_out" THEN 2
                  ELSE IF call \in {"query_typed", "execute_typed"} THEN 4
                  ELSE IF call \in Bound \cup {"simple_query", "batch_execute", "is_valid"} THEN 1 ELSE 0
  BY PreLen
<1>2. call # "bind" => Waits(call, pl, k + 1)
  <2>1. k + 1 <= Pre(call) + pl.n /\ k + 1 <= Pre(call) + 1
    BY <1>0, <1>1
  <2> QED BY <1>0, <2>1, WaitsNext
<1>3. RowsIn(call, pl, k) = 0 /\ RowsIn(call, pl, k + 1) = 0
  <2>1. k <= Pre(call) /\ k + 1 <= Pre(call) /\ k + 1 \in Nat
    BY <1>0, <1>1
  <2> QED BY <1>0, <2>1, RowsInIs
<1>4. TagAt(call, pl, k) = 0 /\ TagAt(call, pl, k + 1) = 0
  <2>1. k <= Pre(call) + pl.n /\ k + 1 <= Pre(call) + pl.n /\ k + 1 \in Nat
    BY <1>0, <1>1
  <2> QED BY <1>0, <2>1, TagIs
<1>5. Items("DataRow", id, 0) = <<>>
  BY ItemsIs DEF Kinds
<1>6. m.is = Preamble(call)[k + 1]
  BY <1>0 DEF Msg
<1> DEFINE r == ReaderAt(call, id, pl, k)
<1>r. r = Rd(call, LoopAt(call, k), ItemsAt(call, id, pl, k), 0)
      /\ ReaderAt(call, id, pl, k + 1) = Rd(call, LoopAt(call, k + 1), ItemsAt(call, id, pl, k + 1), 0)
  BY <1>4, ReaderRd
<1>7. CASE call \in Bound \ {"copy_out"}
  <2>1. k = 0 /\ m.is = "BindComplete" /\ Pre(call) = 1
    <3>1. k = 0 /\ Pre(call) = 1
      BY <1>0, <1>1, <1>7 DEF Bound
    <3>2. Preamble(call) = <<"BindComplete">>
      BY <1>7 DEF Preamble, Bound
    <3> QED BY <1>6, <3>1, <3>2
  <2>2. r = Rd(call, "start", <<>>, 0)
    <3>1. LoopAt(call, 0) = "start" /\ ItemsAt(call, id, pl, 0) = <<>>
      BY <1>7 DEF LoopAt, First, ItemsAt, Bound
    <3> QED BY <1>r, <2>1, <3>1
  <2>3. poll(r, m) = start(r, m)
    <3>1. "start" \in Loops /\ m.is # "ErrorResponse"
      BY <2>1 DEF Loops
    <3> QED BY <2>2, <3>1 DEF poll, Rd
  <2>4. LoopAt(call, 1) = IF call = "execute" THEN "count" ELSE "rows"
    BY <1>7 DEF LoopAt, Bound
  <2>5. ItemsAt(call, id, pl, 1) = <<>>
    <3>1. 1 \in Nat /\ 1 >= Pre(call)
      BY <2>1
    <3>2. call \notin {"simple_query", "is_valid"}
      BY <1>7 DEF Bound
    <3>3. RowsIn(call, pl, 1) = 0
      BY <1>3, <2>1
    <3>4. CASE call \in Collects
      BY <1>5, <3>1, <3>3, <3>4, ItemsAre
    <3>5. CASE call \notin Collects
      BY <3>1, <3>2, <3>5, ItemsAre
    <3> QED BY <3>4, <3>5
  <2>6. ReaderAt(call, id, pl, k + 1) = Rd(call, IF call = "execute" THEN "count" ELSE "rows", <<>>, 0)
    BY <1>r, <2>1, <2>4, <2>5
  <2> HIDE DEF r
  <2>7. \A q : Goto(r, q) = Rd(call, q, <<>>, 0)
    BY <2>2 DEF Rd, Goto, Ok, Err
  <2>8. CASE call = "bind"
    <3>1. poll(r, m) = Ok(r)
      <4>1. r.call = "bind"
        BY <2>2, <2>8 DEF Rd, Goto, Ok, Err
      <4> QED BY <2>1, <2>3, <4>1 DEF start
    <3>2. Ok(r).res = Result("ok", <<>>, 0, "")
      BY <2>2 DEF Rd, Goto, Ok, Err
    <3>3. Promised(call, id, pl) = Result("ok", <<>>, 0, "") /\ call \notin Streams
      BY <1>0, <2>8 DEF Promised, Streams
    <3> QED BY <3>1, <3>2, <3>3 DEF Reads, Done1, r
  <2>9. CASE call = "query_raw"
    <3>1. r.call = "query_raw"
      BY <2>2, <2>9 DEF Rd, Goto, Ok, Err
    <3>2. poll(r, m) = Ok(Rd(call, "rows", <<>>, 0))
      BY <2>1, <2>3, <2>7, <3>1 DEF start
    <3>3. ReaderAt(call, id, pl, k + 1) = Rd(call, "rows", <<>>, 0)
      BY <2>6, <2>9
    <3>4. poll(r, m) = [ReaderAt(call, id, pl, k + 1) EXCEPT !.res = Result("ok", <<>>, 0, "")]
      BY <3>2, <3>3 DEF Rd, Goto, Ok, Err
    <3>5. Promised(call, id, pl) = Result("ok", <<>>, 0, "") /\ call \in Streams
      BY <1>0, <2>9 DEF Promised, Streams
    <3>6. k + 1 = Pre(call)
      BY <2>1
    <3>7. Waits(call, pl, k + 1)
      BY <1>2, <2>9
    <3>8. Handed1(call, id, pl, k, m)
      BY <3>4, <3>5, <3>6, <3>7 DEF Handed1, r
    <3> QED BY <3>8 DEF Reads
  <2>10. CASE call \notin {"bind", "query_raw"}
    <3>1. r.call = call
      BY <2>2 DEF Rd, Goto, Ok, Err
    <3>2. poll(r, m) = Rd(call, IF call = "execute" THEN "count" ELSE "rows", <<>>, 0)
      BY <1>7, <2>1, <2>3, <2>7, <2>10, <3>1 DEF start
    <3>3. call \notin Streams
      BY <1>7, <2>10 DEF Streams
    <3> QED BY <1>2, <2>6, <2>10, <3>2, <3>3 DEF Reads, Next1, r
  <2> QED BY <2>8, <2>9, <2>10
<1>8. CASE call = "copy_out"
  <2>0. Pre(call) = 2 /\ Preamble(call) = <<"BindComplete", "CopyOutResponse">>
    BY <1>1, <1>8 DEF Preamble
  <2>1. \A j \in Nat : ItemsAt(call, id, pl, j) = <<>>
    BY <1>8 DEF ItemsAt, Collects
  <2>2. CASE k = 0
    <3>1. m.is = "BindComplete" /\ LoopAt(call, 0) = "start" /\ LoopAt(call, 1) = "copy_start"
      BY <1>6, <1>8, <2>0, <2>2 DEF LoopAt, First, Bound
    <3>2. r = Rd(call, "start", <<>>, 0) /\ ReaderAt(call, id, pl, k + 1) = Rd(call, "copy_start", <<>>, 0)
      BY <1>r, <2>1, <2>2, <3>1
    <3>3. "start" \in Loops /\ m.is # "ErrorResponse"
      BY <3>1 DEF Loops
    <3> HIDE DEF r
    <3>4. poll(r, m) = start(r, m)
      BY <3>2, <3>3 DEF poll, Rd
    <3>5. r.call = "copy_out" /\ Goto(r, "copy_start") = Rd(call, "copy_start", <<>>, 0)
      BY <1>8, <3>2 DEF Rd, Goto, Ok, Err
    <3>6. poll(r, m) = ReaderAt(call, id, pl, k + 1)
      BY <3>1, <3>2, <3>4, <3>5 DEF start
    <3>7. k + 1 < Pre(call)
      BY <2>0, <2>2
    <3> QED BY <1>2, <1>8, <3>6, <3>7 DEF Reads, Next1, r
  <2>3. CASE k = 1
    <3>1. m.is = "CopyOutResponse" /\ LoopAt(call, 1) = "copy_start" /\ LoopAt(call, 2) = "copy"
      BY <1>6, <1>8, <2>0, <2>3 DEF LoopAt, First, Bound
    <3>2. r = Rd(call, "copy_start", <<>>, 0) /\ ReaderAt(call, id, pl, k + 1) = Rd(call, "copy", <<>>, 0)
      BY <1>r, <2>1, <2>3, <3>1
    <3>3. "copy_start" \in Loops /\ m.is # "ErrorResponse"
      BY <3>1 DEF Loops
    <3> HIDE DEF r
    <3>4. poll(r, m) = copy_start(r, m)
      BY <3>2, <3>3 DEF poll, Rd
    <3>5. Goto(r, "copy") = Rd(call, "copy", <<>>, 0)
      BY <3>2 DEF Rd, Goto, Ok, Err
    <3>6. poll(r, m) = Ok(Rd(call, "copy", <<>>, 0))
      BY <3>1, <3>4, <3>5 DEF copy_start
    <3>7. poll(r, m) = [ReaderAt(call, id, pl, k + 1) EXCEPT !.res = Result("ok", <<>>, 0, "")]
      BY <3>2, <3>6 DEF Rd, Goto, Ok, Err
    <3>8. Promised(call, id, pl) = Result("ok", <<>>, 0, "") /\ call \in Streams
      BY <1>0, <1>8 DEF Promised, Streams
    <3>9. k + 1 = Pre(call)
      BY <2>0, <2>3
    <3>10. Waits(call, pl, k + 1)
      BY <1>2, <1>8
    <3>11. Handed1(call, id, pl, k, m)
      BY <3>7, <3>8, <3>9, <3>10 DEF Handed1, r
    <3> QED BY <3>11 DEF Reads
  <2> QED BY <1>0, <2>0, <2>2, <2>3
<1>9. CASE call \in {"query_typed", "execute_typed"}
  <2>0. Pre(call) = 4 /\ Preamble(call) = <<"ParseComplete", "BindComplete", "ParameterDescription", "RowDescription">>
    BY <1>1, <1>9 DEF Preamble, Bound
  <2>1. k \in {0, 1, 2, 3}
    BY <1>0, <2>0
  <2>2. \A j \in {0, 1, 2, 3, 4} : ItemsAt(call, id, pl, j) = <<>> \/ (call = "query_typed" /\ j # 0)
    BY <1>9 DEF ItemsAt, Collects
  <2>3. k <= Pre(call) /\ k + 1 <= Pre(call)
    BY <2>0, <2>1
  <2>4. ItemsAt(call, id, pl, k) = <<>> /\ ItemsAt(call, id, pl, k + 1) = <<>>
    <3>1. CASE call = "query_typed"
      <4>1. \A j \in {0, 1, 2, 3, 4} : j # 0 => ItemsAt(call, id, pl, j) = Items("DataRow", id, RowsIn(call, pl, j))
        BY <3>1 DEF ItemsAt, Collects
      <4> QED BY <1>3, <1>5, <2>1, <2>2, <4>1
    <3>2. CASE call = "execute_typed"
      BY <2>1, <2>2, <3>2
    <3> QED BY <1>9, <3>1, <3>2
  <2>5. m.is \in {"ParseComplete", "BindComplete", "ParameterDescription", "RowDescription"}
        /\ (m.is = "RowDescription" <=> k = 3)
    BY <1>6, <2>0, <2>1
  <2>6. CASE call = "query_typed"
    <3>1. LoopAt(call, k) = "typed" /\ LoopAt(call, k + 1) = IF k = 3 THEN "rows" ELSE "typed"
      BY <2>1, <2>6 DEF LoopAt, First, Bound
    <3>2. r = Rd(call, "typed", <<>>, 0) /\ ReaderAt(call, id, pl, k + 1) = Rd(call, IF k = 3 THEN "rows" ELSE "typed", <<>>, 0)
      BY <1>r, <2>4, <3>1
    <3>3. "typed" \in Loops /\ m.is # "ErrorResponse"
      BY <2>5 DEF Loops
    <3> HIDE DEF r
    <3>4. poll(r, m) = typed(r, m)
      BY <3>2, <3>3 DEF poll, Rd
    <3>5. Goto(r, "rows") = Rd(call, "rows", <<>>, 0)
      BY <3>2 DEF Rd, Goto, Ok, Err
    <3>6. poll(r, m) = ReaderAt(call, id, pl, k + 1)
      BY <2>5, <3>2, <3>4, <3>5 DEF typed, Described
    <3> QED BY <1>2, <2>6, <3>6 DEF Reads, Next1, r, Streams
  <2>7. CASE call = "execute_typed"
    <3>1. LoopAt(call, k) = "count" /\ LoopAt(call, k + 1) = "count"
      BY <2>1, <2>7 DEF LoopAt, First, Bound
    <3>2. r = Rd(call, "count", <<>>, 0) /\ ReaderAt(call, id, pl, k + 1) = Rd(call, "count", <<>>, 0)
      BY <1>r, <2>4, <3>1
    <3>3. "count" \in Loops /\ m.is # "ErrorResponse"
      BY <2>5 DEF Loops
    <3> HIDE DEF r
    <3>4. poll(r, m) = count(r, m) /\ r.call = "execute_typed"
      BY <2>7, <3>2, <3>3 DEF poll, Rd
    <3>5. poll(r, m) = r
      BY <2>5, <3>4 DEF count, Described
    <3> QED BY <1>2, <2>7, <3>2, <3>5 DEF Reads, Next1, r, Streams
  <2> QED BY <1>9, <2>6, <2>7
<1>10. CASE call \in {"simple_query", "batch_execute"}
  <2>0. Pre(call) = 1 /\ Preamble(call) = <<"RowDescription">> /\ k = 0
    BY <1>0, <1>1, <1>10 DEF Preamble, Bound
  <2>1. m.is = "RowDescription" /\ m = Msg("RowDescription", id, 0)
    BY <1>0, <1>6, <2>0
  <2>2. CASE call = "simple_query"
    <3>1. LoopAt(call, 0) = "simple" /\ LoopAt(call, 1) = "simple_rows" /\ ItemsAt(call, id, pl, 0) = <<>>
      BY <2>2 DEF LoopAt, First, ItemsAt, Bound
    <3>2. ItemsAt(call, id, pl, 1) = <<m>>
      <4>1. 1 \in Nat /\ 1 >= Pre(call) /\ ~(1 > pl.n + 1)
        BY <1>0, <2>0
      <4>3. RowsIn(call, pl, 1) = 0
        BY <1>3, <2>0
      <4>4. ItemsAt(call, id, pl, 1) = <<Msg("RowDescription", id, 0)>> \o Items("DataRow", id, RowsIn(call, pl, 1)) \o <<>>
        BY <2>2, <4>1 DEF ItemsAt, Collects
      <4>2. ItemsAt(call, id, pl, 1) = <<m>> \o <<>> \o <<>>
        BY <1>5, <2>1, <4>3, <4>4
      <4> QED BY <4>2
    <3>3. r = Rd(call, "simple", <<>>, 0) /\ ReaderAt(call, id, pl, k + 1) = Rd(call, "simple_rows", <<m>>, 0)
      BY <1>r, <2>0, <3>1, <3>2
    <3>4. "simple" \in Loops /\ m.is # "ErrorResponse" /\ Append(<<>>, m) = <<m>>
      BY <2>1 DEF Loops
    <3> HIDE DEF r
    <3>5. poll(r, m) = simple(r, m)
      BY <3>3, <3>4 DEF poll, Rd
    <3>6. Goto(r, "simple_rows") = Rd(call, "simple_rows", <<>>, 0)
      BY <3>3 DEF Rd, Goto, Ok, Err
    <3> DEFINE s == Rd(call, "simple_rows", <<>>, 0)
    <3>7. s.call = "simple_query" /\ [s EXCEPT !.items = Append(@, m)] = Rd(call, "simple_rows", <<m>>, 0)
      BY <2>2, <3>4 DEF Rd, Goto, Ok, Err
    <3> HIDE DEF s
    <3>8. Item(s, m) = Rd(call, "simple_rows", <<m>>, 0)
      BY <3>7 DEF Item, Streams
    <3>9. poll(r, m) = Item(s, m)
      BY <2>1, <3>5, <3>6 DEF simple, s
    <3> QED BY <1>2, <2>2, <3>3, <3>8, <3>9 DEF Reads, Next1, r, Streams
  <2>3. CASE call = "batch_execute"
    <3>1. LoopAt(call, 0) = "batch" /\ LoopAt(call, 1) = "batch" /\ ItemsAt(call, id, pl, 0) = <<>> /\ ItemsAt(call, id, pl, 1) = <<>>
      BY <2>3 DEF LoopAt, First, ItemsAt, Bound, Collects
    <3>2. r = Rd(call, "batch", <<>>, 0) /\ ReaderAt(call, id, pl, k + 1) = Rd(call, "batch", <<>>, 0)
      BY <1>r, <2>0, <3>1
    <3>3. "batch" \in Loops /\ m.is # "ErrorResponse"
      BY <2>1 DEF Loops
    <3> HIDE DEF r
    <3>4. poll(r, m) = batch_execute(r, m)
      BY <3>2, <3>3 DEF poll, Rd
    <3>5. poll(r, m) = r
      BY <2>1, <3>4 DEF batch_execute
    <3> QED BY <1>2, <2>3, <3>2, <3>5 DEF Reads, Next1, r, Streams
  <2> QED BY <1>10, <2>2, <2>3
<1>11. CASE call = "is_valid"
  <2>0. Pre(call) = 1 /\ Preamble(call) = <<"EmptyQueryResponse">> /\ k = 0
    BY <1>0, <1>1, <1>11 DEF Preamble, Bound
  <2>1. m.is = "EmptyQueryResponse" /\ m = Msg("EmptyQueryResponse", id, 0)
    BY <1>0, <1>6, <2>0
  <2>2. LoopAt(call, 0) = "simple" /\ LoopAt(call, 1) = "simple" /\ ItemsAt(call, id, pl, 0) = <<>> /\ ItemsAt(call, id, pl, 1) = <<m>>
    BY <1>11, <2>1 DEF LoopAt, First, ItemsAt, Bound, Collects
  <2>3. r = Rd(call, "simple", <<>>, 0) /\ ReaderAt(call, id, pl, k + 1) = Rd(call, "simple", <<m>>, 0)
    BY <1>r, <2>0, <2>2
  <2>4. "simple" \in Loops /\ m.is # "ErrorResponse" /\ Append(<<>>, m) = <<m>>
    BY <2>1 DEF Loops
  <2> HIDE DEF r
  <2>5. poll(r, m) = simple(r, m) /\ r.call = "is_valid" /\ [r EXCEPT !.items = Append(@, m)] = Rd(call, "simple", <<m>>, 0)
    BY <1>11, <2>3, <2>4 DEF poll, Rd
  <2>6. simple(r, m) = Item(r, m)
    BY <2>1 DEF simple
  <2>7. Item(r, m) = Rd(call, "simple", <<m>>, 0)
    BY <2>5 DEF Item, Streams
  <2> QED BY <1>2, <1>11, <2>3, <2>5, <2>6, <2>7 DEF Reads, Next1, r, Streams
<1>12. call \in Bound \cup {"query_typed", "execute_typed", "simple_query", "batch_execute", "is_valid"}
  BY <1>0, <1>1 DEF Bound
<1> QED BY <1>7, <1>8, <1>9, <1>10, <1>11, <1>12

Batches == {"batch_execute", "begin", "commit", "rollback", "drop_tx"}
Counts == {"execute", "execute_typed"}

\* The future once the part before the rows has been read.
RowsReader(call, id, pl, k) ==
  /\ call \in Collects => ReaderAt(call, id, pl, k) =
       Rd(call, "rows", Items("DataRow", id, RowsIn(call, pl, k)), TagAt(call, pl, k))
  /\ call = "query_raw" => ReaderAt(call, id, pl, k) = Rd(call, "rows", <<>>, TagAt(call, pl, k))
  /\ call \in Counts => ReaderAt(call, id, pl, k) = Rd(call, "count", <<>>, TagAt(call, pl, k))
  /\ call = "copy_out" => ReaderAt(call, id, pl, k) = Rd(call, "copy", <<>>, 0)
  /\ call = "simple_query" => ReaderAt(call, id, pl, k) =
       Rd(call, "simple_rows", ItemsAt(call, id, pl, k), 0)
  /\ call = "is_valid" => ReaderAt(call, id, pl, k) = Rd(call, "simple", <<Msg("EmptyQueryResponse", id, 0)>>, 0)
  /\ call \in Batches => ReaderAt(call, id, pl, k) = Rd(call, "batch", <<>>, 0)
  /\ call = "check_connection" => ReaderAt(call, id, pl, k) = Rd(call, "sync", <<>>, 0)

\* The reader once the preamble is read, call by call.
LEMMA ReaderRows ==
  ASSUME NEW call \in Requests, NEW id \in Nat, NEW pl \in Plans(call), NEW k \in Nat, k >= Pre(call)
  PROVE  RowsReader(call, id, pl, k)
<1> DEFINE loop == LoopAt(call, k)
           items == ItemsAt(call, id, pl, k)
<1>a. /\ call \in RowCalls => loop = "rows"
      /\ call \in Counts => loop = "count"
      /\ call = "copy_out" => loop = "copy"
      /\ call = "simple_query" => loop = "simple_rows"
      /\ call = "is_valid" => loop = "simple"
      /\ call \in Batches => loop = "batch"
      /\ call = "check_connection" => loop = "sync"
  BY LoopIs DEF Counts, Batches
<1>b. /\ call \in Collects => items = Items("DataRow", id, RowsIn(call, pl, k))
      /\ call \notin Collects \cup {"simple_query", "is_valid"} => items = <<>>
      /\ call = "is_valid" => items = <<Msg("EmptyQueryResponse", id, 0)>>
  BY ItemsAre
<1> HIDE DEF loop, items
<1>1. ReaderAt(call, id, pl, k) = Rd(call, loop, items, TagAt(call, pl, k))
  BY ReaderRd DEF loop, items
<1>2. call \notin RowCalls \cup Counts => TagAt(call, pl, k) = 0
  BY CallTypes, TagIs DEF Counts
<1>3. call \in Collects => loop = "rows" /\ items = Items("DataRow", id, RowsIn(call, pl, k))
  BY <1>a, <1>b DEF RowCalls
<1>4. call = "query_raw" => loop = "rows" /\ items = <<>>
  BY <1>a, <1>b DEF RowCalls, Collects
<1>5. call \in Counts => loop = "count" /\ items = <<>>
  BY <1>a, <1>b DEF Counts, Collects
<1>6. call = "copy_out" => loop = "copy" /\ items = <<>>
  BY <1>a, <1>b DEF Collects
<1>7. call = "simple_query" => loop = "simple_rows"
  BY <1>a
<1>8. call = "is_valid" => loop = "simple" /\ items = <<Msg("EmptyQueryResponse", id, 0)>>
  BY <1>a, <1>b
<1>9. call \in Batches => loop = "batch" /\ items = <<>>
  <2>1. ASSUME call \in Batches PROVE call \notin Collects \cup {"simple_query", "is_valid"}
    BY <2>1 DEF Batches, Collects
  <2>2. call \in Batches => loop = "batch"
    BY <1>a
  <2>3. call \in Batches => items = <<>>
    BY <2>1, <1>b
  <2> QED BY <2>2, <2>3
<1>10. call = "check_connection" => loop = "sync" /\ items = <<>>
  BY <1>a, <1>b DEF Collects
<1>11. call \in {"copy_out", "simple_query", "is_valid", "check_connection"} \cup Batches => call \notin RowCalls \cup Counts
  BY DEF Batches, RowCalls, Collects, Counts
<1> QED BY <1>1, <1>2, <1>3, <1>4, <1>5, <1>6, <1>7, <1>8, <1>9, <1>10, <1>11 DEF RowsReader, items

\* The calls whose answers have rows.
LEMMA RowsOnlyIn ==
  ASSUME NEW call \in Requests, NEW pl \in Plans(call), pl.n # 0
  PROVE  call \in RowCalls \cup Counts \cup {"copy_out", "simple_query", "batch_execute"}
<1>1. call \notin {"bind", "check_connection", "is_valid", "begin", "commit", "rollback", "drop_tx"}
  BY CallTypes, PlanIs
<1> QED BY <1>1 DEF RowCalls, Collects, Counts, Requests, Bound

LEMMA RdPush ==
  ASSUME NEW call, NEW pc, NEW xs, NEW n, NEW ys, NEW r, r = Rd(call, pc, xs, n)
  PROVE  [r EXCEPT !.items = ys] = Rd(call, pc, ys, n)
BY DEF Rd

\* A row.
LEMMA ReadRow ==
  ASSUME NEW call \in Requests, NEW id \in Nat, NEW pl \in Plans(call), NEW k, NEW m,
         Waits(call, pl, k), IsRow(pl, call, id, k, m)
  PROVE  Reads(call, id, pl, k, m)
<1>0. call \in Calls /\ k \in Nat /\ pl.n \in Nat /\ pl.end \in {"ok", "fail", "more"} /\ Pre(call) \in Nat
  BY CallTypes, PlanIs, PreIs DEF Waits, IsRow
<1>1. pl.end # "reject" /\ k >= Pre(call) /\ k < Pre(call) + pl.n /\ m = Msg(BodyIs(call), id, k - Pre(call) + 1)
  BY DEF IsRow
<1>2. pl.n # 0 /\ k + 1 \in Nat /\ k + 1 >= Pre(call) /\ k + 1 <= Pre(call) + pl.n
  BY <1>0, <1>1
<1>3. RowsIn(call, pl, k) = k - Pre(call) /\ RowsIn(call, pl, k + 1) = k - Pre(call) + 1 /\ k - Pre(call) \in Nat
  <2>1. RowsIn(call, pl, k + 1) = (k + 1) - Pre(call) /\ RowsIn(call, pl, k) = k - Pre(call)
    BY <1>0, <1>1, <1>2, RowsInIs
  <2> QED BY <1>0, <1>1, <2>1
<1>4. TagAt(call, pl, k) = 0 /\ TagAt(call, pl, k + 1) = 0
  <2>1. k <= Pre(call) + pl.n /\ k + 1 <= Pre(call) + pl.n
    BY <1>0, <1>1
  <2> QED BY <1>0, <1>2, <2>1, TagIs
<1> DEFINE j == k - Pre(call)
           r == ReaderAt(call, id, pl, k)
           s == ReaderAt(call, id, pl, k + 1)
<1>5. call \in RowCalls \cup Counts \cup {"copy_out", "simple_query", "batch_execute"}
  BY <1>2, RowsOnlyIn
<1>w. call \in {"query_opt", "query_one"} /\ pl.n > 1 => k <= Pre(call) + 1
  BY DEF Waits
<1>6. ~(call \in {"query_opt", "query_one"} /\ j # 0) => Waits(call, pl, k + 1)
  <2>1. call # "bind"
    BY <1>5 DEF RowCalls, Counts, Collects
  <2>2. ASSUME ~(call \in {"query_opt", "query_one"} /\ j # 0), call \in {"query_opt", "query_one"} /\ pl.n > 1
        PROVE  k + 1 <= Pre(call) + 1
    BY <1>0, <1>1, <2>2
  <2> QED BY <1>0, <1>1, <1>2, <2>1, <2>2, WaitsNext
<1>a. RowsReader(call, id, pl, k) /\ RowsReader(call, id, pl, k + 1)
  BY <1>0, <1>1, <1>2, ReaderRows
<1>7. CASE call \in RowCalls
  <2>1. m = Msg("DataRow", id, j + 1) /\ m.is = "DataRow" /\ "DataRow" \in Kinds
    <3>1. BodyIs(call) = "DataRow"
      BY <1>7 DEF BodyIs, RowCalls, Collects
    <3> QED BY <1>1, <3>1 DEF Msg, Kinds
  <2>2. CASE call = "query_raw"
    <3>1. r = Rd(call, "rows", <<>>, 0) /\ s = Rd(call, "rows", <<>>, 0)
      BY <1>4, <1>a, <2>2 DEF RowsReader
    <3> HIDE DEF r, s
    <3>2. poll(r, m) = rows(r, m)
      BY <2>1, <3>1 DEF poll, Rd
    <3>3. rows(r, m) = [r EXCEPT !.res = Result("ok", <<m>>, 0, "")]
      BY <2>1, <2>2, <3>1 DEF rows, Item, Rd, Streams
    <3>4. PromisedItem(call, id, pl, RowsIn(call, pl, k)) = Result("ok", <<m>>, 0, "")
      <4>1. j < pl.n
        BY <1>0, <1>1
      <4> QED BY <1>3, <2>1, <2>2, <4>1 DEF PromisedItem
    <3>5. Result("ok", <<m>>, 0, "").is = "ok" /\ call \in Streams
      BY <2>2 DEF Result, Streams
    <3>6. Waits(call, pl, k + 1)
      BY <1>6, <2>2
    <3>7. poll(r, m) = [s EXCEPT !.res = PromisedItem(call, id, pl, RowsIn(call, pl, k))]
      BY <3>1, <3>2, <3>3, <3>4
    <3>8. Given1(call, id, pl, k, m)
      BY <1>1, <3>4, <3>5, <3>6, <3>7 DEF Given1, r, s
    <3> QED BY <3>8 DEF Reads
  <2>3. CASE call \in Collects
    <3> DEFINE xs == Items("DataRow", id, j)
               ys == Items("DataRow", id, j + 1)
    <3>1. r = Rd(call, "rows", xs, 0) /\ s = Rd(call, "rows", ys, 0)
      BY <1>3, <1>4, <1>a, <2>3 DEF RowsReader
    <3>2. Append(xs, m) = ys /\ (xs = <<>> <=> j = 0)
      BY <1>3, <2>1, ItemsIs
    <3> HIDE DEF r, s, xs, ys
    <3>3. poll(r, m) = rows(r, m)
      BY <2>1, <3>1 DEF poll, Rd
    <3>4. rows(r, m) = Item(r, m) /\ r.call = call /\ r.items = xs /\ call \notin Streams
      BY <2>1, <2>3, <3>1 DEF rows, Rd, Streams, Collects
    <3>5. CASE call \in {"query_opt", "query_one"} /\ j # 0
      <4>1. Item(r, m) = Err(r, "row_count")
        BY <3>2, <3>4, <3>5 DEF Item
      <4>2. pl.n > 1
        BY <1>0, <1>1, <3>5
      <4>3. Promised(call, id, pl) = Result("err", <<>>, 0, "row_count")
        BY <1>1, <3>5, <4>2 DEF Promised, Streams
      <4>4. poll(r, m).res = Promised(call, id, pl)
        BY <3>1, <3>3, <3>4, <4>1, <4>3 DEF Err, Rd
      <4>5. Done1(call, id, pl, k, m)
        BY <3>4, <4>4 DEF Done1, r
      <4> QED BY <4>5 DEF Reads
    <3>6. CASE ~(call \in {"query_opt", "query_one"} /\ j # 0)
      <4>0. r.call \notin Streams /\ ~(r.call \in {"query_opt", "query_one"} /\ r.items # <<>>)
        BY <3>2, <3>4, <3>6
      <4>1. Item(r, m) = [r EXCEPT !.items = Append(@, m)]
        BY <4>0 DEF Item
      <4>2. [r EXCEPT !.items = Append(@, m)] = s
        <5>1. [r EXCEPT !.items = ys] = Rd(call, "rows", ys, 0)
          BY <3>1, RdPush
        <5> QED BY <3>1, <3>2, <3>4, <5>1
      <4>3. poll(r, m) = s
        BY <3>3, <3>4, <4>1, <4>2
      <4>4. Next1(call, id, pl, k, m)
        BY <1>6, <3>4, <3>6, <4>3 DEF Next1, r, s
      <4> QED BY <4>4 DEF Reads
    <3> QED BY <3>5, <3>6
  <2> QED BY <1>7, <2>2, <2>3 DEF RowCalls
<1>8. CASE call = "copy_out"
  <2>1. m = Msg("CopyData", id, j + 1) /\ m.is = "CopyData"
    BY <1>1, <1>8 DEF Msg, BodyIs
  <2>2. r = Rd(call, "copy", <<>>, 0) /\ s = Rd(call, "copy", <<>>, 0)
    BY <1>8, <1>a DEF RowsReader
  <2> HIDE DEF r, s
  <2>3. poll(r, m) = copy(r, m)
    BY <2>1, <2>2 DEF poll, Rd
  <2>4. copy(r, m) = [r EXCEPT !.res = Result("ok", <<m>>, 0, "")]
    BY <1>8, <2>1, <2>2 DEF copy, Item, Rd, Streams
  <2>5. PromisedItem(call, id, pl, RowsIn(call, pl, k)) = Result("ok", <<m>>, 0, "")
    <3>1. j < pl.n
      BY <1>0, <1>1
    <3> QED BY <1>3, <1>8, <2>1, <3>1 DEF PromisedItem
  <2>6. Result("ok", <<m>>, 0, "").is = "ok" /\ call \in Streams
    BY <1>8 DEF Result, Streams
  <2>7. Waits(call, pl, k + 1)
    BY <1>6, <1>8
  <2>8. poll(r, m) = [s EXCEPT !.res = PromisedItem(call, id, pl, RowsIn(call, pl, k))]
    BY <2>2, <2>3, <2>4, <2>5
  <2>9. Given1(call, id, pl, k, m)
    BY <1>1, <2>5, <2>6, <2>7, <2>8 DEF Given1, r, s
  <2> QED BY <2>9 DEF Reads
<1>9. CASE call \in Counts \cup {"batch_execute"}
  <2>1. m.is = "DataRow"
    BY <1>1, <1>9 DEF Msg, BodyIs, Counts
  <2>2. /\ call \in Counts => r = Rd(call, "count", <<>>, 0) /\ s = Rd(call, "count", <<>>, 0)
        /\ call = "batch_execute" => r = Rd(call, "batch", <<>>, 0) /\ s = Rd(call, "batch", <<>>, 0)
    BY <1>4, <1>a DEF RowsReader, Batches
  <2>3. Waits(call, pl, k + 1)
    BY <1>6, <1>9 DEF Counts
  <2> HIDE DEF r, s
  <2>4. CASE call \in Counts
    <3>1. poll(r, m) = count(r, m)
      BY <2>1, <2>2, <2>4 DEF poll, Rd
    <3>2. poll(r, m) = s
      BY <2>1, <2>2, <2>4, <3>1 DEF count, Described
    <3>3. Next1(call, id, pl, k, m)
      BY <2>3, <2>4, <3>2 DEF Next1, r, s, Streams, Counts
    <3> QED BY <3>3 DEF Reads
  <2>5. CASE call = "batch_execute"
    <3>1. poll(r, m) = batch_execute(r, m)
      BY <2>1, <2>2, <2>5 DEF poll, Rd
    <3>2. poll(r, m) = s
      BY <2>1, <2>2, <2>5, <3>1 DEF batch_execute
    <3>3. Next1(call, id, pl, k, m)
      BY <2>3, <2>5, <3>2 DEF Next1, r, s, Streams
    <3> QED BY <3>3 DEF Reads
  <2> QED BY <1>9, <2>4, <2>5
<1>10. CASE call = "simple_query"
  <2> DEFINE d == Msg("RowDescription", id, 0)
             xs == Items("DataRow", id, j)
             ys == Items("DataRow", id, j + 1)
  <2>0. Pre(call) = 1
    BY <1>10, PreLen DEF Bound
  <2>1. m = Msg("DataRow", id, j + 1) /\ m.is = "DataRow"
    BY <1>1, <1>10 DEF Msg, BodyIs
  <2>2. d \in Msgs /\ m \in Msgs /\ xs \in Seq(Msgs) /\ Append(xs, m) = ys
    <3>1. "DataRow" \in Kinds /\ "RowDescription" \in Kinds
      BY DEF Kinds
    <3>2. xs \in Seq(Msgs) /\ Append(xs, Msg("DataRow", id, j + 1)) = ys
      BY <1>3, <3>1, ItemsIs
    <3>3. d \in Msgs /\ m \in Msgs
      BY <1>3, <2>1, <3>1 DEF Msg, Msgs
    <3> QED BY <2>1, <3>2, <3>3
  <2>3. ItemsAt(call, id, pl, k) = <<d>> \o xs /\ ItemsAt(call, id, pl, k + 1) = <<d>> \o ys
    <3>1. ~(k > pl.n + 1) /\ ~(k + 1 > pl.n + 1)
      BY <1>0, <1>1, <2>0
    <3>2. ItemsAt(call, id, pl, k) = <<d>> \o Items("DataRow", id, RowsIn(call, pl, k)) \o <<>>
      BY <1>0, <1>1, <1>10, <2>0, <3>1 DEF ItemsAt, Collects
    <3>3. ItemsAt(call, id, pl, k + 1) = <<d>> \o Items("DataRow", id, RowsIn(call, pl, k + 1)) \o <<>>
      BY <1>2, <1>10, <2>0, <3>1 DEF ItemsAt, Collects
    <3>4. ys \in Seq(Msgs)
      <4>1. "DataRow" \in Kinds /\ j + 1 \in Nat
        BY <1>3 DEF Kinds
      <4> QED BY <4>1, ItemsIs
    <3>5. <<d>> \o xs \o <<>> = <<d>> \o xs /\ <<d>> \o ys \o <<>> = <<d>> \o ys
      BY <2>2, <3>4, SimpleItems
    <3>6. ItemsAt(call, id, pl, k) = <<d>> \o xs \o <<>> /\ ItemsAt(call, id, pl, k + 1) = <<d>> \o ys \o <<>>
      BY <1>3, <3>2, <3>3
    <3> QED BY <3>5, <3>6
  <2>5. Append(<<d>> \o xs, m) = <<d>> \o ys
    <3> HIDE DEF d, xs, ys
    <3>1. Append(<<d>> \o xs, m) = <<d>> \o Append(xs, m)
      BY <2>2, SimpleItems, Zenon
    <3> QED BY <2>2, <3>1
  <2> DEFINE us == <<d>> \o xs
             vs == <<d>> \o ys
  <2>4. r = Rd(call, "simple_rows", us, 0) /\ s = Rd(call, "simple_rows", vs, 0) /\ Append(us, m) = vs
    BY <1>10, <1>a, <2>3, <2>5 DEF RowsReader
  <2> HIDE DEF r, s, us, vs
  <2>6. poll(r, m) = simple(r, m)
    BY <2>1, <2>4 DEF poll, Rd
  <2>7. simple(r, m) = Item(r, m)
    BY <2>1, <2>4 DEF simple, Rd
  <2>8. Item(r, m) = [r EXCEPT !.items = Append(@, m)]
    BY <1>10, <2>4 DEF Item, Rd, Streams
  <2>9. [r EXCEPT !.items = Append(@, m)] = s
    <3>1. r.items = us
      BY <2>4 DEF Rd
    <3>2. Append(r.items, m) = vs
      BY <2>4, <3>1
    <3>3. [r EXCEPT !.items = vs] = s
      BY <2>4 DEF Rd
    <3> QED BY <3>2, <3>3
  <2>10. poll(r, m) = s
    BY <2>6, <2>7, <2>8, <2>9
  <2>11. Waits(call, pl, k + 1)
    BY <1>6, <1>10
  <2>12. Next1(call, id, pl, k, m)
    BY <1>10, <2>10, <2>11 DEF Next1, r, s, Streams
  <2> QED BY <2>12 DEF Reads
<1> QED BY <1>5, <1>7, <1>8, <1>9, <1>10

\* What follows the rows.
LEMMA ReadTag ==
  ASSUME NEW call \in Requests, NEW id \in Nat, NEW pl \in Plans(call), NEW k, NEW m,
         Waits(call, pl, k), IsTag(pl, call, id, k, m)
  PROVE  Reads(call, id, pl, k, m)
<1>0. call \in Calls /\ k \in Nat /\ pl.n \in Nat /\ pl.end \in {"ok", "more"} /\ Pre(call) \in Nat /\ Post(call, pl) \in Nat
  BY CallTypes, PlanIs, PreIs, PostIs DEF Waits, IsTag
<1>1. k >= Pre(call) + pl.n /\ k < Pre(call) + pl.n + Post(call, pl) /\ m = Epilogue(call, id, pl)[k - Pre(call) - pl.n + 1]
  BY DEF IsTag
<1>2. /\ pl.end = "more" => Post(call, pl) = 1 /\ Epilogue(call, id, pl)[1] = Msg("PortalSuspended", id, 0)
      /\ call = "copy_out" =>
           Post(call, pl) = 2 /\ Epilogue(call, id, pl)[1] = Msg("CopyDone", id, 0)
      /\ call \in {"bind", "is_valid", "check_connection"} => Post(call, pl) = 0
      /\ pl.end = "ok" /\ call \notin {"copy_out", "bind", "is_valid", "check_connection", "close_portal"} =>
           Post(call, pl) = 1 /\ Epilogue(call, id, pl)[1] = Msg("CommandComplete", id, pl.n)
  <2>1. pl.end = "more" => Post(call, pl) = 1 /\ Epilogue(call, id, pl)[1] = Msg("PortalSuspended", id, 0)
    BY <1>0, PostIs
  <2>2. call = "copy_out" => Post(call, pl) = 2 /\ Epilogue(call, id, pl)[1] = Msg("CopyDone", id, 0)
    BY <1>0, PostIs
  <2>3. call \in {"bind", "is_valid", "check_connection"} => Post(call, pl) = 0
    BY <1>0, PostIs
  <2>4. pl.end = "ok" /\ call \notin {"copy_out", "bind", "is_valid", "check_connection", "close_portal"} =>
          Post(call, pl) = 1 /\ Epilogue(call, id, pl)[1] = Msg("CommandComplete", id, pl.n)
    BY <1>0, PostIs
  <2> QED BY <2>1, <2>2, <2>3, <2>4
<1>3. call = "copy_out" => k <= Pre(call) + pl.n
  BY DEF Waits
<1>4. k = Pre(call) + pl.n /\ m = Epilogue(call, id, pl)[1] /\ Post(call, pl) >= 1
  <2>1. call # "close_portal"
    BY CallTypes
  <2>2. Post(call, pl) = 1 \/ call = "copy_out"
    BY <1>0, <1>1, <1>2, <2>1
  <2>3. k = Pre(call) + pl.n
    BY <1>0, <1>1, <1>3, <2>2
  <2> QED BY <1>0, <1>1, <2>3
<1>5. k >= Pre(call) /\ k + 1 >= Pre(call) /\ k + 1 \in Nat /\ k + 1 >= Pre(call) + pl.n
  BY <1>0, <1>4
<1>6. RowsIn(call, pl, k) = pl.n /\ RowsIn(call, pl, k + 1) = pl.n
  BY <1>0, <1>1, <1>5, RowsInIs
<1>7. TagAt(call, pl, k) = 0
  <2>1. k <= Pre(call) + pl.n
    BY <1>0, <1>4
  <2> QED BY <1>0, <2>1, TagIs
<1>8. RowsReader(call, id, pl, k) /\ RowsReader(call, id, pl, k + 1)
  BY <1>0, <1>5, ReaderRows
<1> DEFINE r == ReaderAt(call, id, pl, k)
           s == ReaderAt(call, id, pl, k + 1)
<1>w. call # "copy_out" => Waits(call, pl, k + 1)
  <2>1. call # "bind"
    BY <1>0, <1>2, <1>4
  <2>2. call \in {"query_opt", "query_one"} /\ pl.n > 1 => k <= Pre(call) + 1
    BY DEF Waits
  <2>3. ~(call \in {"query_opt", "query_one"} /\ pl.n > 1)
    BY <1>0, <1>4, <2>2
  <2> QED BY <1>0, <1>4, <2>1, <2>2, <2>3, WaitsNext
<1>9. CASE pl.end = "more"
  <2>1. call = "query_portal" /\ m.is = "PortalSuspended"
    BY <1>0, <1>2, <1>4, <1>9, PlanIs DEF Msg
  <2>2. TagAt(call, pl, k + 1) = 0
    BY <1>0, <1>5, <1>9, TagIs
  <2> DEFINE xs == Items("DataRow", id, pl.n)
  <2>3. r = Rd(call, "rows", xs, 0) /\ s = Rd(call, "rows", xs, 0)
    BY <1>6, <1>7, <1>8, <2>1, <2>2 DEF RowsReader, Collects
  <2> HIDE DEF r, s, xs
  <2>4. poll(r, m) = rows(r, m)
    BY <2>1, <2>3 DEF poll, Rd
  <2>5. rows(r, m) = r
    BY <2>1 DEF rows
  <2>6. poll(r, m) = s
    BY <2>3, <2>4, <2>5
  <2>7. Next1(call, id, pl, k, m)
    BY <1>1, <1>w, <2>1, <2>6 DEF Next1, r, s
  <2> QED BY <2>7 DEF Reads
<1>10. CASE pl.end = "ok" /\ call = "copy_out"
  <2>1. m.is = "CopyDone"
    BY <1>2, <1>4, <1>10 DEF Msg
  <2>2. r = Rd(call, "copy", <<>>, 0)
    BY <1>8, <1>10 DEF RowsReader
  <2> HIDE DEF r
  <2>3. poll(r, m) = copy(r, m)
    BY <2>1, <2>2 DEF poll, Rd
  <2>4. copy(r, m).res = Result("none", <<>>, 0, "")
    BY <1>10, <2>1, <2>2 DEF copy, End, Rd, Streams
  <2>5. PromisedItem(call, id, pl, RowsIn(call, pl, k)) = Result("none", <<>>, 0, "")
    <3>1. ~(pl.n < pl.n)
      BY <1>0
    <3> QED BY <1>6, <1>10, <3>1 DEF PromisedItem
  <2>6. Result("none", <<>>, 0, "").is # "ok" /\ call \in Streams
    BY <1>10 DEF Result, Streams
  <2>7. Over1(call, id, pl, k, m)
    BY <1>1, <2>3, <2>4, <2>5, <2>6 DEF Over1, r
  <2> QED BY <2>7 DEF Reads
<1>11. CASE pl.end = "ok" /\ call # "copy_out"
  <2>1. m = Msg("CommandComplete", id, pl.n) /\ m.is = "CommandComplete" /\ m.n = pl.n
    <3>1. call \notin {"bind", "is_valid", "check_connection"}
      BY <1>2, <1>4, <1>0
    <3>2. call # "close_portal"
      BY CallTypes
    <3>3. m = Msg("CommandComplete", id, pl.n)
      BY <1>2, <1>4, <1>11, <3>1, <3>2
    <3> QED BY <3>3 DEF Msg
  <2>2. call \in RowCalls \cup Counts \cup Batches \cup {"simple_query"}
    <3>1. call \notin {"bind", "is_valid", "check_connection"}
      BY <1>2, <1>4, <1>0
    <3> QED BY <1>11, <3>1 DEF RowCalls, Counts, Batches, Collects, Requests, Bound
  <2>3. call \in RowCalls \cup Counts => TagAt(call, pl, k + 1) = pl.n
    <3>1. k + 1 = Pre(call) + pl.n + 1
      BY <1>4
    <3> QED BY <1>0, <1>5, <1>11, <3>1, TagIs DEF Counts
  <2>4. Waits(call, pl, k + 1)
    BY <1>w, <1>11
  <2>5. poll(r, m) = s
    <3>1. CASE call \in RowCalls
      <4> DEFINE xs == IF call = "query_raw" THEN <<>> ELSE Items("DataRow", id, pl.n)
      <4>1. r = Rd(call, "rows", xs, 0) /\ s = Rd(call, "rows", xs, pl.n)
        <5>1. CASE call = "query_raw"
          BY <1>7, <1>8, <2>3, <3>1, <5>1 DEF RowsReader
        <5>2. CASE call \in Collects
          <6>1. call # "query_raw"
            BY <5>2 DEF Collects
          <6> QED BY <1>6, <1>7, <1>8, <2>3, <3>1, <5>2, <6>1 DEF RowsReader
        <5> QED BY <3>1, <5>1, <5>2 DEF RowCalls
      <4> HIDE DEF r, s, xs
      <4>2. poll(r, m) = rows(r, m)
        BY <2>1, <4>1 DEF poll, Rd
      <4>3. rows(r, m) = [r EXCEPT !.n = pl.n]
        BY <2>1 DEF rows
      <4>4. [r EXCEPT !.n = pl.n] = s
        BY <4>1 DEF Rd
      <4> QED BY <4>2, <4>3, <4>4
    <3>2. CASE call \in Counts
      <4>1. r = Rd(call, "count", <<>>, 0) /\ s = Rd(call, "count", <<>>, pl.n)
        BY <1>7, <1>8, <2>3, <3>2 DEF RowsReader
      <4> HIDE DEF r, s
      <4>2. poll(r, m) = count(r, m)
        BY <2>1, <4>1 DEF poll, Rd
      <4>3. count(r, m) = [r EXCEPT !.n = pl.n]
        BY <2>1 DEF count, Described
      <4>4. [r EXCEPT !.n = pl.n] = s
        BY <4>1 DEF Rd
      <4> QED BY <4>2, <4>3, <4>4
    <3>3. CASE call \in Batches
      <4>1. r = Rd(call, "batch", <<>>, 0) /\ s = Rd(call, "batch", <<>>, 0)
        BY <1>8, <3>3 DEF RowsReader
      <4> HIDE DEF r, s
      <4>2. poll(r, m) = batch_execute(r, m)
        BY <2>1, <4>1 DEF poll, Rd
      <4>3. batch_execute(r, m) = r
        BY <2>1 DEF batch_execute
      <4> QED BY <4>1, <4>2, <4>3
    <3>4. CASE call = "simple_query"
      <4> DEFINE d == Msg("RowDescription", id, 0)
                 xs == Items("DataRow", id, pl.n)
                 us == <<d>> \o xs
                 vs == <<d>> \o xs \o <<m>>
      <4>0. Pre(call) = 1
        BY <3>4, PreLen DEF Bound
      <4>1. d \in Msgs /\ m \in Msgs /\ xs \in Seq(Msgs)
        <5>1. "DataRow" \in Kinds /\ "RowDescription" \in Kinds /\ "CommandComplete" \in Kinds
          BY DEF Kinds
        <5>2. xs \in Seq(Msgs)
          BY <1>0, <5>1, ItemsIs
        <5>3. d \in Msgs /\ m \in Msgs
          BY <1>0, <2>1, <5>1 DEF Msg, Msgs
        <5> QED BY <5>2, <5>3
      <4>2. ItemsAt(call, id, pl, k) = us /\ ItemsAt(call, id, pl, k + 1) = vs
        <5>1. ~(k > pl.n + 1) /\ k + 1 > pl.n + 1 /\ k # 0 /\ k + 1 # 0
          BY <1>0, <1>4, <4>0
        <5>2. ItemsAt(call, id, pl, k) = <<d>> \o xs \o <<>>
          BY <1>6, <3>4, <5>1 DEF ItemsAt, Collects
        <5>3. ItemsAt(call, id, pl, k + 1) = <<d>> \o xs \o <<Msg("CommandComplete", id, pl.n)>>
          BY <1>6, <3>4, <5>1 DEF ItemsAt, Collects
        <5> HIDE DEF d, xs
        <5>4. <<d>> \o xs \o <<>> = <<d>> \o xs
          BY <4>1, SimpleItems, Zenon
        <5> QED BY <2>1, <5>2, <5>3, <5>4
      <4>3. Append(us, m) = vs
        <5> HIDE DEF d, xs
        <5> QED BY <4>1, SimpleItems, Zenon
      <4>4. r = Rd(call, "simple_rows", us, 0) /\ s = Rd(call, "simple_rows", vs, 0)
        BY <1>8, <3>4, <4>2 DEF RowsReader
      <4> HIDE DEF r, s, us, vs
      <4>5. poll(r, m) = simple(r, m)
        BY <2>1, <4>4 DEF poll, Rd
      <4>6. simple(r, m) = Item(r, m)
        BY <2>1 DEF simple
      <4>7. Item(r, m) = [r EXCEPT !.items = Append(@, m)]
        BY <3>4, <4>4 DEF Item, Rd, Streams
      <4>8. [r EXCEPT !.items = Append(@, m)] = s
        BY <4>3, <4>4 DEF Rd
      <4> QED BY <4>5, <4>6, <4>7, <4>8
    <3> QED BY <2>2, <3>1, <3>2, <3>3, <3>4
  <2>6. Next1(call, id, pl, k, m)
    BY <1>1, <2>4, <2>5 DEF Next1
  <2> QED BY <2>6 DEF Reads
<1> QED BY <1>0, <1>9, <1>10, <1>11

\* The end of the answer.
LEMMA ReadLast ==
  ASSUME NEW call \in Requests, NEW id \in Nat, NEW pl \in Plans(call), NEW k, NEW m,
         Waits(call, pl, k), IsLast(pl, call, id, k, m)
  PROVE  Reads(call, id, pl, k, m)
<1>0. call \in Calls /\ k \in Nat /\ pl.n \in Nat /\ pl.end \in {"ok", "more"} /\ Pre(call) \in Nat /\ Post(call, pl) \in Nat
  BY CallTypes, PlanIs, PreIs, PostIs DEF Waits, IsLast
<1>1. call # "copy_out" /\ k = Pre(call) + pl.n + Post(call, pl) /\ m.is = "ReadyForQuery"
  BY DEF IsLast, Msg
<1>2. call # "bind"
  <2>1. call = "bind" => k = 0 /\ Pre(call) = 1
    BY PreLen DEF Waits, Bound
  <2> QED BY <1>0, <1>1, <2>1
<1>3. /\ pl.end = "more" => call = "query_portal"
      /\ call \in {"check_connection", "is_valid"} => Post(call, pl) = 0
      /\ call \notin {"check_connection", "is_valid"} => Post(call, pl) = 1
  <2>1. pl.end = "more" => call = "query_portal" /\ Post(call, pl) = 1
    BY <1>0, PlanIs, PostIs
  <2>2. call \in {"check_connection", "is_valid"} => Post(call, pl) = 0
    BY <1>0, PostIs
  <2>3. pl.end = "ok" /\ call \notin {"copy_out", "bind", "is_valid", "check_connection", "close_portal"} => Post(call, pl) = 1
    BY <1>0, PostIs
  <2>4. call # "close_portal"
    BY CallTypes
  <2> QED BY <1>0, <1>1, <1>2, <2>1, <2>2, <2>3, <2>4
<1>4. k >= Pre(call) /\ k >= Pre(call) + pl.n
  BY <1>0, <1>1
<1>5. RowsIn(call, pl, k) = pl.n
  BY <1>0, <1>4, RowsInIs
<1>6. RowsReader(call, id, pl, k)
  BY <1>0, <1>4, ReaderRows
<1>7. call \in RowCalls \cup Counts => TagAt(call, pl, k) = IF pl.end = "more" THEN 0 ELSE pl.n
  <2>1. ASSUME call \in RowCalls \cup Counts PROVE k = Pre(call) + pl.n + 1
    <3>1. call \notin {"check_connection", "is_valid"}
      BY <2>1 DEF RowCalls, Counts, Collects
    <3> QED BY <1>0, <1>1, <1>3, <3>1
  <2>2. pl.end # "ok" => TagAt(call, pl, k) = 0
    BY <1>0, TagIs
  <2>3. call \in RowCalls \cup {"execute", "execute_typed"} /\ pl.end = "ok" /\ k = Pre(call) + pl.n + 1 =>
          TagAt(call, pl, k) = pl.n
    BY <1>0, TagIs
  <2> QED BY <1>0, <2>1, <2>2, <2>3 DEF Counts
<1> DEFINE r == ReaderAt(call, id, pl, k)
<1>8. CASE call = "query_raw"
  <2>1. r = Rd(call, "rows", <<>>, pl.n)
    BY <1>0, <1>3, <1>6, <1>7, <1>8 DEF RowsReader, RowCalls
  <2> HIDE DEF r
  <2>2. poll(r, m) = rows(r, m)
    BY <1>1, <2>1 DEF poll, Rd
  <2>3. rows(r, m).res = Result("none", <<>>, pl.n, "")
    BY <1>1, <1>8, <2>1 DEF rows, End, Rd, Streams
  <2>4. PromisedItem(call, id, pl, RowsIn(call, pl, k)) = Result("none", <<>>, pl.n, "")
    <3>1. ~(pl.n < pl.n)
      BY <1>0
    <3> QED BY <1>0, <1>5, <1>8, <3>1 DEF PromisedItem
  <2>5. Result("none", <<>>, pl.n, "").is # "ok" /\ call \in Streams
    BY <1>8 DEF Result, Streams
  <2>6. Over1(call, id, pl, k, m)
    BY <1>4, <2>2, <2>3, <2>4, <2>5 DEF Over1, r
  <2> QED BY <2>6 DEF Reads
<1>9. ASSUME call \notin Streams, poll(r, m).res = Promised(call, id, pl) PROVE Reads(call, id, pl, k, m)
  <2>1. Done1(call, id, pl, k, m)
    BY <1>9 DEF Done1
  <2> QED BY <2>1 DEF Reads
<1>10. CASE call \in Collects
  <2> DEFINE xs == Items("DataRow", id, pl.n)
             t == IF pl.end = "more" THEN 0 ELSE pl.n
  <2>0. call \notin Streams /\ call \notin {"bind", "check_connection", "execute", "execute_typed", "is_valid", "simple_query", "batch_execute"}
        /\ call \notin Control
    BY <1>10 DEF Collects, Streams, Control
  <2>1. r = Rd(call, "rows", xs, t)
    BY <1>5, <1>6, <1>7, <1>10 DEF RowsReader, RowCalls
  <2>2. xs = <<>> <=> pl.n = 0
    <3>1. "DataRow" \in Kinds
      BY DEF Kinds
    <3> QED BY <1>0, <3>1, ItemsIs
  <2>3. ~(call \in {"query_opt", "query_one"} /\ pl.n > 1)
    <3>1. call \in {"query_opt", "query_one"} /\ pl.n > 1 => k <= Pre(call) + 1
      BY DEF Waits
    <3> QED BY <1>0, <1>1, <3>1
  <2>4. Promised(call, id, pl) = IF call = "query_one" /\ pl.n = 0 THEN Result("err", <<>>, 0, "row_count")
                                 ELSE Result("ok", xs, t, "")
    <3>1. pl.end # "reject" /\ pl.end \in {"ok", "more"}
      BY <1>0
    <3> QED BY <2>0, <2>3, <3>1 DEF Promised
  <2> HIDE DEF r, xs, t
  <2>5. poll(r, m) = End(r)
    <3>1. poll(r, m) = rows(r, m)
      BY <1>1, <2>1 DEF poll, Rd
    <3> QED BY <1>1, <3>1 DEF rows
  <2>6. End(r).res = IF call = "query_one" /\ pl.n = 0 THEN Result("err", <<>>, 0, "row_count")
                     ELSE Result("ok", xs, t, "")
    <3>1. CASE call = "query_one" /\ pl.n = 0
      BY <2>0, <2>1, <2>2, <3>1 DEF End, Err, Rd
    <3>2. CASE ~(call = "query_one" /\ pl.n = 0)
      BY <2>0, <2>1, <2>2, <3>2 DEF End, Ok, Rd
    <3> QED BY <3>1, <3>2
  <2>7. poll(r, m).res = Promised(call, id, pl)
    BY <2>4, <2>5, <2>6
  <2> QED BY <1>9, <2>0, <2>7
<1>11. CASE call \in Counts
  <2>0. call \notin Streams /\ pl.end = "ok"
    BY <1>0, <1>3, <1>11 DEF Counts, Streams
  <2>1. r = Rd(call, "count", <<>>, pl.n)
    BY <1>6, <1>7, <1>11, <2>0 DEF RowsReader
  <2>2. Promised(call, id, pl) = Result("ok", <<>>, pl.n, "")
    BY <1>11, <2>0 DEF Promised, Counts, Streams, Control
  <2> HIDE DEF r
  <2>3. poll(r, m) = count(r, m)
    BY <1>1, <2>1 DEF poll, Rd
  <2>4. count(r, m) = Ok(r)
    BY <1>1 DEF count, Described
  <2>5. poll(r, m).res = Promised(call, id, pl)
    BY <2>1, <2>2, <2>3, <2>4 DEF Ok, Rd
  <2> QED BY <1>9, <2>0, <2>5
<1>12. CASE call \in Batches
  <2>0. call \notin Streams /\ pl.end = "ok"
    BY <1>0, <1>3, <1>12 DEF Batches, Streams
  <2>1. r = Rd(call, "batch", <<>>, 0)
    BY <1>6, <1>12 DEF RowsReader
  <2>2. Promised(call, id, pl) = Result("ok", <<>>, 0, "")
    BY <1>12, <2>0 DEF Promised, Batches, Control
  <2> HIDE DEF r
  <2>3. poll(r, m) = batch_execute(r, m)
    BY <1>1, <2>1 DEF poll, Rd
  <2>4. batch_execute(r, m) = Ok(r)
    BY <1>1 DEF batch_execute
  <2>5. poll(r, m).res = Promised(call, id, pl)
    BY <2>1, <2>2, <2>3, <2>4 DEF Ok, Rd
  <2> QED BY <1>9, <2>0, <2>5
<1>13. CASE call = "check_connection"
  <2>0. call \notin Streams /\ pl.end = "ok"
    BY <1>0, <1>3, <1>13 DEF Streams
  <2>1. r = Rd(call, "sync", <<>>, 0)
    BY <1>6, <1>13 DEF RowsReader
  <2>2. Promised(call, id, pl) = Result("ok", <<>>, 0, "")
    BY <1>13, <2>0 DEF Promised
  <2> HIDE DEF r
  <2>3. poll(r, m) = sync(r, m)
    BY <1>1, <2>1 DEF poll, Rd
  <2>4. sync(r, m) = Ok(r)
    BY <1>1 DEF sync
  <2>5. poll(r, m).res = Promised(call, id, pl)
    BY <2>1, <2>2, <2>3, <2>4 DEF Ok, Rd
  <2> QED BY <1>9, <2>0, <2>5
<1>14. CASE call = "is_valid"
  <2>0. call \notin Streams /\ pl.end = "ok"
    BY <1>0, <1>3, <1>14 DEF Streams
  <2> DEFINE xs == <<Msg("EmptyQueryResponse", id, 0)>>
  <2>1. r = Rd(call, "simple", xs, 0)
    BY <1>6, <1>14 DEF RowsReader
  <2>2. Promised(call, id, pl) = Result("ok", xs, 0, "")
    BY <1>14, <2>0 DEF Promised, Streams, Control
  <2> HIDE DEF r, xs
  <2>3. poll(r, m) = simple(r, m)
    BY <1>1, <2>1 DEF poll, Rd
  <2>4. simple(r, m) = Ok(r)
    BY <1>1, <1>14, <2>1 DEF simple, End, Rd, Streams
  <2>5. poll(r, m).res = Promised(call, id, pl)
    BY <2>1, <2>2, <2>3, <2>4 DEF Ok, Rd
  <2> QED BY <1>9, <2>0, <2>5
<1>15. CASE call = "simple_query"
  <2>0. call \notin Streams /\ pl.end = "ok"
    BY <1>0, <1>3, <1>15 DEF Streams
  <2> DEFINE xs == <<Msg("RowDescription", id, 0)>> \o Items("DataRow", id, pl.n) \o <<Msg("CommandComplete", id, pl.n)>>
  <2>1. ItemsAt(call, id, pl, k) = xs
    <3>1. Pre(call) = 1
      BY <1>15, PreLen DEF Bound
    <3>2. k > pl.n + 1 /\ k # 0
      BY <1>0, <1>1, <1>3, <1>15, <3>1
    <3> QED BY <1>5, <1>15, <3>2 DEF ItemsAt, Collects
  <2>2. r = Rd(call, "simple_rows", xs, 0)
    BY <1>6, <1>15, <2>1 DEF RowsReader
  <2>3. Promised(call, id, pl) = Result("ok", xs, 0, "")
    BY <1>15, <2>0 DEF Promised, Streams, Control
  <2> HIDE DEF r, xs
  <2>4. poll(r, m) = simple(r, m)
    BY <1>1, <2>2 DEF poll, Rd
  <2>5. simple(r, m) = Ok(r)
    BY <1>1, <1>15, <2>2 DEF simple, End, Rd, Streams
  <2>6. poll(r, m).res = Promised(call, id, pl)
    BY <2>2, <2>3, <2>4, <2>5 DEF Ok, Rd
  <2> QED BY <1>9, <2>0, <2>6
<1>16. call \in Collects \cup Counts \cup Batches \cup {"query_raw", "check_connection", "is_valid", "simple_query"}
  BY <1>1, <1>2 DEF Collects, Counts, Batches, Requests, Bound
<1> QED BY <1>8, <1>10, <1>11, <1>12, <1>13, <1>14, <1>15, <1>16

\* Whatever comes next, the future reads it as the call's documentation says.
LEMMA ReadStep ==
  ASSUME NEW call \in Requests, NEW id \in Nat, NEW pl \in Plans(call), NEW a, Placed(a, call, id, pl),
         NEW k, Waits(call, pl, k)
  PROVE  k \in Nat /\ k < Len(a) /\ a[k + 1] \in Msgs /\ Reads(call, id, pl, k, a[k + 1])
<1>1. call \in Calls
  BY CallTypes
<1>2. /\ k \in Nat /\ k < Len(a) /\ a[k + 1] \in Msgs
      /\ \/ IsError(pl, call, id, k, a[k + 1]) \/ IsPre(pl, call, id, k, a[k + 1])
         \/ IsRow(pl, call, id, k, a[k + 1]) \/ IsTag(pl, call, id, k, a[k + 1])
         \/ IsLast(pl, call, id, k, a[k + 1])
  BY <1>1, NextMessage
<1> DEFINE m == a[k + 1]
<1> HIDE DEF m
<1>3. ASSUME IsError(pl, call, id, k, m) PROVE Reads(call, id, pl, k, m)
  BY <1>3, ReadError
<1>4. ASSUME IsPre(pl, call, id, k, m) PROVE Reads(call, id, pl, k, m)
  BY <1>4, ReadPre
<1>5. ASSUME IsRow(pl, call, id, k, m) PROVE Reads(call, id, pl, k, m)
  BY <1>5, ReadRow
<1>6. ASSUME IsTag(pl, call, id, k, m) PROVE Reads(call, id, pl, k, m)
  BY <1>6, ReadTag
<1>7. ASSUME IsLast(pl, call, id, k, m) PROVE Reads(call, id, pl, k, m)
  BY <1>7, ReadLast
<1> QED BY <1>2, <1>3, <1>4, <1>5, <1>6, <1>7 DEF m

-----------------------------------------------------------------------------
(***************************************************************************)
(* The answers on their way.                                               *)
(***************************************************************************)

\* The numbers of the line are integers.
LEMMA Numbers ==
  ASSUME NEW c \in Conns, NEW s \in Sessions, NEW nid \in Nat
  PROVE  /\ Len(c.reqs) \in Nat /\ Len(c.responses) \in Nat /\ Len(s.queue) \in Nat /\ Len(s.stream) \in Nat
         /\ Oldest(c, nid) \in Int /\ Unsent(c, nid) \in Int /\ Unserved(c, s, nid) \in Int
         /\ Oldest(c, nid) = nid - Len(c.reqs) - Len(c.responses) /\ Unsent(c, nid) = nid - Len(c.reqs)
         /\ Unserved(c, s, nid) <= Unsent(c, nid) /\ Unsent(c, nid) <= nid /\ Oldest(c, nid) <= Unsent(c, nid)
         /\ c.closing \in BOOLEAN /\ c.closed \in BOOLEAN
<1>1. Len(c.reqs) \in Nat /\ Len(c.responses) \in Nat /\ c.closing \in BOOLEAN /\ c.closed \in BOOLEAN
  BY DEF Conns
<1>2. Len(s.queue) \in Nat /\ Len(s.stream) \in Nat
  BY DEF Sessions
<1>3. Oldest(c, nid) = nid - Len(c.reqs) - Len(c.responses) /\ Unsent(c, nid) = nid - Len(c.reqs)
  BY DEF Oldest, Unsent
<1>4. Unserved(c, s, nid) = Unsent(c, nid) \/ Unserved(c, s, nid) = Unsent(c, nid) - Len(s.queue)
  BY DEF Unserved
<1>5. Oldest(c, nid) \in Int /\ Unsent(c, nid) \in Int /\ Unsent(c, nid) <= nid /\ Oldest(c, nid) <= Unsent(c, nid)
  BY <1>1, <1>3
<1>6. Unserved(c, s, nid) \in Int /\ Unserved(c, s, nid) <= Unsent(c, nid)
  BY <1>2, <1>4, <1>5
<1> QED BY <1>1, <1>2, <1>3, <1>5, <1>6

LEMMA OfNat ==
  ASSUME NEW ib \in Seq(Msgs), NEW i \in 1 .. Len(ib)
  PROVE  ib[i] \in Msgs /\ ib[i].of \in Nat /\ ib[i].is \in Kinds
<1>1. ib[i] \in Msgs
  OBVIOUS
<1> QED BY <1>1 DEF Msgs

\* More that is written makes no difference to what arrives.
LEMMA ArrivesWritten ==
  ASSUME NEW old \in Int, NEW un \in Int, NEW um \in Int, un <= um, NEW sv \in Int, NEW s, NEW t,
         t.up = s.up, t.stream = s.stream, NEW ib \in Seq(Msgs), ArriveInv(old, un, sv, s, ib)
  PROVE  ArriveInv(old, um, sv, t, ib)
<1>1. ASSUME NEW i \in 1 .. Len(ib), Normal(ib[i])
      PROVE  Belongs(ib[i], old, um, sv, t.up) \/ (t.up # "up" /\ i = Len(ib) /\ Fatal(ib[i]))
  <2>1. ib[i].of \in Nat
    BY OfNat
  <2>2. Belongs(ib[i], old, un, sv, s.up) \/ (s.up # "up" /\ i = Len(ib) /\ Fatal(ib[i]))
    BY <1>1 DEF ArriveInv
  <2> QED BY <2>1, <2>2 DEF Belongs
<1> QED BY <1>1 DEF ArriveInv

\* A Connection that closes has the server end what it has written.
Queued(t, sv, dl) ==
  /\ t.up = "up" /\ dl => \A i \in 1 .. Len(t.queue) : t.queue[i].call = "terminate"
  /\ t.up = "up" /\ ~dl => \A i \in 1 .. Len(t.queue) : t.queue[i].id = sv + i - 1 /\ t.queue[i].call # "terminate"

\* What is written joins the queue.
LEMMA ServesWritten ==
  ASSUME NEW old \in Int, NEW sv \in Int, NEW s, NEW t, NEW cl \in BOOLEAN, NEW dl \in BOOLEAN,
         t.up = s.up, t.stream = s.stream, t.tx = s.tx,
         s.up # "up" => t = s,
         Queued(t, sv, dl), ServeInv(old, sv, cl, s)
  PROVE  ServeInv(old, sv, dl, t)
<1>1. t.up # "up" => t.queue = <<>> /\ t.stream = <<>> /\ ~t.tx
  BY DEF ServeInv
<1>2. /\ t.up = "up" => sv >= old
      /\ t.stream # <<>> => sv > old
      /\ \A i \in 1 .. Len(t.stream) :
           Normal(t.stream[i]) /\ t.stream[i].of = sv - 1 /\ (Ready(t.stream[i]) <=> i = Len(t.stream))
  BY DEF ServeInv
<1> QED BY <1>1, <1>2 DEF ServeInv, Queued

LEMMA Shifted ==
  ASSUME NEW un \in Int, NEW ns \in Int, NEW j \in Int, NEW sv, sv = un - ns, NEW i, ns + j = i
  PROVE  un + j - 1 = sv + i - 1
OBVIOUS

\* The Connection writes.
LEMMA LineWrite ==
  ASSUME NEW c \in Conns, server \in Sessions, NEW ib \in Seq(Msgs), NEW nid \in Nat, LineInv(c, server, ib, nid)
  PROVE  /\ LineInv(poll_write(c), Written(c), ib, nid)
         /\ Oldest(poll_write(c), nid) = Oldest(c, nid) /\ Unsent(poll_write(c), nid) = nid
         /\ Unserved(poll_write(c), Written(c), nid) = Unserved(c, server, nid) \/ server.up # "up"
<1> DEFINE w == poll_write(c)
           t == Written(c)
           s == server
           old == Oldest(c, nid)
           un == Unsent(c, nid)
           sv == Unserved(c, s, nid)
           nr == Len(c.responses)
           nq == Len(c.reqs)
           ns == Len(s.queue)
<1>1. /\ w \in Conns /\ w.reqs = <<>> /\ w.closed = c.closed /\ (w.closing <=> c.closing \/ Terminates(c))
      /\ Len(w.responses) = nr + nq
      /\ \A i \in 1 .. nr : w.responses[i] = c.responses[i]
      /\ \A i \in 1 .. nq : w.responses[nr + i] = c.reqs[i].id
  BY WriteIs
<1>2. /\ t \in Sessions /\ t.stream = s.stream /\ t.tx = s.tx /\ t.up = s.up
      /\ s.up # "up" => t = s
      /\ s.up = "up" => Parts(t.queue, s.queue, Outgoing(c))
  BY WrittenIs
<1>3. /\ Outgoing(c) \in Seq(Asked) /\ nq \in Nat /\ nr \in Nat
      /\ Terminates(c) => Outgoing(c) = <<Terminate>>
      /\ ~Terminates(c) => Outgoing(c) = c.reqs
  BY OutgoingIs
<1>4. AskInv(c, nid) /\ ServeInv(old, sv, c.closing, s) /\ ArriveInv(old, un, sv, s, ib)
  BY DEF LineInv
<1>5. /\ old \in Int /\ un \in Int /\ sv \in Int /\ old = nid - nq - nr /\ un = nid - nq
      /\ ns \in Nat /\ sv <= un /\ un <= nid /\ c.closing \in BOOLEAN
  BY Numbers
<1>6. Len(t.queue) \in Nat /\ w.closing \in BOOLEAN /\ Unsent(w, nid) \in Int /\ Unserved(w, t, nid) \in Int
  BY <1>1, <1>2, Numbers
<1> HIDE DEF w, t, s, old, un, sv, nr, nq, ns
<1>7. Oldest(w, nid) = old /\ Unsent(w, nid) = nid
  <2>1. Len(w.reqs) = 0
    BY <1>1
  <2> QED BY <1>1, <1>3, <1>5, <2>1 DEF Oldest, Unsent
<1>8. AskInv(w, nid)
  <2>1. w.closing => w.closed /\ w.reqs = <<>> /\ w.responses = <<>>
    <3>1. CASE Terminates(c)
      <4>1. c.closed /\ nr = 0 /\ nq = 0
        BY <3>1 DEF Terminates, nr, nq
      <4>2. Len(w.responses) = 0 /\ w.responses \in Seq(Nat)
        BY <1>1, <4>1 DEF Conns
      <4> QED BY <1>1, <4>1, <4>2
    <3>2. CASE c.closing
      <4>1. c.closed /\ nr = 0 /\ nq = 0
        BY <1>4, <3>2 DEF AskInv, nr, nq
      <4>2. Len(w.responses) = 0 /\ w.responses \in Seq(Nat)
        BY <1>1, <4>1 DEF Conns
      <4> QED BY <1>1, <4>1, <4>2
    <3> QED BY <1>1, <3>1, <3>2
  <2>2. ASSUME NEW i \in 1 .. Len(w.responses) PROVE w.responses[i] = old + i - 1
    <3>1. CASE i \in 1 .. nr
      <4>1. c.responses[i] = old + i - 1
        BY <1>4, <3>1 DEF AskInv, old, nr
      <4> QED BY <1>1, <3>1, <4>1
    <3>2. CASE i \notin 1 .. nr
      <4> DEFINE j == i - nr
      <4>0. Len(w.responses) = nr + nq /\ i \in 1 .. Len(w.responses)
        BY <1>1
      <4>1. j \in 1 .. nq /\ nr + j = i
        BY <1>3, <3>2, <4>0
      <4> HIDE DEF j
      <4>2. w.responses[i] = c.reqs[j].id
        BY <1>1, <4>1
      <4>3. c.reqs[j].id = un + j - 1
        BY <1>4, <4>1 DEF AskInv, un, nq
      <4>4. un + j - 1 = old + i - 1
        BY <1>3, <1>5, <4>1
      <4> QED BY <4>2, <4>3, <4>4
    <3> QED BY <3>1, <3>2
  <2>3. Oldest(w, nid) >= 1
    BY <1>4, <1>7 DEF AskInv, old, nr
  <2>4. Len(w.reqs) = 0
    BY <1>1
  <2> QED BY <1>7, <2>1, <2>2, <2>3, <2>4 DEF AskInv, nr, nq
<1>9. s.up = "up" => Unserved(w, t, nid) = sv
  <2> SUFFICES ASSUME s.up = "up" PROVE Unserved(w, t, nid) = sv
    OBVIOUS
  <2>s. s.up = "up"
    OBVIOUS
  <2>w. Unserved(w, t, nid) = IF w.closing THEN nid ELSE nid - Len(t.queue)
    BY <1>7 DEF Unserved
  <2>0. Len(t.queue) = ns + Len(Outgoing(c))
    BY <1>2 DEF Parts, ns
  <2>1. CASE c.closing
    <3>1. w.closing /\ nq = 0
      BY <1>1, <1>4, <2>1 DEF AskInv, nr, nq
    <3> QED BY <1>5, <1>7, <2>1, <3>1 DEF Unserved, sv, un, s, Unsent
  <2>2. CASE Terminates(c)
    <3>1. w.closing /\ ~c.closing /\ nq = 0 /\ nr = 0
      BY <1>1, <2>2 DEF Terminates, nr, nq
    <3>a. sv >= old
      BY <1>4, <2>s DEF ServeInv
    <3>b. sv = un - ns
      BY <3>1 DEF Unserved, sv, s, un, ns
    <3>2. sv >= old /\ sv = un - ns /\ un = nid /\ old = nid
      BY <1>5, <3>1, <3>a, <3>b
    <3>3. sv = nid
      BY <1>5, <3>2
    <3> QED BY <2>w, <3>1, <3>3
  <2>3. CASE ~c.closing /\ ~Terminates(c)
    <3>1. ~w.closing /\ Len(t.queue) = ns + nq
      BY <1>1, <1>3, <2>0, <2>3 DEF nq
    <3>2. sv = un - ns
      BY <2>3 DEF Unserved, sv, s, un, ns
    <3> QED BY <1>3, <1>5, <2>w, <3>1, <3>2
  <2> QED BY <2>1, <2>2, <2>3
<1>10. s.up = "up" /\ w.closing => \A i \in 1 .. Len(t.queue) : t.queue[i].call = "terminate"
  <2> SUFFICES ASSUME s.up = "up", w.closing, NEW i \in 1 .. Len(t.queue) PROVE t.queue[i].call = "terminate"
    OBVIOUS
  <2>s. s.up = "up"
    OBVIOUS
  <2>p. Len(t.queue) = ns + Len(Outgoing(c))
        /\ (\A j \in 1 .. ns : t.queue[j] = s.queue[j])
        /\ \A j \in 1 .. Len(Outgoing(c)) : t.queue[ns + j] = Outgoing(c)[j]
    BY <1>2, <2>s DEF Parts, ns
  <2>1. CASE c.closing
    <3>1. Outgoing(c) = c.reqs /\ nq = 0
      BY <1>3, <1>4, <2>1 DEF AskInv, Terminates, nq
    <3>2. i \in 1 .. ns /\ t.queue[i] = s.queue[i]
      BY <1>5, <2>p, <3>1 DEF nq
    <3> QED BY <1>4, <2>s, <2>1, <3>2 DEF ServeInv, ns
  <2>2. CASE Terminates(c)
    <3>1. ~c.closing /\ nq = 0 /\ nr = 0
      BY <2>2 DEF Terminates, nr, nq
    <3>a. sv >= old
      BY <1>4, <2>s DEF ServeInv
    <3>b. sv = un - ns
      BY <3>1 DEF Unserved, sv, s, un, ns
    <3>2. sv >= old /\ sv = un - ns /\ un = nid /\ old = nid
      BY <1>5, <3>1, <3>a, <3>b
    <3>3. ns = 0
      BY <1>5, <3>2
    <3>4. Outgoing(c) = <<Terminate>> /\ Len(Outgoing(c)) = 1
      BY <1>3, <2>2
    <3>5. Len(t.queue) = 1 /\ 1 \in 1 .. Len(Outgoing(c))
      BY <2>p, <3>3, <3>4
    <3>6. t.queue[ns + 1] = Outgoing(c)[1]
      BY <2>p, <3>5
    <3>7. i = 1 /\ ns + 1 = 1
      BY <3>3, <3>5
    <3>8. t.queue[i] = Terminate
      BY <3>4, <3>6, <3>7
    <3> QED BY <3>8 DEF Terminate
  <2> QED BY <1>1, <2>1, <2>2
<1>11. s.up = "up" /\ ~w.closing => \A i \in 1 .. Len(t.queue) : t.queue[i].id = sv + i - 1 /\ t.queue[i].call # "terminate"
  <2> SUFFICES ASSUME s.up = "up", ~w.closing, NEW i \in 1 .. Len(t.queue)
               PROVE  t.queue[i].id = sv + i - 1 /\ t.queue[i].call # "terminate"
    OBVIOUS
  <2>1. ~c.closing /\ Outgoing(c) = c.reqs
    BY <1>1, <1>3
  <2>2. sv = un - ns
    BY <2>1 DEF Unserved, sv, s, un, ns
  <2>3. Len(t.queue) = ns + nq
    BY <1>2, <2>1 DEF Parts, ns, nq
  <2>4. CASE i \in 1 .. ns
    <3>1. t.queue[i] = s.queue[i]
      BY <1>2, <2>4 DEF Parts, ns
    <3> QED BY <1>4, <2>1, <2>4, <3>1 DEF ServeInv, ns
  <2>5. CASE i \notin 1 .. ns
    <3> DEFINE j == i - ns
    <3>1. j \in 1 .. nq /\ ns + j = i
      BY <1>3, <1>5, <2>3, <2>5
    <3> HIDE DEF j
    <3>2. t.queue[i] = c.reqs[j]
      <4>1. \A x \in 1 .. nq : t.queue[ns + x] = c.reqs[x]
        BY <1>2, <2>1 DEF Parts, ns, nq
      <4> QED BY <3>1, <4>1
    <3>3. c.reqs[j].id = un + j - 1 /\ c.reqs[j].call # "terminate"
      BY <1>4, <3>1 DEF AskInv, un, nq
    <3>4. un \in Int /\ ns \in Int /\ j \in Int
      BY <1>5, <3>1
    <3>5. un + j - 1 = sv + i - 1
      BY <2>2, <3>1, <3>4, Shifted
    <3> QED BY <3>2, <3>3, <3>5
  <2> QED BY <2>4, <2>5
<1>12. CASE s.up = "up"
  <2>0. t.up = s.up /\ t.stream = s.stream /\ t.tx = s.tx
    BY <1>2
  <2> DEFINE dl == w.closing
             cl == c.closing
  <2>a. Queued(t, sv, dl)
    BY <1>10, <1>11, <2>0 DEF Queued
  <2>b. ServeInv(old, sv, cl, s) /\ cl \in BOOLEAN /\ dl \in BOOLEAN
    BY <1>4, <1>5, <1>6
  <2>1. ServeInv(old, sv, dl, t)
    <3> HIDE DEF cl, dl
    <3> QED BY <1>2, <1>5, <2>0, <2>a, <2>b, ServesWritten
  <2>2. ArriveInv(old, nid, sv, t, ib)
    <3>1. ArriveInv(old, un, sv, s, ib) /\ un <= nid /\ nid \in Int
      BY <1>4, <1>5
    <3> QED BY <1>5, <2>0, <3>1, ArrivesWritten
  <2> QED BY <1>7, <1>8, <1>9, <1>12, <2>1, <2>2 DEF LineInv, w, t, s, old, sv
<1>13. CASE s.up # "up"
  <2>1. t = s
    BY <1>2, <1>13
  <2> DEFINE sw == Unserved(w, t, nid)
  <2>2. ServeInv(old, sw, w.closing, t)
    <3>1. t.queue = <<>> /\ t.stream = <<>> /\ ~t.tx
      BY <1>4, <1>13, <2>1 DEF ServeInv
    <3> QED BY <1>13, <2>1, <3>1 DEF ServeInv
  <2>3. ArriveInv(old, nid, sw, t, ib)
    <3>1. t.stream = <<>>
      BY <1>4, <1>13, <2>1 DEF ServeInv
    <3>2. ASSUME NEW i \in 1 .. Len(ib), Normal(ib[i])
          PROVE  Belongs(ib[i], old, nid, sw, t.up) \/ (t.up # "up" /\ i = Len(ib) /\ Fatal(ib[i]))
      <4>1. ib[i].of \in Nat
        BY OfNat
      <4>2. Belongs(ib[i], old, un, sv, s.up) \/ (s.up # "up" /\ i = Len(ib) /\ Fatal(ib[i]))
        BY <1>4, <3>2 DEF ArriveInv
      <4> QED BY <1>5, <1>13, <2>1, <4>1, <4>2 DEF Belongs
    <3> QED BY <1>4, <1>13, <2>1, <3>1, <3>2 DEF ArriveInv
  <2> QED BY <1>7, <1>8, <1>13, <2>2, <2>3 DEF LineInv, w, t, s, old, sv
<1> QED BY <1>12, <1>13

\* The end of an answer, with one message more or less.
LEMMA FinishedAppend ==
  ASSUME NEW ib \in Seq(Msgs), NEW m \in Msgs, NEW y
  PROVE  Finished(Append(ib, m), y) <=> Finished(ib, y) \/ (Ready(m) /\ m.of = y)
<1> DEFINE new == Append(ib, m)
<1>1. /\ new \in Seq(Msgs) /\ Len(ib) \in Nat /\ Len(new) = Len(ib) + 1 /\ new[Len(ib) + 1] = m
      /\ \A i \in 1 .. Len(ib) : new[i] = ib[i]
      /\ \A i \in 1 .. Len(ib) + 1 : i \in 1 .. Len(ib) \/ i = Len(ib) + 1
  BY AppendIs
<1> HIDE DEF new
<1>2. ASSUME Finished(new, y) PROVE Finished(ib, y) \/ (Ready(m) /\ m.of = y)
  <2>1. PICK j \in 1 .. Len(new) : Ready(new[j]) /\ new[j].of = y
    BY <1>2 DEF Finished
  <2>2. j \in 1 .. Len(ib) \/ j = Len(ib) + 1
    BY <1>1
  <2> QED BY <1>1, <2>1, <2>2 DEF Finished
<1>3. ASSUME Finished(ib, y) PROVE Finished(new, y)
  <2>1. PICK j \in 1 .. Len(ib) : Ready(ib[j]) /\ ib[j].of = y
    BY <1>3 DEF Finished
  <2>2. j \in 1 .. Len(new) /\ new[j] = ib[j]
    BY <1>1
  <2> QED BY <2>1, <2>2 DEF Finished
<1>4. ASSUME Ready(m) /\ m.of = y PROVE Finished(new, y)
  <2>1. Len(ib) + 1 \in 1 .. Len(new)
    BY <1>1
  <2> QED BY <1>1, <1>4, <2>1 DEF Finished
<1> QED BY <1>2, <1>3, <1>4 DEF new

\* Taking the first message, and one more, keep what is finished and the order.
LEMMA FinishedTail ==
  ASSUME NEW ib \in Seq(Msgs), ib # <<>>, NEW y
  PROVE  /\ Finished(Tail(ib), y) => Finished(ib, y)
         /\ Finished(ib, y) => Finished(Tail(ib), y) \/ (Ready(ib[1]) /\ ib[1].of = y)
<1> DEFINE new == Tail(ib)
<1>1. /\ new \in Seq(Msgs) /\ Len(ib) \in Nat /\ Len(ib) >= 1 /\ Len(new) = Len(ib) - 1
      /\ \A i \in 1 .. Len(ib) - 1 : new[i] = ib[i + 1] /\ i + 1 \in 1 .. Len(ib)
  BY TailIs
<1> HIDE DEF new
<1>2. ASSUME Finished(new, y) PROVE Finished(ib, y)
  <2>1. PICK j \in 1 .. Len(new) : Ready(new[j]) /\ new[j].of = y
    BY <1>2 DEF Finished
  <2>2. new[j] = ib[j + 1] /\ j + 1 \in 1 .. Len(ib)
    BY <1>1
  <2> QED BY <2>1, <2>2 DEF Finished
<1>3. ASSUME Finished(ib, y) PROVE Finished(new, y) \/ (Ready(ib[1]) /\ ib[1].of = y)
  <2>1. PICK j \in 1 .. Len(ib) : Ready(ib[j]) /\ ib[j].of = y
    BY <1>3 DEF Finished
  <2>2. CASE j = 1
    BY <2>1, <2>2
  <2>3. CASE j # 1
    <3>1. j - 1 \in 1 .. Len(ib) - 1 /\ (j - 1) + 1 = j
      BY <1>1, <2>3
    <3>2. new[j - 1] = ib[j] /\ j - 1 \in 1 .. Len(new)
      BY <1>1, <3>1
    <3> QED BY <2>1, <3>2 DEF Finished
  <2> QED BY <2>2, <2>3
<1> QED BY <1>2, <1>3 DEF new

LEMMA OrderedTail ==
  ASSUME NEW ib \in Seq(Msgs), ib # <<>>, Ordered(ib)
  PROVE  Ordered(Tail(ib))
<1> DEFINE new == Tail(ib)
<1>1. /\ Len(ib) \in Nat /\ Len(new) = Len(ib) - 1
      /\ \A i \in 1 .. Len(ib) - 1 : new[i] = ib[i + 1] /\ i + 1 \in 1 .. Len(ib)
  BY TailIs
<1> HIDE DEF new
<1> SUFFICES ASSUME NEW i \in 1 .. Len(new), NEW j \in 1 .. Len(new), i < j, new[i].of # 0, new[j].of # 0
             PROVE  new[i].of <= new[j].of /\ (Ready(new[i]) => new[i].of < new[j].of)
  BY DEF Ordered, new
<1>2. new[i] = ib[i + 1] /\ new[j] = ib[j + 1] /\ i + 1 \in 1 .. Len(ib) /\ j + 1 \in 1 .. Len(ib) /\ i + 1 < j + 1
  BY <1>1
<1> QED BY <1>2 DEF Ordered

LEMMA OrderedAppend ==
  ASSUME NEW ib \in Seq(Msgs), NEW m \in Msgs, Ordered(ib),
         m.of # 0 => \A i \in 1 .. Len(ib) : ib[i].of # 0 =>
                        ib[i].of <= m.of /\ (Ready(ib[i]) => ib[i].of < m.of)
  PROVE  Ordered(Append(ib, m))
<1> DEFINE new == Append(ib, m)
<1>1. /\ Len(ib) \in Nat /\ Len(new) = Len(ib) + 1 /\ new[Len(ib) + 1] = m
      /\ \A i \in 1 .. Len(ib) : new[i] = ib[i]
      /\ \A i \in 1 .. Len(ib) + 1 : i \in 1 .. Len(ib) \/ i = Len(ib) + 1
  BY AppendIs
<1> HIDE DEF new
<1> SUFFICES ASSUME NEW i \in 1 .. Len(new), NEW j \in 1 .. Len(new), i < j, new[i].of # 0, new[j].of # 0
             PROVE  new[i].of <= new[j].of /\ (Ready(new[i]) => new[i].of < new[j].of)
  BY DEF Ordered, new
<1>2. i \in 1 .. Len(ib) /\ new[i] = ib[i]
  BY <1>1
<1>3. CASE j \in 1 .. Len(ib)
  <2>1. new[j] = ib[j]
    BY <1>1, <1>3
  <2> QED BY <1>2, <1>3, <2>1 DEF Ordered
<1>4. CASE j = Len(ib) + 1
  <2>1. new[j] = m
    BY <1>1, <1>4
  <2> QED BY <1>2, <2>1
<1> QED BY <1>1, <1>3, <1>4

\* What the messages of the inbox are.
Comes(m, i, n, old, un, sv, up) ==
  /\ Normal(m) => Belongs(m, old, un, sv, up) \/ (up # "up" /\ i = n /\ Fatal(m))
  /\ ~Normal(m) => m.of = 0

\* ArriveInv by its parts.
LEMMA ArriveParts ==
  ASSUME NEW old, NEW un, NEW sv, NEW s, NEW ib
  PROVE  ArriveInv(old, un, sv, s, ib) <=>
           /\ \A i \in 1 .. Len(ib) : Comes(ib[i], i, Len(ib), old, un, sv, s.up)
           /\ Ordered(ib)
           /\ \A i \in 1 .. Len(ib) : \A y \in old .. ib[i].of - 1 : Finished(ib, y)
           /\ s.up = "up" => \A y \in old .. sv - 1 : Finished(ib, y) \/ (s.stream # <<>> /\ y = sv - 1)
           /\ s.stream # <<>> => ~Finished(ib, sv - 1)
BY DEF ArriveInv, Comes

\* A message of no answer leaves.
LEMMA ArrivesPassed ==
  ASSUME NEW old \in Int, old >= 1, NEW un \in Int, NEW sv \in Int, NEW s, NEW ib \in Seq(Msgs), ib # <<>>,
         ArriveInv(old, un, sv, s, ib), ~(Ready(ib[1]) /\ ib[1].of >= old)
  PROVE  ArriveInv(old, un, sv, s, Tail(ib))
<1> DEFINE new == Tail(ib)
<1>1. /\ new \in Seq(Msgs) /\ Len(ib) \in Nat /\ Len(ib) >= 1 /\ Len(new) = Len(ib) - 1
      /\ \A i \in 1 .. Len(ib) - 1 : new[i] = ib[i + 1] /\ i + 1 \in 1 .. Len(ib)
  BY TailIs
<1>2. /\ \A i \in 1 .. Len(ib) : Comes(ib[i], i, Len(ib), old, un, sv, s.up)
      /\ Ordered(ib)
      /\ \A i \in 1 .. Len(ib) : \A y \in old .. ib[i].of - 1 : Finished(ib, y)
      /\ s.up = "up" => \A y \in old .. sv - 1 : Finished(ib, y) \/ (s.stream # <<>> /\ y = sv - 1)
      /\ s.stream # <<>> => ~Finished(ib, sv - 1)
  BY ArriveParts
<1>3. \A y \in Int : y >= old /\ Finished(ib, y) => Finished(new, y)
  <2> SUFFICES ASSUME NEW y \in Int, y >= old, Finished(ib, y) PROVE Finished(new, y)
    OBVIOUS
  <2>1. Finished(new, y) \/ (Ready(ib[1]) /\ ib[1].of = y)
    BY FinishedTail
  <2> QED BY <2>1
<1>4. \A y : Finished(new, y) => Finished(ib, y)
  BY FinishedTail
<1>5. Ordered(new)
  BY <1>2, OrderedTail
<1> HIDE DEF new
<1>6. ASSUME NEW i \in 1 .. Len(new) PROVE Comes(new[i], i, Len(new), old, un, sv, s.up)
  <2>1. new[i] = ib[i + 1] /\ i + 1 \in 1 .. Len(ib) /\ (i + 1 = Len(ib) => i = Len(new))
    BY <1>1
  <2>2. Comes(ib[i + 1], i + 1, Len(ib), old, un, sv, s.up)
    BY <1>2, <2>1
  <2> QED BY <2>1, <2>2 DEF Comes
<1>7. ASSUME NEW i \in 1 .. Len(new), NEW y \in old .. new[i].of - 1 PROVE Finished(new, y)
  <2>1. new[i] = ib[i + 1] /\ i + 1 \in 1 .. Len(ib)
    BY <1>1
  <2>2. ib[i + 1].of \in Nat
    BY <2>1, OfNat
  <2>3. Finished(ib, y) /\ y \in Int /\ y >= old
    BY <1>2, <2>1, <2>2
  <2> QED BY <1>3, <2>3
<1>8. ASSUME s.up = "up", NEW y \in old .. sv - 1 PROVE Finished(new, y) \/ (s.stream # <<>> /\ y = sv - 1)
  <2>1. Finished(ib, y) \/ (s.stream # <<>> /\ y = sv - 1)
    BY <1>2, <1>8
  <2>2. y \in Int /\ y >= old
    OBVIOUS
  <2> QED BY <1>3, <2>1, <2>2
<1>9. s.stream # <<>> => ~Finished(new, sv - 1)
  BY <1>2, <1>4
<1>10. ArriveInv(old, un, sv, s, new)
  BY <1>5, <1>6, <1>7, <1>8, <1>9, ArriveParts
<1> QED BY <1>10 DEF new

\* The message in front belongs to the oldest answer, or is a last word.
LEMMA HeadIs ==
  ASSUME NEW old \in Int, old >= 1, NEW un \in Int, NEW sv \in Int, NEW s, NEW ib \in Seq(Msgs), ib # <<>>,
         ArriveInv(old, un, sv, s, ib), Normal(ib[1])
  PROVE  \/ ib[1].of = old /\ old < un /\ (s.up = "up" => old < sv)
         \/ s.up # "up" /\ Len(ib) = 1 /\ Fatal(ib[1])
<1>1. Len(ib) \in Nat /\ 1 \in 1 .. Len(ib)
  BY TailIs
<1>2. Belongs(ib[1], old, un, sv, s.up) \/ (s.up # "up" /\ 1 = Len(ib) /\ Fatal(ib[1]))
  BY <1>1 DEF ArriveInv
<1>3. ib[1].of \in Nat
  BY <1>1, OfNat
<1>4. ASSUME ib[1].of > old PROVE FALSE
  <2>1. old \in old .. ib[1].of - 1
    BY <1>3, <1>4
  <2>2. Finished(ib, old)
    BY <1>1, <2>1 DEF ArriveInv
  <2>3. PICK j \in 1 .. Len(ib) : Ready(ib[j]) /\ ib[j].of = old
    BY <2>2 DEF Finished
  <2>4. 1 < j
    BY <1>1, <1>4, <2>3
  <2>5. ib[1].of <= ib[j].of
    BY <1>1, <1>3, <1>4, <2>3, <2>4 DEF ArriveInv, Ordered
  <2> QED BY <1>3, <1>4, <2>3, <2>5
<1> QED BY <1>2, <1>3, <1>4 DEF Belongs

\* The oldest answer has come to its end.
LEMMA ArrivesFinished ==
  ASSUME NEW old \in Int, old >= 1, NEW un \in Int, NEW sv \in Int, NEW s, NEW ib \in Seq(Msgs), ib # <<>>,
         ArriveInv(old, un, sv, s, ib), Ready(ib[1]), ib[1].of = old
  PROVE  ArriveInv(old + 1, un, sv, s, Tail(ib))
<1> DEFINE new == Tail(ib)
<1>1. /\ new \in Seq(Msgs) /\ Len(ib) \in Nat /\ Len(ib) >= 1 /\ Len(new) = Len(ib) - 1
      /\ \A i \in 1 .. Len(ib) - 1 : new[i] = ib[i + 1] /\ i + 1 \in 1 .. Len(ib)
  BY TailIs
<1>2. /\ \A i \in 1 .. Len(ib) : Comes(ib[i], i, Len(ib), old, un, sv, s.up)
      /\ Ordered(ib)
      /\ \A i \in 1 .. Len(ib) : \A y \in old .. ib[i].of - 1 : Finished(ib, y)
      /\ s.up = "up" => \A y \in old .. sv - 1 : Finished(ib, y) \/ (s.stream # <<>> /\ y = sv - 1)
      /\ s.stream # <<>> => ~Finished(ib, sv - 1)
  BY ArriveParts
<1>3. \A y \in Int : y >= old + 1 /\ Finished(ib, y) => Finished(new, y)
  <2> SUFFICES ASSUME NEW y \in Int, y >= old + 1, Finished(ib, y) PROVE Finished(new, y)
    OBVIOUS
  <2>1. Finished(new, y) \/ (Ready(ib[1]) /\ ib[1].of = y)
    BY FinishedTail
  <2> QED BY <2>1
<1>4. \A y : Finished(new, y) => Finished(ib, y)
  BY FinishedTail
<1>5. Ordered(new)
  BY <1>2, OrderedTail
<1> HIDE DEF new
<1>6. ASSUME NEW i \in 1 .. Len(new) PROVE Comes(new[i], i, Len(new), old + 1, un, sv, s.up)
  <2>1. new[i] = ib[i + 1] /\ i + 1 \in 1 .. Len(ib) /\ (i + 1 = Len(ib) => i = Len(new)) /\ 1 \in 1 .. Len(ib) /\ 1 < i + 1
    BY <1>1
  <2>2. Comes(ib[i + 1], i + 1, Len(ib), old, un, sv, s.up)
    BY <1>2, <2>1
  <2>3. ib[i + 1].of \in Nat
    BY <2>1, OfNat
  <2>4. ib[i + 1].of # 0 => ib[i + 1].of >= old + 1
    <3>1. ib[1].of # 0
      OBVIOUS
    <3>2. ib[i + 1].of # 0 => ib[1].of < ib[i + 1].of
      BY <1>2, <2>1, <3>1 DEF Ordered
    <3> QED BY <2>3, <3>2
  <2>5. CASE Belongs(ib[i + 1], old, un, sv, s.up)
    <3>1. ib[i + 1].of >= old + 1
      BY <2>3, <2>4, <2>5 DEF Belongs
    <3> QED BY <2>1, <2>2, <2>5, <3>1 DEF Comes, Belongs
  <2>6. CASE ~Belongs(ib[i + 1], old, un, sv, s.up)
    BY <2>1, <2>2, <2>6 DEF Comes
  <2> QED BY <2>5, <2>6
<1>7. ASSUME NEW i \in 1 .. Len(new), NEW y \in old + 1 .. new[i].of - 1 PROVE Finished(new, y)
  <2>1. new[i] = ib[i + 1] /\ i + 1 \in 1 .. Len(ib)
    BY <1>1
  <2>2. ib[i + 1].of \in Nat
    BY <2>1, OfNat
  <2>3. y \in old .. ib[i + 1].of - 1 /\ y \in Int /\ y >= old + 1
    BY <2>1, <2>2
  <2>4. Finished(ib, y)
    BY <1>2, <2>1, <2>3
  <2> QED BY <1>3, <2>3, <2>4
<1>8. ASSUME s.up = "up", NEW y \in old + 1 .. sv - 1 PROVE Finished(new, y) \/ (s.stream # <<>> /\ y = sv - 1)
  <2>1. y \in Int /\ y >= old + 1 /\ y \in old .. sv - 1
    OBVIOUS
  <2>2. Finished(ib, y) \/ (s.stream # <<>> /\ y = sv - 1)
    BY <1>2, <1>8, <2>1
  <2> QED BY <1>3, <2>1, <2>2
<1>9. s.stream # <<>> => ~Finished(new, sv - 1)
  BY <1>2, <1>4
<1>10. ArriveInv(old + 1, un, sv, s, new)
  BY <1>5, <1>6, <1>7, <1>8, <1>9, ArriveParts
<1> QED BY <1>10 DEF new

\* Another message arrives.
LEMMA ArrivesMore ==
  ASSUME NEW old \in Int, old >= 1, NEW un \in Int, NEW sv \in Int, NEW s, NEW t, NEW ib \in Seq(Msgs), NEW m \in Msgs,
         ArriveInv(old, un, sv, s, ib), s.up = "up",
         \A i \in 1 .. Len(ib) : ib[i].of < sv \/ sv <= 0,
         \/ /\ ~Normal(m) /\ m.of = 0 /\ t.up = "up" /\ (t.stream # <<>> <=> s.stream # <<>>)
         \/ /\ t.up = "up" /\ s.stream # <<>> /\ Normal(m) /\ m.of = sv - 1 /\ sv > old /\ sv <= un
            /\ (Ready(m) <=> t.stream = <<>>)
         \/ /\ t.up # "up" /\ Fatal(m) /\ t.stream = <<>>
  PROVE  ArriveInv(old, un, sv, t, Append(ib, m))
<1> DEFINE new == Append(ib, m)
<1>1. /\ new \in Seq(Msgs) /\ Len(ib) \in Nat /\ Len(new) = Len(ib) + 1 /\ new[Len(ib) + 1] = m
      /\ \A i \in 1 .. Len(ib) : new[i] = ib[i]
      /\ \A i \in 1 .. Len(ib) + 1 : i \in 1 .. Len(ib) \/ i = Len(ib) + 1
  BY AppendIs
<1>2. /\ \A i \in 1 .. Len(ib) : Comes(ib[i], i, Len(ib), old, un, sv, s.up)
      /\ Ordered(ib)
      /\ \A i \in 1 .. Len(ib) : \A y \in old .. ib[i].of - 1 : Finished(ib, y)
      /\ s.up = "up" => \A y \in old .. sv - 1 : Finished(ib, y) \/ (s.stream # <<>> /\ y = sv - 1)
      /\ s.stream # <<>> => ~Finished(ib, sv - 1)
  BY ArriveParts
<1>3. \A y : Finished(new, y) <=> Finished(ib, y) \/ (Ready(m) /\ m.of = y)
  BY FinishedAppend
<1>4. m.of \in Nat /\ (Fatal(m) => Normal(m) /\ m.of = 0 /\ ~Ready(m)) /\ (~Normal(m) => ~Ready(m))
  BY DEF Msgs, Fatal, Normal, Ready
<1>5. Ordered(new)
  <2>1. ASSUME m.of # 0, NEW i \in 1 .. Len(ib), ib[i].of # 0
        PROVE  ib[i].of <= m.of /\ (Ready(ib[i]) => ib[i].of < m.of)
    <3>1. s.stream # <<>> /\ m.of = sv - 1 /\ sv > old
      BY <1>4, <2>1
    <3>2. ib[i].of \in Nat /\ ib[i].of < sv
      BY <3>1, OfNat
    <3>3. Ready(ib[i]) => ib[i].of # sv - 1
      BY <1>2, <3>1 DEF Finished
    <3> QED BY <3>1, <3>2, <3>3
  <2> QED BY <1>2, <2>1, OrderedAppend
<1> HIDE DEF new
<1>6. ASSUME NEW i \in 1 .. Len(new) PROVE Comes(new[i], i, Len(new), old, un, sv, t.up)
  <2>1. CASE i \in 1 .. Len(ib)
    <3>1. new[i] = ib[i]
      BY <1>1, <2>1
    <3>2. Comes(ib[i], i, Len(ib), old, un, sv, "up")
      <4>1. Comes(ib[i], i, Len(ib), old, un, sv, s.up) /\ s.up = "up"
        BY <1>2, <2>1
      <4> QED BY <4>1
    <3>3. Normal(ib[i]) => Belongs(ib[i], old, un, sv, "up")
      BY <3>2 DEF Comes
    <3>4. Normal(ib[i]) => Belongs(ib[i], old, un, sv, t.up)
      BY <3>3 DEF Belongs
    <3>5. ~Normal(ib[i]) => ib[i].of = 0
      BY <3>2 DEF Comes
    <3>6. Comes(ib[i], i, Len(new), old, un, sv, t.up)
      BY <3>4, <3>5 DEF Comes
    <3> QED BY <3>1, <3>6
  <2>2. CASE i = Len(ib) + 1
    <3>1. new[i] = m /\ i = Len(new)
      BY <1>1, <2>2
    <3>2. Comes(m, i, Len(new), old, un, sv, t.up)
      <4>1. CASE ~Normal(m) /\ m.of = 0
        BY <4>1 DEF Comes
      <4>2. CASE Normal(m) /\ m.of = sv - 1 /\ sv > old /\ sv <= un
        <5>1. Belongs(m, old, un, sv, t.up)
          BY <1>4, <4>2 DEF Belongs
        <5> QED BY <4>2, <5>1 DEF Comes
      <4>3. CASE t.up # "up" /\ Fatal(m)
        BY <1>4, <3>1, <4>3 DEF Comes
      <4> QED BY <4>1, <4>2, <4>3
    <3> QED BY <3>1, <3>2
  <2> QED BY <1>1, <2>1, <2>2
<1>7. ASSUME NEW i \in 1 .. Len(new), NEW y \in old .. new[i].of - 1 PROVE Finished(new, y)
  <2>1. CASE i \in 1 .. Len(ib)
    <3>1. new[i] = ib[i]
      BY <1>1, <2>1
    <3>2. Finished(ib, y)
      BY <1>2, <2>1, <3>1
    <3> QED BY <1>3, <3>2
  <2>2. CASE i = Len(ib) + 1
    <3>1. new[i] = m
      BY <1>1, <2>2
    <3>2. m.of = sv - 1 /\ s.stream # <<>>
      BY <1>4, <3>1
    <3>3. y \in old .. sv - 1 /\ y # sv - 1
      BY <3>1, <3>2
    <3>4. Finished(ib, y)
      BY <1>2, <3>3
    <3> QED BY <1>3, <3>4
  <2> QED BY <1>1, <2>1, <2>2
<1>8. ASSUME t.up = "up", NEW y \in old .. sv - 1 PROVE Finished(new, y) \/ (t.stream # <<>> /\ y = sv - 1)
  <2>0. \A x \in old .. sv - 1 : Finished(ib, x) \/ (s.stream # <<>> /\ x = sv - 1)
    BY DEF ArriveInv
  <2>1. Finished(ib, y) \/ (s.stream # <<>> /\ y = sv - 1)
    BY <2>0
  <2>2. CASE Finished(ib, y)
    BY <1>3, <2>2
  <2>3. CASE s.stream # <<>> /\ y = sv - 1
    BY <1>3, <1>8, <2>3
  <2> QED BY <2>1, <2>2, <2>3
<1>9. t.stream # <<>> => ~Finished(new, sv - 1)
  BY <1>2, <1>3, <1>4
<1>10. ArriveInv(old, un, sv, t, new)
  BY <1>5, <1>6, <1>7, <1>8, <1>9, ArriveParts
<1> QED BY <1>10 DEF new

\* The session ends: nothing more comes.
LEMMA ArrivesDown ==
  ASSUME NEW old \in Int, NEW un \in Int, NEW sv \in Int, NEW sw \in Int, NEW s, NEW t, NEW ib \in Seq(Msgs),
         ArriveInv(old, un, sv, s, ib), t.up # "up", t.stream = <<>>
  PROVE  ArriveInv(old, un, sw, t, ib)
<1>1. /\ \A i \in 1 .. Len(ib) : Comes(ib[i], i, Len(ib), old, un, sv, s.up)
      /\ Ordered(ib)
      /\ \A i \in 1 .. Len(ib) : \A y \in old .. ib[i].of - 1 : Finished(ib, y)
  BY ArriveParts
<1>2. ASSUME NEW i \in 1 .. Len(ib) PROVE Comes(ib[i], i, Len(ib), old, un, sw, t.up)
  BY <1>1 DEF Comes, Belongs
<1> QED BY <1>1, <1>2, ArriveParts

\* The server answers the next request.
LEMMA ArrivesAnswer ==
  ASSUME NEW old \in Int, NEW un \in Int, NEW sv \in Int, NEW s, NEW t, NEW ib \in Seq(Msgs),
         ArriveInv(old, un, sv, s, ib), s.up = "up", t.up = "up", s.stream = <<>>, t.stream # <<>>, sv >= 1
  PROVE  ArriveInv(old, un, sv + 1, t, ib)
<1>1. /\ \A i \in 1 .. Len(ib) : Comes(ib[i], i, Len(ib), old, un, sv, s.up)
      /\ Ordered(ib)
      /\ \A i \in 1 .. Len(ib) : \A y \in old .. ib[i].of - 1 : Finished(ib, y)
      /\ \A y \in old .. sv - 1 : Finished(ib, y)
  BY ArriveParts
<1>2. ASSUME NEW i \in 1 .. Len(ib) PROVE Comes(ib[i], i, Len(ib), old, un, sv + 1, t.up)
  <2>1. ib[i].of \in Nat
    BY OfNat
  <2> QED BY <1>1, <2>1 DEF Comes, Belongs
<1>3. ASSUME NEW y \in old .. sv + 1 - 1 PROVE Finished(ib, y) \/ (t.stream # <<>> /\ y = sv + 1 - 1)
  <2>1. \A x \in old .. sv - 1 : Finished(ib, x)
    BY <1>1
  <2>2. y \in old .. sv - 1 \/ y = sv + 1 - 1
    OBVIOUS
  <2> QED BY <2>1, <2>2
<1>4. ~Finished(ib, sv + 1 - 1)
  <2> SUFFICES ASSUME NEW j \in 1 .. Len(ib), Ready(ib[j]), ib[j].of = sv PROVE FALSE
    BY DEF Finished
  <2>1. Comes(ib[j], j, Len(ib), old, un, sv, "up") /\ Normal(ib[j])
    BY <1>1 DEF Ready, Normal
  <2> QED BY <2>1 DEF Comes, Belongs
<1> QED BY <1>1, <1>2, <1>3, <1>4, ArriveParts

\* What the line says of a Connection depends on its requests and responses.
LEMMA LineSame ==
  ASSUME NEW c \in Conns, NEW d \in Conns, NEW s, NEW ib, NEW nid,
         d.reqs = c.reqs, d.responses = c.responses, d.closing = c.closing, c.closed => d.closed, LineInv(c, s, ib, nid)
  PROVE  /\ LineInv(d, s, ib, nid)
         /\ Oldest(d, nid) = Oldest(c, nid) /\ Unsent(d, nid) = Unsent(c, nid) /\ Unserved(d, s, nid) = Unserved(c, s, nid)
<1>1. Oldest(d, nid) = Oldest(c, nid) /\ Unsent(d, nid) = Unsent(c, nid)
  BY DEF Oldest, Unsent
<1>2. Unserved(d, s, nid) = Unserved(c, s, nid)
  BY <1>1 DEF Unserved
<1>3. AskInv(d, nid)
  BY <1>1 DEF LineInv, AskInv
<1> QED BY <1>1, <1>2, <1>3 DEF LineInv

\* A call sends its request.
LEMMA LineSend ==
  ASSUME NEW c \in Conns, NEW d \in Conns, NEW s \in Sessions, NEW ib \in Seq(Msgs), NEW nid \in Nat, NEW call,
         LineInv(c, s, ib, nid), ~c.closed, call # "terminate",
         d.reqs = Append(c.reqs, [id |-> nid, call |-> call]), [id |-> nid, call |-> call] \in Asked,
         d.responses = c.responses, d.closing = c.closing, d.closed = c.closed
  PROVE  /\ LineInv(d, s, ib, nid + 1)
         /\ Oldest(d, nid + 1) = Oldest(c, nid) /\ Unsent(d, nid + 1) = Unsent(c, nid)
         /\ Unserved(d, s, nid + 1) = Unserved(c, s, nid)
<1> DEFINE e == [id |-> nid, call |-> call]
           nq == Len(c.reqs)
           un == Unsent(c, nid)
<1>0. c.reqs \in Seq(Asked) /\ e \in Asked /\ e.id = nid /\ e.call = call
  BY DEF Conns
<1>1. /\ nq \in Nat /\ Len(d.reqs) = nq + 1 /\ d.reqs[nq + 1] = e
      /\ \A i \in 1 .. nq : d.reqs[i] = c.reqs[i]
      /\ \A i \in 1 .. nq + 1 : i \in 1 .. nq \/ i = nq + 1
  BY <1>0, AppendIs
<1>2. AskInv(c, nid) /\ un \in Int /\ un = nid - nq /\ Len(c.responses) \in Nat
  BY Numbers DEF LineInv
<1>3. ~c.closing
  BY <1>2 DEF AskInv
<1>4. Oldest(d, nid + 1) = Oldest(c, nid) /\ Unsent(d, nid + 1) = un
  <2> DEFINE x == Len(c.reqs)
             y == Len(d.reqs)
             z == Len(c.responses)
  <2>1. /\ Oldest(d, nid + 1) = nid + 1 - y - z /\ Oldest(c, nid) = nid - x - z
        /\ Unsent(d, nid + 1) = nid + 1 - y /\ un = nid - x
    BY DEF Oldest, Unsent
  <2>2. x \in Nat /\ y = x + 1 /\ z \in Nat
    BY <1>1, <1>2
  <2> HIDE DEF x, y, z, un
  <2> QED BY <2>1, <2>2
<1>5. Unserved(d, s, nid + 1) = Unserved(c, s, nid)
  BY <1>3, <1>4 DEF Unserved
<1> HIDE DEF e, nq, un
<1>6. AskInv(d, nid + 1)
  <2>1. ASSUME NEW i \in 1 .. Len(d.reqs) PROVE d.reqs[i].id = un + i - 1 /\ d.reqs[i].call # "terminate"
    <3>1. CASE i \in 1 .. nq
      <4>1. c.reqs[i].id = un + i - 1 /\ c.reqs[i].call # "terminate"
        BY <1>2, <3>1 DEF AskInv, nq, un
      <4> QED BY <1>1, <3>1, <4>1
    <3>2. CASE i = nq + 1
      <4>1. d.reqs[i] = e
        BY <1>1, <3>2
      <4> QED BY <1>0, <1>1, <1>2, <3>2, <4>1
    <3> QED BY <1>1, <3>1, <3>2
  <2>2. Oldest(d, nid + 1) >= 1 /\ \A i \in 1 .. Len(d.responses) : d.responses[i] = Oldest(d, nid + 1) + i - 1
    BY <1>2, <1>4 DEF AskInv
  <2> QED BY <1>3, <1>4, <2>1, <2>2 DEF AskInv
<1> QED BY <1>3, <1>4, <1>5, <1>6 DEF LineInv, un

\* A message that ends no answer leaves the inbox.
LEMMA LinePass ==
  ASSUME NEW c \in Conns, NEW s \in Sessions, NEW ib \in Seq(Msgs), NEW nid \in Nat,
         LineInv(c, s, ib, nid), ib # <<>>, ~Normal(ib[1]) \/ Fatal(ib[1])
  PROVE  LineInv(c, s, Tail(ib), nid)
<1>1. Oldest(c, nid) \in Int /\ Unsent(c, nid) \in Int /\ Unserved(c, s, nid) \in Int
  BY Numbers
<1>2. Oldest(c, nid) >= 1 /\ ArriveInv(Oldest(c, nid), Unsent(c, nid), Unserved(c, s, nid), s, ib)
  BY DEF LineInv, AskInv
<1>3. ~Ready(ib[1])
  BY DEF Normal, Fatal, Ready
<1>4. ArriveInv(Oldest(c, nid), Unsent(c, nid), Unserved(c, s, nid), s, Tail(ib))
  BY <1>1, <1>2, <1>3, ArrivesPassed
<1> QED BY <1>4 DEF LineInv

\* The message in front belongs to the first response, or is a last word.
LEMMA LineHead ==
  ASSUME NEW c \in Conns, NEW s \in Sessions, NEW ib \in Seq(Msgs), NEW nid \in Nat,
         LineInv(c, s, ib, nid), ib # <<>>, Normal(ib[1])
  PROVE  \/ /\ c.responses # <<>> /\ ib[1].of = Head(c.responses) /\ Head(c.responses) = Oldest(c, nid)
            /\ (s.up = "up" => Oldest(c, nid) < Unserved(c, s, nid))
         \/ s.up # "up" /\ Len(ib) = 1 /\ Fatal(ib[1])
<1> DEFINE old == Oldest(c, nid)
           un == Unsent(c, nid)
           sv == Unserved(c, s, nid)
           nr == Len(c.responses)
<1>1. /\ old \in Int /\ un \in Int /\ sv \in Int /\ nr \in Nat /\ un - old = nr /\ c.responses \in Seq(Nat)
      /\ AskInv(c, nid) /\ ArriveInv(old, un, sv, s, ib) /\ old >= 1
  <2>1. /\ old \in Int /\ un \in Int /\ sv \in Int /\ nr \in Nat /\ Len(c.reqs) \in Nat
        /\ old = nid - Len(c.reqs) - nr /\ un = nid - Len(c.reqs)
    BY Numbers
  <2>2. c.responses \in Seq(Nat)
    BY DEF Conns
  <2>3. /\ AskInv(c, nid) /\ ServeInv(old, sv, c.closing, s) /\ ArriveInv(old, un, sv, s, ib)
    BY DEF LineInv
  <2>4. old >= 1
    BY <2>3 DEF AskInv
  <2>5. un - old = nr
    <3> HIDE DEF old, un, nr
    <3> QED BY <2>1
  <2> QED BY <2>1, <2>2, <2>3, <2>4, <2>5
<1> HIDE DEF old, un, sv, nr
<1>2. \/ ib[1].of = old /\ old < un /\ (s.up = "up" => old < sv)
      \/ s.up # "up" /\ Len(ib) = 1 /\ Fatal(ib[1])
  BY <1>1, HeadIs
<1>3. ASSUME ib[1].of = old, old < un, s.up = "up" => old < sv
      PROVE  c.responses # <<>> /\ ib[1].of = Head(c.responses) /\ Head(c.responses) = old /\ (s.up = "up" => old < sv)
  <2>1. nr >= 1 /\ 1 \in 1 .. nr
    BY <1>1, <1>3
  <2>2. c.responses[1] = old + 1 - 1
    BY <1>1, <2>1 DEF AskInv, nr, old
  <2>3. c.responses # <<>> /\ Head(c.responses) = c.responses[1]
    BY <1>1, <2>1 DEF nr
  <2> QED BY <1>1, <1>3, <2>2, <2>3
<1> QED BY <1>2, <1>3 DEF old, sv

\* It is routed.
LEMMA LineRoute ==
  ASSUME NEW c \in Conns, NEW d \in Conns, NEW s \in Sessions, NEW ib \in Seq(Msgs), NEW nid \in Nat,
         LineInv(c, s, ib, nid), ib # <<>>, Normal(ib[1]), c.responses # <<>>,
         d.reqs = c.reqs, d.closing = c.closing, d.closed = c.closed,
         d.responses = IF Ready(ib[1]) THEN Tail(c.responses) ELSE c.responses
  PROVE  LineInv(d, s, Tail(ib), nid) /\ Unserved(d, s, nid) = Unserved(c, s, nid)
<1> DEFINE old == Oldest(c, nid)
           un == Unsent(c, nid)
           sv == Unserved(c, s, nid)
           nr == Len(c.responses)
           rs == c.responses
<1>1. /\ old \in Int /\ un \in Int /\ sv \in Int /\ nr \in Nat /\ un - old = nr /\ rs \in Seq(Nat) /\ Len(c.reqs) \in Nat
      /\ AskInv(c, nid) /\ ServeInv(old, sv, c.closing, s) /\ ArriveInv(old, un, sv, s, ib) /\ old >= 1
  <2>1. /\ old \in Int /\ un \in Int /\ sv \in Int /\ nr \in Nat /\ Len(c.reqs) \in Nat
        /\ old = nid - Len(c.reqs) - nr /\ un = nid - Len(c.reqs)
    BY Numbers
  <2>2. c.responses \in Seq(Nat)
    BY DEF Conns
  <2>3. /\ AskInv(c, nid) /\ ServeInv(old, sv, c.closing, s) /\ ArriveInv(old, un, sv, s, ib)
    BY DEF LineInv
  <2>4. old >= 1
    BY <2>3 DEF AskInv
  <2>5. un - old = nr
    <3> HIDE DEF old, un, nr
    <3> QED BY <2>1
  <2> QED BY <2>1, <2>2, <2>3, <2>4, <2>5
<1>2. \/ ib[1].of = old /\ (s.up = "up" => old < sv)
      \/ s.up # "up" /\ Len(ib) = 1 /\ Fatal(ib[1])
  BY LineHead
<1>3. Unsent(d, nid) = un /\ Unserved(d, s, nid) = sv
  <2>1. Unsent(d, nid) = un
    BY DEF Unsent
  <2> QED BY <2>1 DEF Unserved
<1>4. CASE Ready(ib[1])
  <2>1. ib[1].of = old /\ (s.up = "up" => old < sv)
    BY <1>2, <1>4 DEF Ready, Fatal
  <2>2. /\ d.responses = Tail(rs) /\ Len(d.responses) = nr - 1
        /\ \A i \in 1 .. nr - 1 : d.responses[i] = rs[i + 1] /\ i + 1 \in 1 .. nr
    BY <1>1, <1>4, TailIs
  <2>3. Oldest(d, nid) = old + 1
    <3> DEFINE x == Len(c.reqs)
               y == Len(d.responses)
    <3>1. Oldest(d, nid) = nid - x - y /\ old = nid - x - nr
      BY DEF Oldest
    <3>2. x \in Nat /\ nr \in Nat /\ y = nr - 1
      BY <1>1, <2>2
    <3> HIDE DEF x, y, old, nr
    <3> QED BY <3>1, <3>2
  <2> HIDE DEF old, un, sv, nr, rs
  <2>4. ArriveInv(old + 1, un, sv, s, Tail(ib))
    BY <1>1, <1>4, <2>1, ArrivesFinished
  <2>5. AskInv(d, nid)
    <3>1. ASSUME NEW i \in 1 .. Len(d.responses) PROVE d.responses[i] = old + 1 + i - 1
      <4>1. d.responses[i] = rs[i + 1] /\ i + 1 \in 1 .. nr
        BY <2>2
      <4>2. rs[i + 1] = old + (i + 1) - 1
        BY <1>1, <4>1 DEF AskInv, old, rs, nr
      <4> QED BY <1>1, <4>1, <4>2
    <3>2. ~c.closing
      BY <1>1 DEF AskInv
    <3>3. \A i \in 1 .. Len(d.reqs) : d.reqs[i].id = un + i - 1 /\ d.reqs[i].call # "terminate"
      BY <1>1 DEF AskInv, un
    <3>4. old + 1 >= 1
      BY <1>1
    <3> QED BY <1>3, <2>3, <3>1, <3>2, <3>3, <3>4 DEF AskInv
  <2>6. ServeInv(old + 1, sv, c.closing, s)
    <3>1. s.stream # <<>> => sv > old + 1
      <4> SUFFICES ASSUME s.stream # <<>> PROVE sv > old + 1
        OBVIOUS
      <4>1. sv > old /\ ~Finished(ib, sv - 1)
        BY <1>1 DEF ServeInv, ArriveInv
      <4>2. 1 \in 1 .. Len(ib)
        BY TailIs
      <4>3. Finished(ib, old)
        BY <1>4, <2>1, <4>2 DEF Finished
      <4>4. sv - 1 # old
        BY <4>1, <4>3
      <4> QED BY <1>1, <4>1, <4>4
    <3>2. s.up = "up" => sv >= old + 1
      BY <1>1, <2>1
    <3> QED BY <1>1, <3>1, <3>2 DEF ServeInv
  <2> QED BY <1>3, <2>3, <2>4, <2>5, <2>6 DEF LineInv, un, sv
<1>5. CASE ~Ready(ib[1])
  <2>1. d.responses = rs
    BY <1>5
  <2>2. Oldest(d, nid) = old
    BY <2>1 DEF Oldest
  <2>3. AskInv(d, nid)
    BY <1>1, <1>3, <2>1, <2>2 DEF AskInv
  <2>4. ArriveInv(old, un, sv, s, Tail(ib))
    <3> HIDE DEF old, un, sv
    <3> QED BY <1>1, <1>5, ArrivesPassed
  <2> QED BY <1>1, <1>3, <2>2, <2>3, <2>4 DEF LineInv
<1> QED BY <1>3, <1>4, <1>5

\* The numbers of a line, and its parts.
LEMMA LineParts ==
  ASSUME NEW c \in Conns, NEW s \in Sessions, NEW ib \in Seq(Msgs), NEW nid \in Nat,
         NEW old, old = Oldest(c, nid), NEW un, un = Unsent(c, nid), NEW sv, sv = Unserved(c, s, nid), LineInv(c, s, ib, nid)
  PROVE  /\ old \in Int /\ un \in Int /\ sv \in Int /\ old >= 1 /\ old <= un /\ sv <= un /\ un <= nid
         /\ AskInv(c, nid) /\ ServeInv(old, sv, c.closing, s) /\ ArriveInv(old, un, sv, s, ib)
         /\ s.up = "up" => sv >= old /\ (\A i \in 1 .. Len(ib) : ib[i].of < sv)
<1>1. old \in Int /\ un \in Int /\ sv \in Int /\ old <= un /\ sv <= un /\ un <= nid
  BY Numbers
<1>2. AskInv(c, nid) /\ ServeInv(old, sv, c.closing, s) /\ ArriveInv(old, un, sv, s, ib)
  BY DEF LineInv
<1>3. old >= 1
  BY <1>2 DEF AskInv
<1>4. s.up = "up" => sv >= old
  BY <1>2 DEF ServeInv
<1>5. ASSUME s.up = "up", NEW i \in 1 .. Len(ib) PROVE ib[i].of < sv
  <2>1. Comes(ib[i], i, Len(ib), old, un, sv, s.up)
    BY <1>2, ArriveParts
  <2>2. CASE Normal(ib[i])
    BY <1>5, <2>1, <2>2 DEF Comes, Belongs
  <2>3. CASE ~Normal(ib[i])
    <3>1. ib[i].of = 0
      BY <2>1, <2>3 DEF Comes
    <3> QED BY <1>1, <1>3, <1>4, <1>5, <3>1
  <2> QED BY <2>2, <2>3
<1> QED BY <1>1, <1>2, <1>3, <1>4, <1>5

\* The server executes its next request.
LEMMA LineAnswer ==
  ASSUME NEW c \in Conns, NEW s \in Sessions, NEW t \in Sessions, NEW ib \in Seq(Msgs), NEW nid \in Nat,
         LineInv(c, s, ib, nid), s.up = "up", s.stream = <<>>, s.queue # <<>>, Head(s.queue).call # "terminate",
         t.up = "up", t.queue = Tail(s.queue), t.stream # <<>>,
         \A i \in 1 .. Len(t.stream) :
           Normal(t.stream[i]) /\ t.stream[i].of = Head(s.queue).id /\ (Ready(t.stream[i]) <=> i = Len(t.stream))
  PROVE  /\ LineInv(c, t, ib, nid) /\ ~c.closing
         /\ Head(s.queue).id = Unserved(c, s, nid) /\ Unserved(c, t, nid) = Unserved(c, s, nid) + 1
<1> DEFINE old == Oldest(c, nid)
           un == Unsent(c, nid)
           sv == Unserved(c, s, nid)
           qu == s.queue
           ns == Len(qu)
<1>1. /\ old \in Int /\ un \in Int /\ sv \in Int /\ old >= 1 /\ old <= un /\ sv <= un
      /\ AskInv(c, nid) /\ ServeInv(old, sv, c.closing, s) /\ ArriveInv(old, un, sv, s, ib) /\ sv >= old
  BY LineParts
<1>2. /\ ns \in Nat /\ ns >= 1 /\ Head(qu) = qu[1] /\ Len(t.queue) = ns - 1
      /\ \A i \in 1 .. ns - 1 : t.queue[i] = qu[i + 1] /\ i + 1 \in 1 .. ns
  <2>1. qu \in Seq(Asked) /\ qu # <<>>
    BY DEF Sessions
  <2> QED BY <2>1, TailIs
<1>3. 1 \in 1 .. ns
  BY <1>2
<1>4. ~c.closing
  <2>1. c.closing => \A i \in 1 .. Len(s.queue) : s.queue[i].call = "terminate"
    BY <1>1 DEF ServeInv
  <2> QED BY <1>2, <1>3, <2>1
<1>5. \A i \in 1 .. ns : qu[i].id = sv + i - 1 /\ qu[i].call # "terminate"
  BY <1>1, <1>4 DEF ServeInv
<1>6. Head(qu).id = sv
  BY <1>1, <1>2, <1>3, <1>5
<1>7. Unserved(c, t, nid) = sv + 1
  <2> DEFINE y == Len(t.queue)
  <2>1. Unserved(c, t, nid) = un - y /\ sv = un - ns
    BY <1>4 DEF Unserved
  <2>2. y = ns - 1
    BY <1>2
  <2> HIDE DEF y, un, sv, ns
  <2> QED BY <1>1, <1>2, <2>1, <2>2
<1>8. ServeInv(old, sv + 1, c.closing, t)
  <2> HIDE DEF old, un, sv, ns, qu
  <2>1. ASSUME NEW i \in 1 .. Len(t.queue) PROVE t.queue[i].id = (sv + 1) + i - 1 /\ t.queue[i].call # "terminate"
    <3>1. t.queue[i] = qu[i + 1] /\ i + 1 \in 1 .. ns
      BY <1>2
    <3>2. qu[i + 1].id = sv + (i + 1) - 1 /\ qu[i + 1].call # "terminate"
      BY <1>5, <3>1
    <3> QED BY <1>1, <1>2, <3>1, <3>2
  <2>2. ASSUME NEW i \in 1 .. Len(t.stream)
        PROVE  Normal(t.stream[i]) /\ t.stream[i].of = (sv + 1) - 1 /\ (Ready(t.stream[i]) <=> i = Len(t.stream))
    BY <1>1, <1>6 DEF qu
  <2>3. sv + 1 >= old /\ sv + 1 > old
    BY <1>1
  <2> QED BY <1>4, <2>1, <2>2, <2>3 DEF ServeInv
<1>9. ArriveInv(old, un, sv + 1, t, ib)
  <2>1. sv >= 1
    BY <1>1
  <2> HIDE DEF old, un, sv, ns, qu
  <2> QED BY <1>1, <2>1, ArrivesAnswer
<1> QED BY <1>1, <1>4, <1>6, <1>7, <1>8, <1>9 DEF LineInv

\* The session is over.
LEMMA LineDown ==
  ASSUME NEW c \in Conns, NEW s \in Sessions, NEW t \in Sessions, NEW ib \in Seq(Msgs), NEW nid \in Nat,
         LineInv(c, s, ib, nid), t.up # "up", t.queue = <<>>, t.stream = <<>>, ~t.tx
  PROVE  LineInv(c, t, ib, nid)
<1> DEFINE old == Oldest(c, nid)
           un == Unsent(c, nid)
           sv == Unserved(c, s, nid)
           sw == Unserved(c, t, nid)
<1>1. /\ old \in Int /\ un \in Int /\ sv \in Int /\ AskInv(c, nid) /\ ArriveInv(old, un, sv, s, ib)
  BY LineParts
<1>2. sw \in Int
  BY Numbers
<1>3. ServeInv(old, sw, c.closing, t)
  BY DEF ServeInv
<1>4. ArriveInv(old, un, sw, t, ib)
  <2> HIDE DEF old, un, sv, sw
  <2> QED BY <1>1, <1>2, ArrivesDown
<1> QED BY <1>1, <1>3, <1>4 DEF LineInv

\* It says so.
LEMMA LineFatal ==
  ASSUME NEW c \in Conns, NEW s \in Sessions, NEW t \in Sessions, NEW ib \in Seq(Msgs), NEW nid \in Nat,
         NEW m \in Msgs, Fatal(m), LineInv(c, s, ib, nid), s.up = "up",
         t.up # "up", t.queue = <<>>, t.stream = <<>>, ~t.tx
  PROVE  LineInv(c, t, Append(ib, m), nid)
<1> DEFINE old == Oldest(c, nid)
           un == Unsent(c, nid)
           sv == Unserved(c, s, nid)
           sw == Unserved(c, t, nid)
           new == Append(ib, m)
<1>1. /\ old \in Int /\ un \in Int /\ sv \in Int /\ old >= 1 /\ AskInv(c, nid) /\ ArriveInv(old, un, sv, s, ib)
      /\ \A i \in 1 .. Len(ib) : ib[i].of < sv
  BY LineParts
<1>2. sw \in Int /\ new \in Seq(Msgs)
  BY Numbers, AppendIs
<1>3. ServeInv(old, sw, c.closing, t)
  BY DEF ServeInv
<1>4. ArriveInv(old, un, sw, t, new)
  <2>1. ArriveInv(old, un, sv, t, new)
    <3> HIDE DEF old, un, sv, sw
    <3> QED BY <1>1, ArrivesMore
  <2> HIDE DEF old, un, sv, sw, new
  <2> QED BY <1>1, <1>2, <2>1, ArrivesDown
<1> QED BY <1>1, <1>3, <1>4 DEF LineInv

\* It says something by itself.
LEMMA LineAside ==
  ASSUME NEW c \in Conns, NEW s \in Sessions, NEW ib \in Seq(Msgs), NEW nid \in Nat,
         NEW m \in Msgs, ~Normal(m), m.of = 0, LineInv(c, s, ib, nid), s.up = "up"
  PROVE  LineInv(c, s, Append(ib, m), nid)
<1> DEFINE old == Oldest(c, nid)
           un == Unsent(c, nid)
           sv == Unserved(c, s, nid)
<1>1. /\ old \in Int /\ un \in Int /\ sv \in Int /\ old >= 1 /\ AskInv(c, nid) /\ ArriveInv(old, un, sv, s, ib)
      /\ \A i \in 1 .. Len(ib) : ib[i].of < sv
  BY LineParts
<1>2. ArriveInv(old, un, sv, s, Append(ib, m))
  <2> HIDE DEF old, un, sv
  <2> QED BY <1>1, ArrivesMore
<1> QED BY <1>2 DEF LineInv

\* The next message of an answer arrives.
LEMMA LineDeliver ==
  ASSUME NEW c \in Conns, NEW s \in Sessions, NEW t \in Sessions, NEW ib \in Seq(Msgs), NEW nid \in Nat,
         LineInv(c, s, ib, nid), s.up = "up", s.stream # <<>>,
         t.up = "up", t.queue = s.queue, t.stream = Tail(s.stream)
  PROVE  LineInv(c, t, Append(ib, Head(s.stream)), nid) /\ Unserved(c, t, nid) = Unserved(c, s, nid)
<1> DEFINE old == Oldest(c, nid)
           un == Unsent(c, nid)
           sv == Unserved(c, s, nid)
           st == s.stream
           n == Len(st)
           m == Head(st)
<1>1. /\ old \in Int /\ un \in Int /\ sv \in Int /\ old >= 1 /\ sv <= un
      /\ AskInv(c, nid) /\ ServeInv(old, sv, c.closing, s) /\ ArriveInv(old, un, sv, s, ib)
      /\ \A i \in 1 .. Len(ib) : ib[i].of < sv
  BY LineParts
<1>2. /\ n \in Nat /\ n >= 1 /\ m = st[1] /\ m \in Msgs /\ Len(t.stream) = n - 1 /\ t.stream \in Seq(Msgs)
      /\ \A i \in 1 .. n - 1 : t.stream[i] = st[i + 1] /\ i + 1 \in 1 .. n
  <2>1. st \in Seq(Msgs) /\ st # <<>>
    BY DEF Sessions
  <2> QED BY <2>1, TailIs
<1>3. 1 \in 1 .. n
  BY <1>2
<1>4. sv > old /\ \A i \in 1 .. n : Normal(st[i]) /\ st[i].of = sv - 1 /\ (Ready(st[i]) <=> i = n)
  BY <1>1 DEF ServeInv
<1>5. Normal(m) /\ m.of = sv - 1 /\ (Ready(m) <=> 1 = n)
  BY <1>2, <1>3, <1>4
<1>6. t.stream = <<>> <=> n = 1
  <2> DEFINE ts == t.stream
  <2>1. ts \in Seq(Msgs) /\ Len(ts) = n - 1
    BY <1>2
  <2> HIDE DEF ts, n
  <2>2. ts = <<>> <=> n = 1
    BY <1>2, <2>1
  <2> QED BY <2>2 DEF ts
<1>7. Unserved(c, t, nid) = sv
  BY DEF Unserved
<1>8. ServeInv(old, sv, c.closing, t)
  <2>1. ASSUME NEW i \in 1 .. Len(t.stream)
        PROVE  Normal(t.stream[i]) /\ t.stream[i].of = sv - 1 /\ (Ready(t.stream[i]) <=> i = Len(t.stream))
    <3> HIDE DEF n, st, sv, m
    <3>1. i \in 1 .. n - 1
      BY <1>2
    <3>2. t.stream[i] = st[i + 1] /\ i + 1 \in 1 .. n /\ (i + 1 = n <=> i = n - 1)
      BY <1>2, <3>1
    <3>3. Normal(st[i + 1]) /\ st[i + 1].of = sv - 1 /\ (Ready(st[i + 1]) <=> i + 1 = n)
      BY <1>4, <3>2
    <3> QED BY <1>2, <3>2, <3>3
  <2> QED BY <1>1, <1>4, <2>1 DEF ServeInv
<1>9. ArriveInv(old, un, sv, t, Append(ib, m))
  <2>1. Ready(m) <=> t.stream = <<>>
    BY <1>5, <1>6
  <2>2. s.stream # <<>>
    OBVIOUS
  <2> HIDE DEF old, un, sv, m, n, st
  <2> QED BY <1>1, <1>2, <1>4, <1>5, <2>1, <2>2, ArrivesMore
<1> QED BY <1>1, <1>7, <1>8, <1>9 DEF LineInv

\* The server has as much to execute as before.
SvKept == server'.up = "up" => Unserved(conn', server', nextId') = Unserved(conn, server, nextId)

Line == TypeOK /\ LineInv(conn, server, inbox, nextId)

\* A request sent with what was written.
LEMMA LineSent ==
  ASSUME nextId \in Nat, NEW c \in Conns, NEW s \in Sessions, NEW ib \in Seq(Msgs), NEW call \in Calls,
         LineInv(c, s, ib, nextId), ~c.closed
  PROVE  /\ LineInv(send(c, call), s, ib, nextId + 1) /\ send(c, call) \in Conns
         /\ Unserved(send(c, call), s, nextId + 1) = Unserved(c, s, nextId)
<1> DEFINE d == send(c, call)
<1>1. /\ d \in Conns /\ d.responses = c.responses /\ d.closing = c.closing /\ d.closed = c.closed
      /\ d.reqs = Append(c.reqs, [id |-> nextId, call |-> call])
  BY SendIs
<1>2. call # "terminate" /\ [id |-> nextId, call |-> call] \in Asked
  BY DEF Calls, Requests, Bound, NotificationIters, Asked
<1> HIDE DEF d
<1>3. LineInv(d, s, ib, nextId + 1) /\ Unserved(d, s, nextId + 1) = Unserved(c, s, nextId)
  BY <1>1, <1>2, LineSend
<1> QED BY <1>1, <1>3 DEF d

\* The Connection fails.
LEMMA LineFails ==
  ASSUME TypeOK, NEW ib, LineInv(conn, server, ib, nextId), NEW why, Fail(why), nextId' = nextId
  PROVE  LineInv(conn', server', ib, nextId') /\ SvKept
<1>1. /\ conn' = [conn EXCEPT !.chan = <<>>, !.closed = TRUE] /\ server' = server /\ nextId' = nextId
  BY DEF Fail
<1>2. conn \in Conns /\ conn' \in Conns
  <2>1. <<>> \in Seq(Msgs)
    BY Empty
  <2> QED BY <1>1, <2>1 DEF TypeOK, Conns
<1>3. conn'.reqs = conn.reqs /\ conn'.responses = conn.responses /\ conn'.closing = conn.closing /\ conn'.closed
  BY <1>1, <1>2 DEF Conns
<1>4. LineInv(conn', server, ib, nextId) /\ Unserved(conn', server, nextId) = Unserved(conn, server, nextId)
  BY <1>2, <1>3, LineSame
<1> QED BY <1>1, <1>4 DEF SvKept

\* The line holds over every step.
LEMMA LinePollRead == Line /\ PollRead => LineInv(conn', server', inbox', nextId') /\ SvKept
<1> SUFFICES ASSUME Line, PollRead PROVE LineInv(conn', server', inbox', nextId') /\ SvKept
  OBVIOUS
<1> DEFINE m == Head(inbox)
<1>0. /\ TypeOK /\ LineInv(conn, server, inbox, nextId) /\ inbox \in Seq(Msgs) /\ inbox # <<>> /\ nextId \in Nat
      /\ conn \in Conns /\ server \in Sessions
  BY DEF Line, TypeOK, PollRead
<1>1. m = inbox[1] /\ m \in Msgs /\ Tail(inbox) \in Seq(Msgs)
  BY <1>0, TailIs
<1>2. inbox' = Tail(inbox) /\ nextId' = nextId
  BY DEF PollRead
<1>3. CASE m.is \in {"notification", "notice"}
           /\ LET c == IF m.is = "notice" THEN conn
                       ELSE [conn EXCEPT !.notifications = push_back(@, m.n)]
              IN  conn' = poll_write(c) /\ server' = Written(c)
  <2> DEFINE c == IF m.is = "notice" THEN conn ELSE [conn EXCEPT !.notifications = push_back(@, m.n)]
  <2>1. push_back(conn.notifications, m.n) \in Seq(Nat)
    BY <1>0, <1>1 DEF Conns, Msgs, push_back
  <2>2. c \in Conns /\ c.reqs = conn.reqs /\ c.responses = conn.responses /\ c.closing = conn.closing /\ c.closed = conn.closed
    BY <1>0, <2>1 DEF Conns
  <2>3. conn' = poll_write(c) /\ server' = Written(c)
    BY <1>3
  <2>4. ~Normal(inbox[1])
    BY <1>1, <1>3 DEF Normal
  <2> HIDE DEF c, m
  <2>5. LineInv(conn, server, Tail(inbox), nextId)
    BY <1>0, <2>4, LinePass
  <2>6. LineInv(c, server, Tail(inbox), nextId) /\ Unserved(c, server, nextId) = Unserved(conn, server, nextId)
    BY <1>0, <2>2, <2>5, LineSame
  <2>7. /\ LineInv(poll_write(c), Written(c), Tail(inbox), nextId)
        /\ Unserved(poll_write(c), Written(c), nextId) = Unserved(c, server, nextId) \/ server.up # "up"
    BY <1>0, <1>1, <2>2, <2>6, LineWrite
  <2>8. Written(c).up = server.up
    BY <1>0, <2>2, WrittenIs
  <2> QED BY <1>2, <2>3, <2>6, <2>7, <2>8 DEF SvKept
<1>4. CASE m.is = "parameter" /\ UNCHANGED <<conn, server>>
  <2>1. ~Normal(inbox[1])
    BY <1>1, <1>4 DEF Normal
  <2>2. LineInv(conn, server, Tail(inbox), nextId)
    BY <1>0, <2>1, LinePass
  <2> QED BY <1>2, <1>4, <2>2 DEF SvKept
<1>5. CASE Normal(m) /\ conn.responses # <<>> /\ conn' = route(conn, m) /\ UNCHANGED server
  <2> DEFINE d == route(conn, m)
  <2>1. /\ d \in Conns /\ d.reqs = conn.reqs /\ d.closed = conn.closed /\ d.closing = conn.closing
        /\ d.responses = IF Ready(inbox[1]) THEN Tail(conn.responses) ELSE conn.responses
    BY <1>0, <1>1, <1>5, RouteIs
  <2>2. Normal(inbox[1]) /\ conn.responses # <<>> /\ conn' = d /\ server' = server
    BY <1>1, <1>5
  <2> HIDE DEF d, m
  <2>3. LineInv(d, server, Tail(inbox), nextId) /\ Unserved(d, server, nextId) = Unserved(conn, server, nextId)
    BY <1>0, <2>1, <2>2, LineRoute
  <2> QED BY <1>2, <2>2, <2>3 DEF SvKept
<1>6. CASE Normal(m) /\ conn.responses = <<>> /\ Fail(IF m.is = "ErrorResponse" THEN "db" ELSE "unexpected")
  <2>1. Normal(inbox[1]) /\ conn.responses = <<>> /\ Fail(IF m.is = "ErrorResponse" THEN "db" ELSE "unexpected")
    BY <1>1, <1>6
  <2>2. Fatal(inbox[1])
    BY <1>0, <2>1, LineHead
  <2>3. LineInv(conn, server, Tail(inbox), nextId)
    BY <1>0, <2>2, LinePass
  <2> QED BY <1>0, <1>2, <2>1, <2>3, LineFails
<1> QED BY <1>3, <1>4, <1>5, <1>6 DEF PollRead, m

\* What the Connection c has written, and what was sent or taken after that.
LEMMA LinePollFuture == Line /\ PollFuture => LineInv(conn', server', inbox', nextId') /\ SvKept
<1> SUFFICES ASSUME Line, PollFuture PROVE LineInv(conn', server', inbox', nextId') /\ SvKept
  OBVIOUS
<1>0. /\ TypeOK /\ LineInv(conn, server, inbox, nextId) /\ inbox \in Seq(Msgs) /\ nextId \in Nat
      /\ conn \in Conns /\ server \in Sessions /\ op \in Ops
  BY DEF Line, TypeOK
<1>1. inbox' = inbox
  BY DEF PollFuture
<1>2. CASE Fail("closed") /\ UNCHANGED <<plan, nextId, handle>>
  BY <1>0, <1>1, <1>2, LineFails
<1>3. CASE server' = Written(conn)
           /\ \E c \in {poll_write(conn)} : SendRequest(c) \/ ReadAnswer(c) \/ PopNotification(c) \/ AwaitDone(c)
  <2> DEFINE c == poll_write(conn)
             t == Written(conn)
  <2>1. /\ LineInv(c, t, inbox, nextId) /\ c \in Conns /\ t \in Sessions /\ t.up = server.up
        /\ Unserved(c, t, nextId) = Unserved(conn, server, nextId) \/ server.up # "up"
    BY <1>0, LineWrite, WriteIs, WrittenIs
  <2>2. server' = t /\ (SendRequest(c) \/ ReadAnswer(c) \/ PopNotification(c) \/ AwaitDone(c))
    BY <1>3
  <2> HIDE DEF c, t
  <2>3. ASSUME NEW d \in Conns, d.reqs = c.reqs, d.responses = c.responses, d.closing = c.closing, d.closed = c.closed,
               conn' = d, nextId' = nextId
        PROVE  LineInv(conn', server', inbox', nextId') /\ SvKept
    <3>1. LineInv(d, t, inbox, nextId) /\ Unserved(d, t, nextId) = Unserved(c, t, nextId)
      BY <2>1, <2>3, LineSame
    <3> QED BY <1>1, <2>1, <2>2, <2>3, <3>1 DEF SvKept
  <2>4. ASSUME NEW d \in Conns, d.reqs = c.reqs, d.responses = c.responses, d.closing = c.closing, d.closed = c.closed,
               NEW call \in Calls, ~c.closed, conn' = send(d, call), nextId' = nextId + 1
        PROVE  LineInv(conn', server', inbox', nextId') /\ SvKept
    <3>1. LineInv(d, t, inbox, nextId) /\ Unserved(d, t, nextId) = Unserved(c, t, nextId)
      BY <2>1, <2>4, LineSame
    <3>2. LineInv(send(d, call), t, inbox, nextId + 1) /\ Unserved(send(d, call), t, nextId + 1) = Unserved(d, t, nextId)
      BY <1>0, <2>1, <2>4, <3>1, LineSent
    <3> QED BY <1>1, <2>1, <2>2, <2>4, <3>1, <3>2 DEF SvKept
  <2>5. CASE SendRequest(c)
    <3>1. CASE c.closed
      <4>1. conn' = c /\ nextId' = nextId
        BY <2>5, <3>1 DEF SendRequest, Closed
      <4> QED BY <2>1, <2>3, <4>1
    <3>2. CASE ~c.closed
      <4>1. conn' = send(c, op.call) /\ nextId' = nextId + 1
        BY <2>5, <3>2 DEF SendRequest
      <4>2. op.call \in Calls
        BY <1>0 DEF Ops
      <4> QED BY <2>1, <2>4, <3>2, <4>1, <4>2
    <3> QED BY <3>1, <3>2
  <2>6. CASE ReadAnswer(c)
    <3>1. PICK p \in {Polled(op.r, c, live)} :
             Return(IF op.timer /\ p.r.res = Pending THEN Err(p.r, "timeout") ELSE p.r, c, p.chan)
      BY <2>6 DEF ReadAnswer
    <3>2. op.r.res = Pending
      BY DEF PollFuture, Returned
    <3>3. p.chan \in Seq(Msgs) /\ <<>> \in Seq(Msgs)
      BY <1>0, <2>1, <3>1, <3>2, Empty, PolledType DEF Conns, Ops
    <3>4. PICK ch \in Seq(Msgs) : /\ \/ conn' = [c EXCEPT !.chan = ch] /\ nextId' = nextId
                                     \/ conn' = send([c EXCEPT !.chan = ch], "rollback") /\ nextId' = nextId + 1 /\ ~c.closed
      BY <3>1, <3>3 DEF Return
    <3> DEFINE d == [c EXCEPT !.chan = ch]
    <3>5. d \in Conns /\ d.reqs = c.reqs /\ d.responses = c.responses /\ d.closing = c.closing /\ d.closed = c.closed
      BY <2>1 DEF Conns
    <3>6. "rollback" \in Calls
      BY CallTypes DEF Requests
    <3>7. \/ conn' = d /\ nextId' = nextId
          \/ conn' = send(d, "rollback") /\ nextId' = nextId + 1 /\ ~c.closed
      BY <3>4
    <3> HIDE DEF d
    <3> QED BY <2>3, <2>4, <3>5, <3>6, <3>7
  <2>7. CASE PopNotification(c)
    <3>1. nextId' = nextId /\ (conn' = c \/ (c.notifications # <<>> /\ conn' = [c EXCEPT !.notifications = Tail(@)]))
      BY <2>7 DEF PopNotification
    <3>2. CASE conn' = c
      BY <2>1, <2>3, <3>1, <3>2
    <3>3. CASE c.notifications # <<>> /\ conn' = [c EXCEPT !.notifications = Tail(@)]
      <4> DEFINE d == [c EXCEPT !.notifications = Tail(@)]
      <4>1. Tail(c.notifications) \in Seq(Nat)
        BY <2>1, <3>3, TailIs DEF Conns
      <4>2. d \in Conns /\ d.reqs = c.reqs /\ d.responses = c.responses /\ d.closing = c.closing /\ d.closed = c.closed
        BY <2>1, <4>1 DEF Conns
      <4>3. conn' = d
        BY <3>3
      <4> HIDE DEF d
      <4> QED BY <2>3, <3>1, <4>2, <4>3
    <3> QED BY <3>1, <3>2, <3>3
  <2>8. CASE AwaitDone(c)
    <3>1. conn' = c /\ nextId' = nextId
      BY <2>8 DEF AwaitDone
    <3> QED BY <2>1, <2>3, <3>1
  <2> QED BY <2>2, <2>5, <2>6, <2>7, <2>8
<1> QED BY <1>2, <1>3 DEF PollFuture

\* The application only sends, or takes what it was given.
LEMMA LineApplication == Line /\ Application => LineInv(conn', server', inbox', nextId') /\ SvKept
<1> SUFFICES ASSUME Line, Application PROVE LineInv(conn', server', inbox', nextId') /\ SvKept
  OBVIOUS
<1>0. /\ TypeOK /\ LineInv(conn, server, inbox, nextId) /\ inbox \in Seq(Msgs) /\ nextId \in Nat
      /\ conn \in Conns /\ server \in Sessions
  BY DEF Line, TypeOK
<1>1. UNCHANGED <<server, inbox>>
  BY DEF Application, Call, CallClient, CallTransaction, EndTransaction, DropPortal, NextItem, DropIter,
         NextNotification, TimeoutIter, Close, TakeResult
<1>2. ASSUME NEW d \in Conns, d.reqs = conn.reqs, d.responses = conn.responses, d.closing = conn.closing,
             conn.closed => d.closed, conn' = d, nextId' = nextId
      PROVE  LineInv(conn', server', inbox', nextId') /\ SvKept
  <2>1. LineInv(d, server, inbox, nextId) /\ Unserved(d, server, nextId) = Unserved(conn, server, nextId)
    BY <1>0, <1>2, LineSame
  <2> QED BY <1>1, <1>2, <2>1 DEF SvKept
<1>3. CASE Call \/ CallClient \/ CallTransaction \/ EndTransaction \/ NextItem \/ TimeoutIter \/ TakeResult
  <2>1. UNCHANGED <<conn, nextId>>
    BY <1>3 DEF Call, CallClient, CallTransaction, EndTransaction, NextItem, TimeoutIter, TakeResult
  <2> QED BY <1>0, <1>1, <2>1 DEF SvKept
<1>4. CASE DropPortal
  <2>1. conn' = send(conn, "close_portal") /\ nextId' = IF conn.closed THEN nextId ELSE nextId + 1
    BY <1>4 DEF DropPortal
  <2>2. "close_portal" \in Calls
    BY CallTypes
  <2>3. CASE conn.closed
    <3>1. conn' = conn /\ nextId' = nextId
      BY <1>0, <2>1, <2>2, <2>3, SendIs
    <3> QED BY <1>0, <1>1, <3>1 DEF SvKept
  <2>4. CASE ~conn.closed
    <3>1. /\ LineInv(send(conn, "close_portal"), server, inbox, nextId + 1)
          /\ Unserved(send(conn, "close_portal"), server, nextId + 1) = Unserved(conn, server, nextId)
      BY <1>0, <2>2, <2>4, LineSent
    <3> QED BY <1>1, <2>1, <2>4, <3>1 DEF SvKept
  <2> QED BY <2>3, <2>4
<1>5. CASE DropIter
  <2> DEFINE d == [conn EXCEPT !.chan = <<>>]
  <2>1. <<>> \in Seq(Msgs)
    BY Empty
  <2>2. d \in Conns /\ d.reqs = conn.reqs /\ d.responses = conn.responses /\ d.closing = conn.closing /\ d.closed = conn.closed
    BY <1>0, <2>1 DEF Conns
  <2>3. conn' = d /\ nextId' = nextId
    BY <1>5 DEF DropIter
  <2> HIDE DEF d
  <2> QED BY <1>2, <2>2, <2>3
<1>6. CASE NextNotification
  <2>1. nextId' = nextId /\ (conn' = conn \/ (conn.notifications # <<>> /\ conn' = [conn EXCEPT !.notifications = Tail(@)]))
    BY <1>6 DEF NextNotification
  <2>2. CASE conn' = conn
    BY <1>0, <1>2, <2>1, <2>2
  <2>3. CASE conn.notifications # <<>> /\ conn' = [conn EXCEPT !.notifications = Tail(@)]
    <3> DEFINE d == [conn EXCEPT !.notifications = Tail(@)]
    <3>1. Tail(conn.notifications) \in Seq(Nat)
      BY <1>0, <2>3, TailIs DEF Conns
    <3>2. d \in Conns /\ d.reqs = conn.reqs /\ d.responses = conn.responses /\ d.closing = conn.closing /\ d.closed = conn.closed
      BY <1>0, <3>1 DEF Conns
    <3>3. conn' = d
      BY <2>3
    <3> HIDE DEF d
    <3> QED BY <1>2, <2>1, <3>2, <3>3
  <2> QED BY <2>1, <2>2, <2>3
<1>7. CASE Close
  <2> DEFINE d == [conn EXCEPT !.closed = TRUE]
  <2>1. d \in Conns /\ d.reqs = conn.reqs /\ d.responses = conn.responses /\ d.closing = conn.closing /\ d.closed
    BY <1>0 DEF Conns
  <2>2. conn' = d /\ nextId' = nextId
    BY <1>7 DEF Close
  <2> HIDE DEF d
  <2> QED BY <1>2, <2>1, <2>2
<1> QED BY <1>3, <1>4, <1>5, <1>6, <1>7 DEF Application

\* What the server executes: the end of the session, or the oldest request
\* not yet executed, by a plan for it.
Executes(q, pl) ==
  /\ server.up = "up" /\ server.stream = <<>> /\ server.queue # <<>> /\ q = Head(server.queue) /\ q.call # "terminate"
  /\ pl \in Plans(q.call) /\ server'.up = "up" /\ server'.queue = Tail(server.queue)
  /\ server'.stream = Answer(q.call, q.id, pl)
  /\ server'.tx = CASE q.call = "begin" -> server.tx \/ pl.end = "ok"
                    [] q.call \in {"commit", "rollback", "drop_tx"} -> FALSE
                    [] OTHER -> server.tx
  /\ plan' = IF q.id = live THEN pl ELSE plan

Over(s) == s.up # "up" /\ s.queue = <<>> /\ s.stream = <<>> /\ ~s.tx

\* Execute by its two outcomes: the session ends, or an answer begins.
LEMMA ExecuteIs ==
  ASSUME server \in Sessions, Execute
  PROVE  \/ server.up = "up" /\ Over(server') /\ plan' = plan
         \/ \E q, pl : Executes(q, pl)
<1> DEFINE q == Head(server.queue)
<1>1. CASE q.call = "terminate"
  <2>1. /\ server' = [server EXCEPT !.queue = <<>>, !.tx = FALSE, !.up = "eof"] /\ plan' = plan /\ server.stream = <<>>
        /\ server.up = "up"
    BY <1>1 DEF Execute
  <2> QED BY <2>1 DEF Over, Sessions
<1>2. CASE q.call # "terminate"
  <2>1. PICK pl \in Plans(q.call) :
          /\ server' = [server EXCEPT
               !.queue = Tail(@), !.stream = Answer(q.call, q.id, pl),
               !.tx = CASE q.call = "begin" -> @ \/ pl.end = "ok"
                        [] q.call \in {"commit", "rollback", "drop_tx"} -> FALSE
                        [] OTHER -> @]
          /\ plan' = IF q.id = live THEN pl ELSE plan
    BY <1>2 DEF Execute
  <2>2. server.up = "up" /\ server.stream = <<>> /\ server.queue # <<>>
    BY DEF Execute
  <2> HIDE DEF q
  <2>3. /\ server'.up = "up" /\ server'.queue = Tail(server.queue) /\ server'.stream = Answer(q.call, q.id, pl)
        /\ server'.tx = CASE q.call = "begin" -> server.tx \/ pl.end = "ok"
                          [] q.call \in {"commit", "rollback", "drop_tx"} -> FALSE
                          [] OTHER -> server.tx
    BY <2>1, <2>2 DEF Sessions
  <2> QED BY <1>2, <2>1, <2>2, <2>3 DEF Executes, q
<1> QED BY <1>1, <1>2

\* The executed request is the first unserved.
LEMMA LineExecutes ==
  ASSUME Line, Execute, server' \in Sessions, NEW q, NEW pl, Executes(q, pl)
  PROVE  /\ LineInv(conn', server', inbox', nextId') /\ ~conn.closing
         /\ q.call \in Calls /\ q.id \in Nat /\ Placed(Answer(q.call, q.id, pl), q.call, q.id, pl)
         /\ q.id = Unserved(conn, server, nextId) /\ Unserved(conn', server', nextId') = q.id + 1
<1>0. /\ LineInv(conn, server, inbox, nextId) /\ inbox \in Seq(Msgs) /\ nextId \in Nat
      /\ conn \in Conns /\ server \in Sessions
  BY DEF Line, TypeOK
<1>1. UNCHANGED <<conn, inbox, nextId>>
  BY DEF Execute
<1>2. q \in Asked /\ q.call # "terminate" /\ q = Head(server.queue)
  <2>1. server.queue \in Seq(Asked) /\ server.queue # <<>> /\ q = Head(server.queue) /\ q.call # "terminate"
    BY <1>0 DEF Executes, Sessions
  <2> QED BY <2>1, TailIs
<1>3. q.call \in Calls /\ q.id \in Nat /\ pl \in Plans(q.call)
  BY <1>2 DEF Asked, Executes
<1> DEFINE a == Answer(q.call, q.id, pl)
<1>4. Placed(a, q.call, q.id, pl)
  BY <1>3, AnswerIs
<1> HIDE DEF a
<1>5. /\ a \in Seq(Msgs) /\ Len(a) >= 1 /\ Len(a) \in Nat
      /\ \A i \in 1 .. Len(a) : a[i].of = q.id /\ Normal(a[i]) /\ (Ready(a[i]) <=> i = Len(a))
  BY <1>3, <1>4, AnswerParts
<1>6. a # <<>>
  BY <1>5
<1>7. /\ server.up = "up" /\ server.stream = <<>> /\ server.queue # <<>>
      /\ server'.up = "up" /\ server'.queue = Tail(server.queue) /\ server'.stream = a
  BY DEF Executes, a
<1>8. \A i \in 1 .. Len(server'.stream) :
        Normal(server'.stream[i]) /\ server'.stream[i].of = Head(server.queue).id
          /\ (Ready(server'.stream[i]) <=> i = Len(server'.stream))
  BY <1>2, <1>5, <1>7
<1>9. /\ LineInv(conn, server', inbox, nextId) /\ ~conn.closing
      /\ Head(server.queue).id = Unserved(conn, server, nextId)
      /\ Unserved(conn, server', nextId) = Unserved(conn, server, nextId) + 1
  BY <1>0, <1>2, <1>6, <1>7, <1>8, LineAnswer
<1> QED BY <1>1, <1>2, <1>3, <1>4, <1>9 DEF a

LEMMA LineServer ==
  Line /\ server' \in Sessions /\ (Deliver \/ Notify \/ Disconnect \/ Hangup \/ Elapse) =>
    LineInv(conn', server', inbox', nextId') /\ SvKept
<1> SUFFICES ASSUME Line, server' \in Sessions, Deliver \/ Notify \/ Disconnect \/ Hangup \/ Elapse
             PROVE  LineInv(conn', server', inbox', nextId') /\ SvKept
  OBVIOUS
<1>0. /\ LineInv(conn, server, inbox, nextId) /\ inbox \in Seq(Msgs) /\ nextId \in Nat
      /\ conn \in Conns /\ server \in Sessions
  BY DEF Line, TypeOK
<1>1. UNCHANGED <<conn, nextId>>
  BY DEF Deliver, Notify, Disconnect, Hangup, Elapse
<1>2. CASE Deliver
  <2>1. server.up = "up" /\ server.stream # <<>> /\ inbox' = Append(inbox, Head(server.stream))
        /\ server' = [server EXCEPT !.stream = Tail(@)]
    BY <1>2 DEF Deliver
  <2>2. server'.up = "up" /\ server'.queue = server.queue /\ server'.stream = Tail(server.stream)
    BY <1>0, <2>1 DEF Sessions
  <2>3. LineInv(conn, server', inbox', nextId) /\ Unserved(conn, server', nextId) = Unserved(conn, server, nextId)
    BY <1>0, <2>1, <2>2, LineDeliver
  <2> QED BY <1>1, <2>3 DEF SvKept
<1>3. CASE Notify
  <2>1. PICK is \in {"notification", "notice", "parameter"} : inbox' = Append(inbox, Msg(is, 0, told'))
    BY <1>3 DEF Notify
  <2>2. told' \in Nat /\ server' = server /\ server.up = "up"
    BY <1>3 DEF Notify, Line, TypeOK
  <2> DEFINE m == Msg(is, 0, told')
  <2>3. m \in Msgs /\ ~Normal(m) /\ m.of = 0
    BY <2>2 DEF Msg, Msgs, Normal, Kinds
  <2>4. inbox' = Append(inbox, m)
    BY <2>1
  <2> HIDE DEF m
  <2>5. LineInv(conn, server, inbox', nextId)
    BY <1>0, <2>2, <2>3, <2>4, LineAside
  <2> QED BY <1>1, <2>2, <2>5 DEF SvKept
<1>4. CASE Disconnect
  <2>1. Over(server') /\ server.up = "up"
    BY <1>0, <1>4 DEF Disconnect, Sessions, Over
  <2>2. CASE inbox' = inbox
    <3>1. LineInv(conn, server', inbox, nextId)
      BY <1>0, <2>1, LineDown DEF Over
    <3> QED BY <1>1, <2>1, <2>2, <3>1 DEF SvKept, Over
  <2>3. CASE inbox' = Append(inbox, Msg("ErrorResponse", 0, 0))
    <3> DEFINE m == Msg("ErrorResponse", 0, 0)
    <3>1. m \in Msgs /\ Fatal(m)
      BY DEF Msg, Msgs, Fatal, Kinds
    <3>2. inbox' = Append(inbox, m)
      BY <2>3
    <3> HIDE DEF m
    <3>3. LineInv(conn, server', inbox', nextId)
      BY <1>0, <2>1, <3>1, <3>2, LineFatal DEF Over
    <3> QED BY <1>1, <2>1, <3>3 DEF SvKept, Over
  <2> QED BY <1>4, <2>2, <2>3 DEF Disconnect
<1>5. CASE Hangup
  <2>1. inbox' = inbox /\ server' = [server EXCEPT !.up = "eof"] /\ server.up = "fatal"
    BY <1>5 DEF Hangup
  <2>2. server.up # "up" => server.queue = <<>> /\ server.stream = <<>> /\ ~server.tx
    BY <1>0 DEF LineInv, ServeInv
  <2>3. Over(server')
    BY <1>0, <2>1, <2>2 DEF Sessions, Over
  <2>4. LineInv(conn, server', inbox, nextId)
    BY <1>0, <2>3, LineDown DEF Over
  <2> QED BY <1>1, <2>1, <2>3, <2>4 DEF SvKept, Over
<1>6. CASE Elapse
  <2>1. inbox' = inbox /\ server' = server
    BY <1>6 DEF Elapse
  <2> QED BY <1>0, <1>1, <2>1 DEF SvKept
<1> QED BY <1>2, <1>3, <1>4, <1>5, <1>6

-----------------------------------------------------------------------------
(***************************************************************************)
(* Where the rest of an answer is.                                         *)
(***************************************************************************)

\* The messages of one answer.
Whole(a, id) ==
  /\ a \in Seq(Msgs) /\ Len(a) \in Nat /\ id \in Nat \ {0}
  /\ \A i \in 1 .. Len(a) : a[i].of = id
  /\ \A i, j \in 1 .. Len(a) : a[i] = a[j] => i = j

\* An answer is all of its request, and no two of its messages are equal.
LEMMA AnswerWhole ==
  ASSUME NEW call \in Calls, NEW id \in Nat \ {0}, NEW pl \in Plans(call)
  PROVE  Whole(Answer(call, id, pl), id) /\ Placed(Answer(call, id, pl), call, id, pl)
<1> DEFINE a == Answer(call, id, pl)
<1>0. id \in Nat
  OBVIOUS
<1>1. Placed(a, call, id, pl)
  BY <1>0, AnswerIs
<1> HIDE DEF a
<1>2. a \in Seq(Msgs) /\ Len(a) \in Nat /\ \A i \in 1 .. Len(a) : a[i].of = id
  BY <1>0, <1>1, AnswerParts
<1>3. \A i, j \in 1 .. Len(a) : a[i] = a[j] => i = j
  BY <1>0, <1>1, Distinct
<1> QED BY <1>1, <1>2, <1>3 DEF Whole, a

\* A message of another answer, or of none, leaves or arrives.
LEMMA ComingPass ==
  ASSUME NEW a, NEW id, Whole(a, id), NEW f \in Nat, NEW q \in Nat, q <= Len(a), NEW ib \in Seq(Msgs), ib # <<>>,
         ib[1].of # id, Coming(a, id, f, q, ib)
  PROVE  Coming(a, id, f, q, Tail(ib))
<1> DEFINE new == Tail(ib)
<1>1. /\ new \in Seq(Msgs) /\ Len(ib) \in Nat /\ Len(ib) >= 1 /\ Len(new) = Len(ib) - 1
      /\ \A i \in 1 .. Len(ib) - 1 : new[i] = ib[i + 1] /\ i + 1 \in 1 .. Len(ib)
  BY TailIs
<1> HIDE DEF new
<1>2. ASSUME NEW i \in 1 .. Len(new), new[i].of = id PROVE \E p \in f + 1 .. q : new[i] = a[p]
  <2>1. new[i] = ib[i + 1] /\ i + 1 \in 1 .. Len(ib)
    BY <1>1
  <2> QED BY <1>2, <2>1 DEF Coming
<1>3. ASSUME NEW i \in 1 .. Len(new), NEW j \in 1 .. Len(new), NEW p \in 1 .. Len(a), NEW r \in 1 .. Len(a),
             i < j, new[i] = a[p], new[j] = a[r]
      PROVE  p < r
  <2>0. i \in 1 .. Len(ib) - 1 /\ j \in 1 .. Len(ib) - 1 /\ i + 1 < j + 1
    BY <1>1, <1>3
  <2>1. new[i] = ib[i + 1] /\ i + 1 \in 1 .. Len(ib) /\ new[j] = ib[j + 1] /\ j + 1 \in 1 .. Len(ib) /\ i + 1 < j + 1
    BY <1>1, <2>0
  <2>2. ib[i + 1] = a[p] /\ ib[j + 1] = a[r]
    BY <1>3, <2>1
  <2> QED BY <2>1, <2>2 DEF Coming
<1>4. ASSUME NEW p \in f + 1 .. q PROVE \E i \in 1 .. Len(new) : new[i] = a[p]
  <2>1. PICK i \in 1 .. Len(ib) : ib[i] = a[p]
    BY DEF Coming
  <2>2. p \in 1 .. Len(a)
    BY DEF Whole
  <2>3. i # 1
    BY <2>1, <2>2 DEF Whole
  <2>4. i - 1 \in 1 .. Len(ib) - 1 /\ (i - 1) + 1 = i
    BY <1>1, <2>3
  <2>5. i - 1 \in 1 .. Len(new) /\ new[i - 1] = ib[i]
    BY <1>1, <2>4
  <2> QED BY <2>1, <2>5
<1> QED BY <1>2, <1>3, <1>4 DEF Coming, new

\* A message of somebody else arrives.
LEMMA ComingAside ==
  ASSUME NEW a, NEW id, Whole(a, id), NEW f \in Nat, NEW q \in Nat, q <= Len(a), NEW ib \in Seq(Msgs),
         NEW m \in Msgs, m.of # id, Coming(a, id, f, q, ib)
  PROVE  Coming(a, id, f, q, Append(ib, m))
<1> DEFINE new == Append(ib, m)
<1>1. /\ Len(ib) \in Nat /\ Len(new) = Len(ib) + 1 /\ new[Len(ib) + 1] = m
      /\ \A i \in 1 .. Len(ib) : new[i] = ib[i]
      /\ \A i \in 1 .. Len(ib) + 1 : i \in 1 .. Len(ib) \/ i = Len(ib) + 1
  BY AppendIs
<1> HIDE DEF new
<1>2. ASSUME NEW i \in 1 .. Len(new), NEW p \in 1 .. Len(a), new[i] = a[p] \/ new[i].of = id
      PROVE  i \in 1 .. Len(ib) /\ new[i] = ib[i]
  <2>1. a[p].of = id
    BY DEF Whole
  <2>2. i # Len(ib) + 1
    BY <1>1, <1>2, <2>1
  <2> QED BY <1>1, <2>2
<1>3. ASSUME NEW i \in 1 .. Len(new), new[i].of = id PROVE \E p \in f + 1 .. q : new[i] = a[p]
  <2>1. i # Len(ib) + 1
    BY <1>1, <1>3
  <2>2. i \in 1 .. Len(ib) /\ new[i] = ib[i]
    BY <1>1, <2>1
  <2> QED BY <1>3, <2>2 DEF Coming
<1>4. ASSUME NEW i \in 1 .. Len(new), NEW j \in 1 .. Len(new), NEW p \in 1 .. Len(a), NEW r \in 1 .. Len(a),
             i < j, new[i] = a[p], new[j] = a[r]
      PROVE  p < r
  <2>1. i \in 1 .. Len(ib) /\ new[i] = ib[i] /\ j \in 1 .. Len(ib) /\ new[j] = ib[j]
    BY <1>2, <1>4
  <2>2. ib[i] = a[p] /\ ib[j] = a[r]
    BY <1>4, <2>1
  <2> QED BY <1>4, <2>1, <2>2 DEF Coming
<1>5. ASSUME NEW p \in f + 1 .. q PROVE \E i \in 1 .. Len(new) : new[i] = a[p]
  <2>1. PICK i \in 1 .. Len(ib) : ib[i] = a[p]
    BY DEF Coming
  <2>2. i \in 1 .. Len(new) /\ new[i] = ib[i]
    BY <1>1
  <2> QED BY <2>1, <2>2
<1> QED BY <1>3, <1>4, <1>5 DEF Coming, new

\* The next message of the answer leaves the inbox, or arrives.
LEMMA ComingTake ==
  ASSUME NEW a, NEW id, Whole(a, id), NEW f \in Nat, NEW q \in Nat, q <= Len(a), NEW ib \in Seq(Msgs), ib # <<>>,
         ib[1].of = id, Coming(a, id, f, q, ib)
  PROVE  f < q /\ ib[1] = a[f + 1] /\ Coming(a, id, f + 1, q, Tail(ib))
<1> DEFINE new == Tail(ib)
<1>1. /\ new \in Seq(Msgs) /\ Len(ib) \in Nat /\ Len(ib) >= 1 /\ Len(new) = Len(ib) - 1 /\ 1 \in 1 .. Len(ib)
      /\ \A i \in 1 .. Len(ib) - 1 : new[i] = ib[i + 1] /\ i + 1 \in 1 .. Len(ib)
  BY TailIs
<1> HIDE DEF new
<1>0. Len(a) \in Nat /\ \A x \in f + 1 .. q : x \in 1 .. Len(a)
  BY DEF Whole
<1>2. PICK p \in f + 1 .. q : ib[1] = a[p]
  BY <1>1 DEF Coming
<1>3. f < q /\ f + 1 \in f + 1 .. q
  BY <1>2
<1>4. p = f + 1
  <2>1. PICK i \in 1 .. Len(ib) : ib[i] = a[f + 1]
    BY <1>3 DEF Coming
  <2>2. CASE i = 1
    BY <1>0, <1>2, <1>3, <2>1, <2>2 DEF Whole
  <2>3. CASE i # 1
    <3>1. 1 < i
      BY <1>1, <2>3
    <3>2. p < f + 1
      BY <1>0, <1>1, <1>2, <1>3, <2>1, <3>1 DEF Coming
    <3> QED BY <1>2, <3>2
  <2> QED BY <2>2, <2>3
<1>5. ASSUME NEW i \in 1 .. Len(new), new[i].of = id PROVE \E x \in f + 1 + 1 .. q : new[i] = a[x]
  <2>1. new[i] = ib[i + 1] /\ i + 1 \in 1 .. Len(ib) /\ 1 < i + 1
    BY <1>1
  <2>2. PICK x \in f + 1 .. q : ib[i + 1] = a[x]
    BY <1>5, <2>1 DEF Coming
  <2>3. p < x
    BY <1>0, <1>1, <1>2, <2>1, <2>2 DEF Coming
  <2>4. x \in f + 1 + 1 .. q
    BY <1>4, <2>3
  <2> QED BY <2>1, <2>2, <2>4
<1>6. ASSUME NEW i \in 1 .. Len(new), NEW j \in 1 .. Len(new), NEW x \in 1 .. Len(a), NEW r \in 1 .. Len(a),
             i < j, new[i] = a[x], new[j] = a[r]
      PROVE  x < r
  <2>0. i \in 1 .. Len(ib) - 1 /\ j \in 1 .. Len(ib) - 1 /\ i + 1 < j + 1
    BY <1>1, <1>6
  <2>1. new[i] = ib[i + 1] /\ i + 1 \in 1 .. Len(ib) /\ new[j] = ib[j + 1] /\ j + 1 \in 1 .. Len(ib) /\ i + 1 < j + 1
    BY <1>1, <2>0
  <2>2. ib[i + 1] = a[x] /\ ib[j + 1] = a[r]
    BY <1>6, <2>1
  <2> QED BY <2>1, <2>2 DEF Coming
<1>7. ASSUME NEW x \in f + 1 + 1 .. q PROVE \E i \in 1 .. Len(new) : new[i] = a[x]
  <2>0. x \in f + 1 .. q /\ x # f + 1
    OBVIOUS
  <2>1. PICK i \in 1 .. Len(ib) : ib[i] = a[x]
    BY <2>0 DEF Coming
  <2>2. i # 1
    BY <1>0, <1>2, <1>4, <2>0, <2>1 DEF Whole
  <2>3. i - 1 \in 1 .. Len(ib) - 1 /\ (i - 1) + 1 = i
    BY <1>1, <2>2
  <2>4. i - 1 \in 1 .. Len(new) /\ new[i - 1] = ib[i]
    BY <1>1, <2>3
  <2> QED BY <2>1, <2>4
<1>8. Coming(a, id, f + 1, q, new)
  BY <1>5, <1>6, <1>7 DEF Coming
<1> QED BY <1>2, <1>3, <1>4, <1>8 DEF new

\* The next message of the answer arrives.
LEMMA ComingMore ==
  ASSUME NEW a, NEW id, Whole(a, id), NEW f \in Nat, NEW q \in Nat, f <= q, q < Len(a), NEW ib \in Seq(Msgs),
         Coming(a, id, f, q, ib)
  PROVE  Coming(a, id, f, q + 1, Append(ib, a[q + 1]))
<1> DEFINE m == a[q + 1]
           new == Append(ib, m)
<1>0. Len(a) \in Nat /\ q + 1 \in 1 .. Len(a) /\ m \in Msgs /\ m.of = id
  BY DEF Whole
<1>1. /\ Len(ib) \in Nat /\ Len(new) = Len(ib) + 1 /\ new[Len(ib) + 1] = m
      /\ \A i \in 1 .. Len(ib) : new[i] = ib[i]
      /\ \A i \in 1 .. Len(ib) + 1 : i \in 1 .. Len(ib) \/ i = Len(ib) + 1
  BY <1>0, AppendIs
<1> HIDE DEF new
<1>3. ASSUME NEW i \in 1 .. Len(new), new[i].of = id PROVE \E p \in f + 1 .. q + 1 : new[i] = a[p]
  <2>1. CASE i \in 1 .. Len(ib)
    <3>1. PICK p \in f + 1 .. q : ib[i] = a[p]
      BY <1>1, <1>3, <2>1 DEF Coming
    <3> QED BY <1>1, <2>1, <3>1
  <2>2. CASE i = Len(ib) + 1
    <3>1. q + 1 \in f + 1 .. q + 1 /\ new[i] = a[q + 1]
      BY <1>1, <2>2
    <3> QED BY <3>1
  <2> QED BY <1>1, <2>1, <2>2
<1>4. ASSUME NEW i \in 1 .. Len(new), NEW j \in 1 .. Len(new), NEW p \in 1 .. Len(a), NEW r \in 1 .. Len(a),
             i < j, new[i] = a[p], new[j] = a[r]
      PROVE  p < r
  <2>0. i \in 1 .. Len(ib) /\ new[i] = ib[i]
    BY <1>1, <1>4
  <2>1. CASE j \in 1 .. Len(ib)
    BY <1>1, <1>4, <2>0, <2>1 DEF Coming
  <2>2. CASE j = Len(ib) + 1
    <3>1. r = q + 1
      BY <1>0, <1>1, <1>4, <2>2 DEF Whole
    <3>2. ib[i].of = id
      BY <1>4, <2>0 DEF Whole
    <3>3. PICK x \in f + 1 .. q : ib[i] = a[x]
      BY <2>0, <3>2 DEF Coming
    <3>4. x \in 1 .. Len(a)
      BY <1>0
    <3>5. x = p
      BY <1>4, <2>0, <3>3, <3>4 DEF Whole
    <3> QED BY <3>1, <3>3, <3>5
  <2> QED BY <1>1, <2>1, <2>2
<1>5. ASSUME NEW p \in f + 1 .. q + 1 PROVE \E i \in 1 .. Len(new) : new[i] = a[p]
  <2>1. CASE p = q + 1
    <3>1. Len(ib) + 1 \in 1 .. Len(new)
      BY <1>1
    <3> QED BY <1>1, <2>1, <3>1
  <2>2. CASE p # q + 1
    <3>0. p \in f + 1 .. q
      BY <2>2
    <3>1. PICK i \in 1 .. Len(ib) : ib[i] = a[p]
      BY <3>0 DEF Coming
    <3>2. i \in 1 .. Len(new) /\ new[i] = ib[i]
      BY <1>1
    <3> QED BY <3>1, <3>2
  <2> QED BY <2>1, <2>2
<1> QED BY <1>3, <1>4, <1>5 DEF Coming, new

\* Nothing has come yet.
LEMMA ComingNone ==
  ASSUME NEW a, NEW id, Whole(a, id), NEW ib \in Seq(Msgs), \A i \in 1 .. Len(ib) : ib[i].of # id
  PROVE  Coming(a, id, 0, 0, ib)
<1>1. ASSUME NEW i \in 1 .. Len(ib), NEW p \in 1 .. Len(a) PROVE ib[i] # a[p]
  BY DEF Whole
<1> QED BY <1>1 DEF Coming

\* The channel: messages of the answer, and maybe a last word.
LEMMA OwnLenIs ==
  ASSUME NEW ch \in Seq(Msgs)
  PROVE  /\ OwnLen(ch) \in Nat /\ Len(ch) \in Nat /\ OwnLen(ch) <= Len(ch)
         /\ OwnLen(ch) = Len(ch) \/ (Len(ch) >= 1 /\ OwnLen(ch) = Len(ch) - 1 /\ Fatal(ch[Len(ch)]))
         /\ (\A i \in 1 .. Len(ch) : ~Fatal(ch[i])) => OwnLen(ch) = Len(ch)
         /\ OwnLen(ch) = Len(ch) => ch = <<>> \/ ~Fatal(ch[Len(ch)])
<1>1. Len(ch) \in Nat /\ (ch # <<>> => Len(ch) >= 1 /\ Len(ch) \in 1 .. Len(ch))
  OBVIOUS
<1>2. CASE ch # <<>> /\ Fatal(ch[Len(ch)])
  <2>1. OwnLen(ch) = Len(ch) - 1
    BY <1>2 DEF OwnLen
  <2>2. Len(ch) >= 1 /\ Len(ch) \in 1 .. Len(ch)
    BY <1>1, <1>2
  <2> QED BY <1>1, <1>2, <2>1, <2>2
<1>3. CASE ~(ch # <<>> /\ Fatal(ch[Len(ch)]))
  <2>1. OwnLen(ch) = Len(ch)
    BY <1>3 DEF OwnLen
  <2> QED BY <1>1, <1>3, <2>1
<1> QED BY <1>2, <1>3

LEMMA NoChan == OwnLen(<<>>) = 0
BY DEF OwnLen

\* What a push and a pop do to the messages of the channel that count.
LEMMA OwnAppend ==
  ASSUME NEW ch \in Seq(Msgs), NEW m \in Msgs
  PROVE  OwnLen(Append(ch, m)) = IF Fatal(m) THEN Len(ch) ELSE Len(ch) + 1
<1> DEFINE new == Append(ch, m)
<1>1. Len(ch) \in Nat /\ Len(new) = Len(ch) + 1 /\ new[Len(ch) + 1] = m /\ new \in Seq(Msgs)
  BY AppendIs
<1> HIDE DEF new
<1>2. new # <<>>
  BY <1>1
<1>3. OwnLen(new) = IF Fatal(m) THEN Len(new) - 1 ELSE Len(new)
  BY <1>1, <1>2 DEF OwnLen
<1> QED BY <1>1, <1>3 DEF new

LEMMA OwnTail ==
  ASSUME NEW ch \in Seq(Msgs), OwnLen(ch) >= 1
  PROVE  ch # <<>> /\ OwnLen(Tail(ch)) = OwnLen(ch) - 1
<1> DEFINE new == Tail(ch)
           n == Len(ch)
<1>0. OwnLen(ch) \in Nat /\ n \in Nat /\ n >= 1
  BY OwnLenIs
<1>1. ch # <<>>
  BY <1>0
<1>2. /\ new \in Seq(Msgs) /\ Len(new) = n - 1
      /\ \A i \in 1 .. n - 1 : new[i] = ch[i + 1]
  BY <1>1, TailIs
<1> HIDE DEF new, n
<1>3. CASE n = 1
  <2>1. OwnLen(ch) = 1
    BY <1>0, <1>3, OwnLenIs DEF n
  <2>2. new = <<>>
    BY <1>2, <1>3
  <2>3. OwnLen(new) = 0
    BY <2>2, NoChan
  <2>4. OwnLen(new) = OwnLen(ch) - 1
    BY <2>1, <2>3
  <2> QED BY <1>1, <2>4 DEF new
<1>4. CASE n > 1
  <2>1. new # <<>> /\ Len(new) \in 1 .. n - 1 /\ Len(new) + 1 = n
    BY <1>0, <1>2, <1>4
  <2>2. new[Len(new)] = ch[Len(new) + 1]
    BY <1>2, <2>1
  <2>3. new[Len(new)] = ch[n]
    BY <2>1, <2>2
  <2>4. OwnLen(new) = IF Fatal(new[Len(new)]) THEN Len(new) - 1 ELSE Len(new)
    BY <2>1 DEF OwnLen
  <2>5. OwnLen(ch) = IF Fatal(ch[n]) THEN n - 1 ELSE n
    BY <1>1 DEF OwnLen, n
  <2>6. OwnLen(new) = OwnLen(ch) - 1
    <3>1. CASE Fatal(ch[n])
      <4>1. OwnLen(new) = Len(new) - 1 /\ OwnLen(ch) = n - 1
        BY <2>3, <2>4, <2>5, <3>1
      <4> QED BY <1>0, <1>2, <4>1
    <3>2. CASE ~Fatal(ch[n])
      <4>1. OwnLen(new) = Len(new) /\ OwnLen(ch) = n
        BY <2>3, <2>4, <2>5, <3>2
      <4> QED BY <1>0, <1>2, <4>1
    <3> QED BY <3>1, <3>2
  <2> QED BY <1>1, <2>6 DEF new
<1> QED BY <1>0, <1>3, <1>4

\* The rest of the answer, as messages pass, arrive, are routed and are read.
LEMMA RestPass ==
  ASSUME NEW a, NEW id, Whole(a, id), NEW k \in Nat, NEW q \in Nat, NEW ch \in Seq(Msgs), NEW ib \in Seq(Msgs),
         ib # <<>>, ib[1].of # id, Rest(a, id, k, q, ch, ib)
  PROVE  Rest(a, id, k, q, ch, Tail(ib))
<1> DEFINE f == k + OwnLen(ch)
<1>1. f \in Nat
  BY OwnLenIs
<1>2. q <= Len(a) /\ Coming(a, id, f, q, ib)
  BY DEF Rest
<1> HIDE DEF f
<1>3. Coming(a, id, f, q, Tail(ib))
  BY <1>1, <1>2, ComingPass
<1> QED BY <1>3 DEF Rest, f

LEMMA RestAside ==
  ASSUME NEW a, NEW id, Whole(a, id), NEW k \in Nat, NEW q \in Nat, NEW ch \in Seq(Msgs), NEW ib \in Seq(Msgs),
         NEW m \in Msgs, m.of # id, Rest(a, id, k, q, ch, ib)
  PROVE  Rest(a, id, k, q, ch, Append(ib, m))
<1> DEFINE f == k + OwnLen(ch)
<1>1. f \in Nat
  BY OwnLenIs
<1>2. q <= Len(a) /\ Coming(a, id, f, q, ib)
  BY DEF Rest
<1> HIDE DEF f
<1>3. Coming(a, id, f, q, Append(ib, m))
  BY <1>1, <1>2, ComingAside
<1> QED BY <1>3 DEF Rest, f

LEMMA RestMore ==
  ASSUME NEW a, NEW id, Whole(a, id), NEW k \in Nat, NEW q \in Nat, NEW ch \in Seq(Msgs), NEW ib \in Seq(Msgs),
         q < Len(a), Rest(a, id, k, q, ch, ib)
  PROVE  Rest(a, id, k, q + 1, ch, Append(ib, a[q + 1]))
<1> DEFINE f == k + OwnLen(ch)
<1>1. f \in Nat /\ Len(a) \in Nat
  BY OwnLenIs DEF Whole
<1>2. f <= q /\ Coming(a, id, f, q, ib)
  BY DEF Rest
<1> HIDE DEF f
<1>3. Coming(a, id, f, q + 1, Append(ib, a[q + 1]))
  BY <1>1, <1>2, ComingMore
<1>4. f <= q + 1 /\ q + 1 <= Len(a)
  BY <1>1, <1>2
<1> QED BY <1>3, <1>4 DEF Rest, f

\* A message is routed to the channel.
LEMMA RestRoute ==
  ASSUME NEW a, NEW id, Whole(a, id), NEW k \in Nat, NEW q \in Nat, NEW ch \in Seq(Msgs), NEW ib \in Seq(Msgs),
         ib # <<>>, ib[1].of = id, OwnLen(ch) = Len(ch), Rest(a, id, k, q, ch, ib)
  PROVE  Rest(a, id, k, q, Append(ch, ib[1]), Tail(ib))
<1> DEFINE n == Len(ch)
           m == ib[1]
           new == Append(ch, m)
           f == k + n
<1>1. /\ n \in Nat /\ m \in Msgs /\ f \in Nat /\ q <= Len(a) /\ Coming(a, id, f, q, ib)
      /\ \A i \in 1 .. n : ch[i] = a[k + i]
  BY TailIs DEF Rest
<1>2. f < q /\ m = a[f + 1] /\ Coming(a, id, f + 1, q, Tail(ib))
  BY <1>1, ComingTake
<1>3. ~Fatal(m)
  BY DEF Fatal, Whole
<1>4. /\ new[n + 1] = m /\ \A i \in 1 .. n : new[i] = ch[i]
  BY <1>1, AppendIs
<1>5. OwnLen(new) = n + 1
  BY <1>1, <1>3, OwnAppend
<1> HIDE DEF new, m, n
<1>6. ASSUME NEW i \in 1 .. n + 1 PROVE new[i] = a[k + i]
  <2>1. CASE i \in 1 .. n
    BY <1>1, <1>4, <2>1
  <2>2. CASE i = n + 1
    <3>1. k + i = f + 1
      BY <1>1, <2>2
    <3> QED BY <1>2, <1>4, <2>2, <3>1
  <2> QED BY <1>1, <2>1, <2>2
<1>7. k + (n + 1) = f + 1 /\ f + 1 <= q
  BY <1>1, <1>2
<1>8. Rest(a, id, k, q, new, Tail(ib))
  BY <1>1, <1>2, <1>5, <1>6, <1>7 DEF Rest
<1> QED BY <1>8 DEF new, m

LEMMA RestFatal ==
  ASSUME NEW a, NEW id, Whole(a, id), NEW k \in Nat, NEW q \in Nat, NEW ch \in Seq(Msgs), NEW ib \in Seq(Msgs),
         ib # <<>>, Fatal(ib[1]), OwnLen(ch) = Len(ch), Rest(a, id, k, q, ch, ib)
  PROVE  Rest(a, id, k, q, Append(ch, ib[1]), Tail(ib))
<1> DEFINE n == Len(ch)
           m == ib[1]
           new == Append(ch, m)
<1>1. m.of # id
  BY DEF Fatal, Whole
<1>2. Rest(a, id, k, q, ch, Tail(ib))
  BY <1>1, RestPass
<1>3. n \in Nat /\ m \in Msgs /\ \A i \in 1 .. n : new[i] = ch[i]
  BY TailIs, AppendIs
<1>4. OwnLen(new) = OwnLen(ch)
  BY <1>3, OwnAppend
<1> HIDE DEF new, m
<1>5. \A i \in 1 .. OwnLen(ch) : new[i] = ch[i]
  BY <1>3
<1>6. Rest(a, id, k, q, new, Tail(ib))
  BY <1>2, <1>4, <1>5 DEF Rest
<1> QED BY <1>6 DEF new, m

\* The future reads the channel.
LEMMA RestRead ==
  ASSUME NEW a, NEW id, NEW k \in Nat, NEW q \in Nat, NEW ch \in Seq(Msgs), NEW ib,
         OwnLen(ch) >= 1, Rest(a, id, k, q, ch, ib)
  PROVE  ch # <<>> /\ ch[1] = a[k + 1] /\ Rest(a, id, k + 1, q, Tail(ch), ib)
<1> DEFINE n == OwnLen(ch)
           new == Tail(ch)
<1>1. n \in Nat /\ n >= 1 /\ n <= Len(ch) /\ Len(ch) \in Nat
  BY OwnLenIs
<1>2. ch # <<>> /\ OwnLen(new) = n - 1
  BY OwnTail
<1>3. \A i \in 1 .. Len(ch) - 1 : new[i] = ch[i + 1]
  BY <1>2, TailIs
<1>4. k + n <= q /\ q <= Len(a) /\ (\A i \in 1 .. n : ch[i] = a[k + i]) /\ Coming(a, id, k + n, q, ib)
  BY DEF Rest
<1> HIDE DEF n, new
<1>5. ASSUME NEW i \in 1 .. n - 1 PROVE new[i] = a[(k + 1) + i]
  <2>1. i \in 1 .. Len(ch) - 1 /\ i + 1 \in 1 .. n /\ k + (i + 1) = (k + 1) + i
    BY <1>1
  <2>2. new[i] = ch[i + 1] /\ ch[i + 1] = a[k + (i + 1)]
    BY <1>3, <1>4, <2>1
  <2> QED BY <2>1, <2>2
<1>6. (k + 1) + (n - 1) = k + n
  BY <1>1
<1>7. Rest(a, id, k + 1, q, new, ib)
  BY <1>2, <1>4, <1>5, <1>6 DEF Rest
<1>8. ch[1] = a[k + 1]
  BY <1>1, <1>4
<1> QED BY <1>2, <1>7, <1>8 DEF new

LEMMA RestEmpty ==
  ASSUME NEW a, NEW id, NEW k \in Nat, NEW q, NEW ch, OwnLen(ch) = 0, NEW ib, Rest(a, id, k, q, ch, ib)
  PROVE  Rest(a, id, k, q, <<>>, ib)
BY NoChan DEF Rest

-----------------------------------------------------------------------------
(***************************************************************************)
(* The future reads its answer.                                            *)
(***************************************************************************)

\* What the documentation of the call cl promises.
Due(cl, call, id, pl, given) == IF cl = "next" THEN PromisedItem(call, id, pl, given) ELSE Promised(call, id, pl)

\* The future r of the call cl has read k messages: it waits, or has its outcome.
Outcome(cl, r, given, id, pl, k) ==
  \/ r.res = Pending /\ ReadTo(cl, r, given, id, pl, k)
  \/ /\ r.res # Pending /\ r.res = Due(cl, r.call, id, pl, given)
     /\ r.call \in Streams /\ r.res.is = "ok" => ReadTo(cl, r, given, id, pl, k)

\* An outcome is never the mark of a pending future.
LEMMA DueIs ==
  ASSUME NEW cl, NEW call, NEW id, NEW pl, NEW given
  PROVE  Due(cl, call, id, pl, given).is \in {"ok", "err", "none"} /\ Pending.is = "pending"
<1>1. Promised(call, id, pl).is \in {"ok", "err"}
  BY DEF Promised, Result, Streams, Control
<1>2. PromisedItem(call, id, pl, given).is \in {"ok", "err", "none"}
  BY DEF PromisedItem, Result
<1> QED BY <1>1, <1>2 DEF Due, Pending, Result

LEMMA WaitingIs ==
  ASSUME NEW cl, NEW r \in Readers, NEW given, NEW id, NEW pl, NEW k, ReadTo(cl, r, given, id, pl, k)
  PROVE  /\ r.res = Pending => r = ReaderAt(r.call, id, pl, k)
         /\ Waits(r.call, pl, k) /\ k \in Nat
<1>1. r.res = Pending => r = [r EXCEPT !.res = Pending]
  BY DEF Readers
<1> QED BY <1>1 DEF ReadTo, Waits

\* One message read: the future waits for the next, or its outcome is due.
LEMMA ReadOne ==
  ASSUME NEW cl, NEW r \in Readers, r.call \in Requests, cl # "idle", cl = "next" => r.call \in Streams, NEW id \in Nat,
         NEW pl \in Plans(r.call), NEW given, r.res = Pending, NEW k, ReadTo(cl, r, given, id, pl, k),
         NEW a, Placed(a, r.call, id, pl)
  PROVE  /\ k \in Nat /\ k < Len(a) /\ a[k + 1] \in Msgs
         /\ Outcome(cl, poll(r, a[k + 1]), given, id, pl, k + 1)
<1> DEFINE call == r.call
           m == a[k + 1]
           s == ReaderAt(call, id, pl, k + 1)
           p == poll(r, m)
<1>1. r = ReaderAt(call, id, pl, k) /\ Waits(call, pl, k) /\ k \in Nat
  BY WaitingIs
<1>2. k < Len(a) /\ m \in Msgs /\ Reads(call, id, pl, k, m)
  BY <1>1, ReadStep
<1>3. p \in Readers /\ p.call = call
  BY <1>2, PollType
<1>4. call \in Calls /\ Pre(call) \in Nat /\ pl.n \in Nat /\ k + 1 \in Nat
  <2>1. call \in Calls
    BY CallTypes
  <2> QED BY <1>1, <2>1, PreIs, PlanIs
<1>5. /\ k <= Pre(call) => RowsIn(call, pl, k) = 0
      /\ k + 1 <= Pre(call) => RowsIn(call, pl, k + 1) = 0
      /\ k >= Pre(call) /\ k <= Pre(call) + pl.n => RowsIn(call, pl, k) = k - Pre(call)
      /\ k + 1 >= Pre(call) /\ k + 1 <= Pre(call) + pl.n => RowsIn(call, pl, k + 1) = (k + 1) - Pre(call)
      /\ k >= Pre(call) + pl.n => RowsIn(call, pl, k) = pl.n
      /\ k + 1 >= Pre(call) + pl.n => RowsIn(call, pl, k + 1) = pl.n
  BY <1>1, <1>4, RowsInIs
<1>6. Given(cl, r, given, id, pl, k)
  BY DEF ReadTo
<1>7. /\ cl # "next" /\ call \in Streams => k < Pre(call)
      /\ cl = "next" => k >= Pre(call)
      /\ call \in Streams => given = RowsIn(call, pl, k) - 0
  BY <1>6 DEF Given
<1>8. s.call = call /\ s.res = Pending
      /\ \A x : [[s EXCEPT !.res = x] EXCEPT !.res = Pending] = s /\ [s EXCEPT !.res = x].res = x
  <2>1. s = Rd(call, LoopAt(call, k + 1), ItemsAt(call, id, pl, k + 1), TagAt(call, pl, k + 1))
    BY ReaderRd
  <2> HIDE DEF s
  <2>2. s.call = call /\ s.res = Pending
    BY <2>1 DEF Rd
  <2>3. ASSUME NEW x PROVE [[s EXCEPT !.res = x] EXCEPT !.res = Pending] = s /\ [s EXCEPT !.res = x].res = x
    <3> DEFINE pc == LoopAt(call, k + 1)
               items == ItemsAt(call, id, pl, k + 1)
               n == TagAt(call, pl, k + 1)
               t == [call |-> call, pc |-> pc, items |-> items, n |-> n, res |-> x]
    <3>1. s = [call |-> call, pc |-> pc, items |-> items, n |-> n, res |-> Pending]
      BY <2>1 DEF Rd
    <3> HIDE DEF pc, items, n
    <3>2. [s EXCEPT !.res = x] = t
      BY <3>1
    <3>3. t.res = x /\ [t EXCEPT !.res = Pending] = s
      BY <3>1
    <3> HIDE DEF t
    <3> QED BY <3>2, <3>3
  <2> QED BY <2>2, <2>3
<1>n. /\ \A x : x.is # "pending" => x # Pending
      /\ Result("ok", <<>>, 0, "").is = "ok" /\ Result("err", <<>>, 0, "db").is = "err"
  <2>1. Pending.is = "pending"
    BY DueIs
  <2>2. Result("ok", <<>>, 0, "").is = "ok" /\ Result("err", <<>>, 0, "db").is = "err"
    BY DEF Result
  <2> QED BY <2>1, <2>2
<1>i. RowsIn(call, pl, k) \in Nat /\ RowsIn(call, pl, k + 1) \in Nat
  BY <1>1, <1>4, RowsInIs
<1> HIDE DEF p, m, s
<1>9. CASE p = s /\ Waits(call, pl, k + 1) /\ (call \in Streams => k + 1 < Pre(call) \/ k >= Pre(call) + pl.n)
  <2>1. p.res = Pending /\ [p EXCEPT !.res = Pending] = s
    BY <1>3, <1>8, <1>9 DEF Readers
  <2>2. call \in Streams => given = RowsIn(call, pl, k + 1) - 0
    BY <1>1, <1>4, <1>5, <1>7, <1>9
  <2>3. cl # "next" /\ call \in Streams => k + 1 < Pre(call)
    BY <1>1, <1>4, <1>7, <1>9
  <2>4. cl = "next" => k + 1 >= Pre(call)
    BY <1>1, <1>4, <1>7
  <2>5. Given(cl, p, given, id, pl, k + 1)
    BY <1>3, <2>1, <2>2, <2>3, <2>4 DEF Given
  <2>6. ReadTo(cl, p, given, id, pl, k + 1)
    BY <1>3, <1>9, <2>1, <2>5 DEF ReadTo, s
  <2> QED BY <1>1, <1>2, <2>1, <2>6 DEF Outcome, p, m
<1>10. CASE call \notin Streams /\ p.res = Promised(call, id, pl)
  <2>1. p.res = Due(cl, call, id, pl, given)
    BY <1>10 DEF Due
  <2>2. p.res # Pending
    BY <2>1, DueIs
  <2>3. Outcome(cl, p, given, id, pl, k + 1)
    BY <1>3, <1>10, <2>1, <2>2 DEF Outcome
  <2> QED BY <1>1, <1>2, <2>3 DEF p, m
<1>11. CASE /\ call \in Streams /\ k + 1 = Pre(call) /\ Promised(call, id, pl) = Result("ok", <<>>, 0, "")
            /\ p = [s EXCEPT !.res = Result("ok", <<>>, 0, "")] /\ Waits(call, pl, k + 1)
  <2>0. k < Pre(call) /\ k <= Pre(call) /\ k + 1 <= Pre(call)
    <3> DEFINE pre == Pre(call)
    <3>1. k \in Nat /\ pre \in Nat /\ k + 1 = pre
      BY <1>1, <1>4, <1>11
    <3> HIDE DEF pre
    <3>2. k < pre /\ k <= pre /\ k + 1 <= pre
      BY <3>1
    <3> QED BY <3>2 DEF pre
  <2>3. cl # "next"
    BY <1>1, <1>4, <1>7, <2>0
  <2>1. cl # "next" /\ given = RowsIn(call, pl, k + 1) - 0
    BY <1>5, <1>7, <1>11, <2>0, <2>3
  <2>2. p.res = Result("ok", <<>>, 0, "") /\ [p EXCEPT !.res = Pending] = s
    BY <1>8, <1>11
  <2>8. p.res # Pending
    BY <1>n, <2>2
  <2>4. Given(cl, p, given, id, pl, k + 1)
    BY <1>3, <1>11, <2>1, <2>2, <2>8 DEF Given
  <2>5. ReadTo(cl, p, given, id, pl, k + 1)
    BY <1>3, <1>11, <2>2, <2>4 DEF ReadTo, s
  <2>6. p.res = Due(cl, call, id, pl, given)
    BY <1>11, <2>1, <2>2 DEF Due
  <2>7. Outcome(cl, p, given, id, pl, k + 1)
    BY <1>3, <2>5, <2>6, <2>8 DEF Outcome
  <2> QED BY <1>1, <1>2, <2>7 DEF p, m
<1>12. CASE k < Pre(call) /\ Promised(call, id, pl) = Result("err", <<>>, 0, "db") /\ p.res = Result("err", <<>>, 0, "db")
  <2>1. cl # "next"
    BY <1>1, <1>4, <1>7, <1>12
  <2>2. p.res = Due(cl, call, id, pl, given) /\ p.res # Pending /\ p.res.is # "ok"
    BY <1>n, <1>12, <2>1 DEF Due
  <2>3. Outcome(cl, p, given, id, pl, k + 1)
    BY <1>3, <2>2 DEF Outcome
  <2> QED BY <1>1, <1>2, <2>3 DEF p, m
<1>13. CASE /\ call \in Streams /\ k >= Pre(call) /\ k < Pre(call) + pl.n
            /\ p = [s EXCEPT !.res = PromisedItem(call, id, pl, RowsIn(call, pl, k))] /\ Waits(call, pl, k + 1)
  <2>1. cl = "next" /\ given = RowsIn(call, pl, k)
    BY <1>1, <1>4, <1>7, <1>13, <1>i
  <2>2. p.res = PromisedItem(call, id, pl, given) /\ [p EXCEPT !.res = Pending] = s
    BY <1>8, <1>13, <2>1
  <2>3. p.res = Due(cl, call, id, pl, given)
    BY <2>1, <2>2 DEF Due
  <2>4. p.res # Pending
    BY <2>3, DueIs
  <2>5. k + 1 > Pre(call) /\ k + 1 <= Pre(call) + pl.n /\ k + 1 >= Pre(call)
    BY <1>1, <1>4, <1>13
  <2>6. given = RowsIn(call, pl, k + 1) - 1
    <3>1. RowsIn(call, pl, k + 1) = (k + 1) - Pre(call) /\ RowsIn(call, pl, k) = k - Pre(call)
      BY <1>1, <1>4, <1>5, <1>13, <2>5
    <3> QED BY <1>1, <1>4, <2>1, <3>1
  <2>7. Given(cl, p, given, id, pl, k + 1)
    BY <1>3, <2>1, <2>2, <2>4, <2>5, <2>6 DEF Given
  <2>8. ReadTo(cl, p, given, id, pl, k + 1)
    BY <1>3, <1>13, <2>2, <2>7 DEF ReadTo, s
  <2>9. Outcome(cl, p, given, id, pl, k + 1)
    BY <1>3, <2>3, <2>4, <2>8 DEF Outcome
  <2> QED BY <1>1, <1>2, <2>9 DEF p, m
<1>14. CASE /\ call \in Streams /\ k >= Pre(call) + pl.n
            /\ PromisedItem(call, id, pl, RowsIn(call, pl, k)).is # "ok"
            /\ p.res = PromisedItem(call, id, pl, RowsIn(call, pl, k))
  <2>1. cl = "next" /\ given = RowsIn(call, pl, k)
    BY <1>1, <1>4, <1>7, <1>14, <1>i
  <2>2. p.res = Due(cl, call, id, pl, given) /\ p.res.is # "ok"
    BY <1>14, <2>1 DEF Due
  <2>3. p.res # Pending
    BY <2>2, DueIs
  <2>4. Outcome(cl, p, given, id, pl, k + 1)
    BY <1>3, <2>2, <2>3 DEF Outcome
  <2> QED BY <1>1, <1>2, <2>4 DEF p, m
<1>15. /\ Next1(call, id, pl, k, m) => p = s /\ Waits(call, pl, k + 1) /\ (call \in Streams => k + 1 < Pre(call) \/ k >= Pre(call) + pl.n)
       /\ Done1(call, id, pl, k, m) => call \notin Streams /\ p.res = Promised(call, id, pl)
       /\ Handed1(call, id, pl, k, m) =>
            /\ call \in Streams /\ k + 1 = Pre(call) /\ Promised(call, id, pl) = Result("ok", <<>>, 0, "")
            /\ p = [s EXCEPT !.res = Result("ok", <<>>, 0, "")] /\ Waits(call, pl, k + 1)
  BY <1>1 DEF Next1, Done1, Handed1, p, s
<1>16. /\ Failed1(call, id, pl, k, m) =>
            k < Pre(call) /\ Promised(call, id, pl) = Result("err", <<>>, 0, "db") /\ p.res = Result("err", <<>>, 0, "db")
       /\ Given1(call, id, pl, k, m) =>
            /\ call \in Streams /\ k >= Pre(call) /\ k < Pre(call) + pl.n
            /\ p = [s EXCEPT !.res = PromisedItem(call, id, pl, RowsIn(call, pl, k))] /\ Waits(call, pl, k + 1)
       /\ Over1(call, id, pl, k, m) =>
            /\ call \in Streams /\ k >= Pre(call) + pl.n
            /\ PromisedItem(call, id, pl, RowsIn(call, pl, k)).is # "ok"
            /\ p.res = PromisedItem(call, id, pl, RowsIn(call, pl, k))
  BY <1>1 DEF Failed1, Given1, Over1, p, s
<1> QED BY <1>2, <1>9, <1>10, <1>11, <1>12, <1>13, <1>14, <1>15, <1>16 DEF Reads

\* The session is over, and so is the call.
Down(up, r) == up # "up" /\ r.res \in {Result("err", <<>>, 0, why) : why \in {"closed", "db"}}

\* The sender of the answer a is still there if some of it is to come.
Stays(a, id, q, c, ib, up) ==
  up = "up" => \A k \in Nat : Rest(a, id, k, q, <<>>, ib) /\ k < Len(a) => ~Closes(c, id)

\* The call cl whose future is now r, with chan left in the channel.
ReadUp(cl, r, chan, given, id, pl, a, q, ib) ==
  \E k \in Nat : /\ Outcome(cl, r, given, id, pl, k) /\ Rest(a, id, k, q, chan, ib)
                 /\ r.res = Pending => chan = <<>>

\* The outcomes of a session that has ended.
LEMMA DownIs ==
  ASSUME NEW r \in Readers
  PROVE  /\ Err(r, "db").res # Pending /\ Err(r, "closed").res # Pending
         /\ \A up : up # "up" => Down(up, Err(r, "db")) /\ Down(up, Err(r, "closed"))
         /\ \A m : Fatal(m) /\ r.res = Pending => poll(r, m) = Err(r, "db")
<1>1. Err(r, "db").res = Result("err", <<>>, 0, "db") /\ Err(r, "closed").res = Result("err", <<>>, 0, "closed")
  BY DEF Err, Readers
<1>2. Result("err", <<>>, 0, "db").is = "err" /\ Result("err", <<>>, 0, "closed").is = "err" /\ Pending.is = "pending"
  BY DEF Result, Pending
<1>3. \A m : Fatal(m) /\ r.res = Pending => poll(r, m) = Err(r, "db")
  BY DEF Fatal, poll
<1>4. Err(r, "db").res # Pending /\ Err(r, "closed").res # Pending
  BY <1>1, <1>2
<1>5. \A up : up # "up" => Down(up, Err(r, "db")) /\ Down(up, Err(r, "closed"))
  BY <1>1 DEF Down
<1> QED BY <1>3, <1>4, <1>5

\* A future whose channel has closed early.
LEMMA EndedOutcome ==
  ASSUME NEW cl, NEW r \in Readers, r.call \in Requests, NEW id \in Nat, NEW pl \in Plans(r.call), NEW given,
         NEW k \in Nat, Outcome(cl, r, given, id, pl, k), NEW a, Placed(a, r.call, id, pl), NEW q, NEW ib,
         Rest(a, id, k, q, <<>>, ib), NEW c, NEW up, Stays(a, id, q, c, ib, up)
  PROVE  ReadUp(cl, Ended(r, c, id), <<>>, given, id, pl, a, q, ib) \/ Down(up, Ended(r, c, id))
<1>1. CASE r.res = Pending /\ Closes(c, id)
  <2>1. Ended(r, c, id) = Err(r, "closed")
    BY <1>1 DEF Ended
  <2>2. ReadTo(cl, r, given, id, pl, k)
    BY <1>1 DEF Outcome
  <2>3. Waits(r.call, pl, k)
    BY <2>2, WaitingIs
  <2>4. k < Len(a)
    BY <2>3, ReadStep
  <2>5. up # "up"
    BY <1>1, <2>4 DEF Stays
  <2> QED BY <2>1, <2>5, DownIs
<1>2. CASE ~(r.res = Pending /\ Closes(c, id))
  <2>1. Ended(r, c, id) = r
    BY <1>2 DEF Ended
  <2>2. ReadUp(cl, r, <<>>, given, id, pl, a, q, ib)
    BY DEF ReadUp
  <2> QED BY <2>1, <2>2
<1> QED BY <1>1, <1>2

LEMMA ShortSeq ==
  ASSUME NEW S, NEW s \in Seq(S)
  PROVE  (Len(s) = 0 => s = <<>>) /\ (Len(s) = 1 => s = <<s[1]>>) /\ \A x : Tail(<<x>>) = <<>>
OBVIOUS

\* The future reads the slots of its channel.
LEMMA PolledOutcome ==
  ASSUME NEW cl, NEW r \in Readers, r.call \in Requests, cl # "idle", cl = "next" => r.call \in Streams,
         NEW id \in Nat \ {0}, NEW pl \in Plans(r.call), NEW given, r.res = Pending,
         NEW c, NEW ch \in Seq(Msgs), c.chan = ch, Len(ch) <= ChanCap, NEW ib, NEW k \in Nat, NEW q \in Nat,
         ReadTo(cl, r, given, id, pl, k), NEW a, Placed(a, r.call, id, pl), Rest(a, id, k, q, ch, ib),
         NEW up, \A i \in 1 .. Len(ch) : Fatal(ch[i]) => i = Len(ch) /\ up # "up", Stays(a, id, q, c, ib, up)
  PROVE  \/ ReadUp(cl, Polled(r, c, id).r, Polled(r, c, id).chan, given, id, pl, a, q, ib)
         \/ Down(up, Polled(r, c, id).r)
<1> DEFINE x == poll(r, ch[1])
           y == poll(x, ch[2])
           n == Len(ch)
           own == OwnLen(ch)
<1>1. n \in Nat /\ n <= 2 /\ own \in Nat /\ own <= n /\ (own = n \/ (n >= 1 /\ own = n - 1 /\ Fatal(ch[n])))
  BY OwnLenIs DEF ChanCap
<1>2. \A i \in 1 .. n : ch[i] \in Msgs
  OBVIOUS
<1>n. \A i \in 1 .. n : Fatal(ch[i]) => i = n /\ up # "up"
  OBVIOUS
<1>e. n = Len(ch) /\ own = OwnLen(ch)
  OBVIOUS
<1>p. /\ n = 0 => Polled(r, c, id) = [r |-> Ended(r, c, id), chan |-> <<>>]
      /\ n = 1 => Polled(r, c, id) = [r |-> Ended(x, c, id), chan |-> <<>>]
      /\ n > 1 /\ x.res = Pending => Polled(r, c, id) = [r |-> Ended(y, c, id), chan |-> <<>>]
      /\ n > 1 /\ x.res # Pending => Polled(r, c, id) = [r |-> x, chan |-> <<ch[2]>>]
  <2>1. c.chan = ch /\ Len(c.chan) \in Nat
    BY <1>1
  <2> HIDE DEF x, y
  <2> QED BY <2>1, PolledIs DEF x, y
<1> HIDE DEF n, own
<1>3. Outcome(cl, r, given, id, pl, k)
  BY DEF Outcome
<1>4. CASE n = 0
  <2>1. ch = <<>> /\ Polled(r, c, id).r = Ended(r, c, id) /\ Polled(r, c, id).chan = <<>>
    <3>1. Polled(r, c, id) = [r |-> Ended(r, c, id), chan |-> <<>>]
      BY <1>p, <1>4
    <3>2. ch = <<>>
      BY <1>e, <1>4, ShortSeq
    <3> QED BY <3>1, <3>2
  <2> QED BY <1>3, <2>1, EndedOutcome
<1>5. CASE n >= 1 /\ Fatal(ch[1])
  <2>1. n = 1 /\ up # "up"
    <3>1. 1 \in 1 .. n
      BY <1>1, <1>5
    <3> QED BY <1>5, <1>n, <3>1
  <2>2. x = Err(r, "db") /\ x.res # Pending
    BY <1>5, DownIs
  <2>3. Polled(r, c, id).r = x
    <3>1. Polled(r, c, id) = [r |-> Ended(x, c, id), chan |-> <<>>]
      BY <1>p, <2>1
    <3>2. Ended(x, c, id) = x
      BY <2>2 DEF Ended
    <3> HIDE DEF x
    <3> QED BY <3>1, <3>2
  <2> QED BY <2>1, <2>2, <2>3, DownIs
<1>6. CASE n >= 1 /\ ~Fatal(ch[1])
  <2>1. own >= 1
    <3>1. CASE own = n
      BY <1>6, <3>1
    <3>2. CASE n >= 1 /\ own = n - 1 /\ Fatal(ch[n])
      BY <1>1, <1>6, <3>2
    <3> QED BY <1>1, <3>1, <3>2
  <2> DEFINE tl == Tail(ch)
             j == k + 1
  <2>2. ch # <<>> /\ ch[1] = a[k + 1] /\ Rest(a, id, j, q, tl, ib)
    <3>1. OwnLen(ch) >= 1
      BY <1>e, <2>1
    <3> QED BY <3>1, RestRead
  <2>3. j \in Nat /\ ch[1] \in Msgs /\ Outcome(cl, x, given, id, pl, j)
    <3>1. 1 \in 1 .. n
      BY <1>1, <1>6
    <3>2. Outcome(cl, poll(r, a[k + 1]), given, id, pl, k + 1)
      BY ReadOne
    <3> QED BY <1>2, <2>2, <3>1, <3>2
  <2>4. x \in Readers /\ x.call = r.call
    BY <2>3, PollType
  <2>5. tl \in Seq(Msgs) /\ Len(tl) = n - 1 /\ (n = 2 => tl[1] = ch[2] /\ tl = <<ch[2]>>)
    <3>1. tl \in Seq(Msgs) /\ Len(tl) = n - 1 /\ \A i \in 1 .. n - 1 : tl[i] = ch[i + 1]
      BY <1>e, <2>2, TailIs
    <3>2. ASSUME n = 2 PROVE tl[1] = ch[2] /\ tl = <<ch[2]>>
      <4> HIDE DEF tl
      <4>1. tl[1] = ch[2] /\ Len(tl) = 1
        BY <3>1, <3>2
      <4> QED BY <3>1, <4>1, ShortSeq
    <3> QED BY <3>1, <3>2
  <2> HIDE DEF x, tl, j
  <2>6. CASE n = 1
    <3>1. tl = <<>>
      BY <2>5, <2>6, ShortSeq
    <3>2. Polled(r, c, id).r = Ended(x, c, id) /\ Polled(r, c, id).chan = <<>>
      <4>1. Polled(r, c, id) = [r |-> Ended(x, c, id), chan |-> <<>>]
        BY <1>p, <2>6
      <4> QED BY <4>1
    <3> QED BY <2>2, <2>3, <2>4, <3>1, <3>2, EndedOutcome
  <2>7. CASE n > 1 /\ x.res # Pending
    <3>1. Polled(r, c, id).r = x /\ Polled(r, c, id).chan = tl
      <4>1. Polled(r, c, id) = [r |-> x, chan |-> <<ch[2]>>]
        BY <1>p, <2>7
      <4>2. n = 2
        BY <1>1, <2>7
      <4> QED BY <2>5, <4>1, <4>2
    <3> QED BY <2>2, <2>3, <2>7, <3>1 DEF ReadUp
  <2>8. CASE n > 1 /\ x.res = Pending
    <3>0. n = 2 /\ tl[1] = ch[2] /\ tl # <<>> /\ tl = <<ch[2]>>
      <4>1. n = 2
        BY <1>1, <2>8
      <4>2. <<ch[2]>> # <<>>
        OBVIOUS
      <4> QED BY <2>5, <4>1, <4>2
    <3>1. Polled(r, c, id).r = Ended(y, c, id) /\ Polled(r, c, id).chan = <<>>
      <4>1. Polled(r, c, id) = [r |-> Ended(y, c, id), chan |-> <<>>]
        BY <1>p, <2>8
      <4> QED BY <4>1
    <3>2. ReadTo(cl, x, given, id, pl, j)
      BY <2>3, <2>8 DEF Outcome
    <3>3. CASE Fatal(ch[2])
      <4>0. 2 \in 1 .. n
        BY <3>0
      <4>1. y = Err(x, "db") /\ y.res # Pending /\ up # "up"
        BY <1>n, <2>4, <2>8, <3>3, <4>0, DownIs
      <4>2. Ended(y, c, id) = y
        BY <4>1 DEF Ended
      <4> QED BY <2>4, <3>1, <4>1, <4>2, DownIs
    <3>4. CASE ~Fatal(ch[2])
      <4>1. OwnLen(tl) >= 1
        <5>1. Len(tl) = 1
          BY <2>5, <3>0
        <5> QED BY <2>5, <3>0, <3>4, <5>1, OwnLenIs
      <4>2. tl[1] = a[j + 1] /\ Rest(a, id, j + 1, q, Tail(tl), ib)
        <5>1. j \in Nat /\ tl \in Seq(Msgs) /\ Rest(a, id, j, q, tl, ib)
          BY <2>2, <2>3, <2>5
        <5> QED BY <4>1, <5>1, RestRead
      <4>3. Tail(tl) = <<>>
        BY <3>0, ShortSeq
      <4>4. j + 1 \in Nat /\ Outcome(cl, y, given, id, pl, j + 1)
        <5>1. Outcome(cl, poll(x, a[j + 1]), given, id, pl, j + 1)
          BY <2>3, <2>4, <2>8, <3>2, ReadOne
        <5> QED BY <2>3, <3>0, <4>2, <5>1
      <4>5. y \in Readers /\ y.call = r.call
        <5>1. 2 \in 1 .. n
          BY <3>0
        <5> QED BY <1>2, <2>4, <5>1, PollType
      <4> QED BY <3>1, <4>2, <4>3, <4>4, <4>5, EndedOutcome
    <3> QED BY <3>3, <3>4
  <2> QED BY <1>1, <1>6, <2>6, <2>7, <2>8
<1> QED BY <1>1, <1>4, <1>5, <1>6

-----------------------------------------------------------------------------
(***************************************************************************)
(* The messages of the answer move on.                                     *)
(***************************************************************************)
Moves(lv, ch, ib, s, dh, jb, t) ==
  \A a : \A k, q \in Nat :
    Whole(a, lv) /\ Rest(a, lv, k, q, ch, ib) /\ (s.up = "up" => Left(a, q, s.stream)) =>
      \E r \in Nat : Rest(a, lv, k, r, dh, jb) /\ (t.up = "up" => Left(a, r, t.stream))

LEMMA LeftTail ==
  ASSUME NEW a \in Seq(Msgs), NEW q \in Nat, NEW st \in Seq(Msgs), st # <<>>, Left(a, q, st)
  PROVE  q < Len(a) /\ Head(st) = a[q + 1] /\ Left(a, q + 1, Tail(st))
<1> DEFINE n == Len(st)
           z == Len(a)
           tl == Tail(st)
<1>1. /\ Head(st) = st[1] /\ n \in Nat /\ n >= 1 /\ Len(tl) = n - 1
      /\ \A i \in 1 .. n - 1 : tl[i] = st[i + 1]
  BY TailIs
<1>2. n = z - q /\ z \in Nat /\ \A i \in 1 .. n : st[i] = a[q + i]
  BY DEF Left
<1> HIDE DEF n, z, tl
<1>3. q < z /\ n - 1 = z - (q + 1)
  BY <1>1, <1>2
<1>4. st[1] = a[q + 1]
  <2>1. 1 \in 1 .. n
    BY <1>1
  <2> QED BY <1>2, <2>1
<1>5. ASSUME NEW i \in 1 .. n - 1 PROVE tl[i] = a[(q + 1) + i]
  <2>1. i + 1 \in 1 .. n /\ q + (i + 1) = (q + 1) + i
    BY <1>1
  <2>2. tl[i] = st[i + 1] /\ st[i + 1] = a[q + (i + 1)]
    BY <1>1, <1>2, <2>1
  <2> QED BY <2>1, <2>2
<1>6. \A i \in 1 .. Len(tl) : tl[i] = a[(q + 1) + i]
  BY <1>1, <1>5
<1>7. Left(a, q + 1, tl)
  BY <1>1, <1>3, <1>6 DEF Left, z
<1> QED BY <1>1, <1>3, <1>4, <1>7 DEF tl, z

\* Each way a message moves keeps the rest of the answer in place.
LEMMA MovesNot ==
  ASSUME NEW lv, NEW ch, NEW ib, NEW s, NEW t, t.up = "up" => s.up = "up" /\ t.stream = s.stream
  PROVE  Moves(lv, ch, ib, s, ch, ib, t)
BY DEF Moves

LEMMA MovesPass ==
  ASSUME NEW lv, NEW ch \in Seq(Msgs), NEW ib \in Seq(Msgs), NEW s, NEW t, t.up = "up" => s.up = "up" /\ t.stream = s.stream,
         ib # <<>>, ib[1].of # lv
  PROVE  Moves(lv, ch, ib, s, ch, Tail(ib), t)
BY RestPass DEF Moves

LEMMA MovesAside ==
  ASSUME NEW lv, NEW ch \in Seq(Msgs), NEW ib \in Seq(Msgs), NEW s, NEW t, t.up = "up" => s.up = "up" /\ t.stream = s.stream,
         NEW m \in Msgs, m.of # lv
  PROVE  Moves(lv, ch, ib, s, ch, Append(ib, m), t)
BY RestAside DEF Moves

LEMMA MovesRoute ==
  ASSUME NEW lv, NEW ch \in Seq(Msgs), NEW ib \in Seq(Msgs), NEW s, NEW t, t.up = "up" => s.up = "up" /\ t.stream = s.stream,
         ib # <<>>, ib[1].of = lv \/ Fatal(ib[1]), OwnLen(ch) = Len(ch)
  PROVE  Moves(lv, ch, ib, s, Append(ch, ib[1]), Tail(ib), t)
BY RestRoute, RestFatal DEF Moves

LEMMA MovesDeliver ==
  ASSUME NEW lv, NEW ch \in Seq(Msgs), NEW ib \in Seq(Msgs), NEW s \in Sessions, NEW t, s.up = "up",
         s.stream # <<>>, t.stream = Tail(s.stream)
  PROVE  Moves(lv, ch, ib, s, ch, Append(ib, Head(s.stream)), t)
<1> SUFFICES ASSUME NEW a, NEW k \in Nat, NEW q \in Nat, Whole(a, lv), Rest(a, lv, k, q, ch, ib), Left(a, q, s.stream)
             PROVE  \E r \in Nat : /\ Rest(a, lv, k, r, ch, Append(ib, Head(s.stream)))
                                   /\ t.up = "up" => Left(a, r, t.stream)
  BY DEF Moves
<1>1. s.stream \in Seq(Msgs) /\ a \in Seq(Msgs)
  BY DEF Sessions, Whole
<1>2. q < Len(a) /\ Head(s.stream) = a[q + 1] /\ Left(a, q + 1, Tail(s.stream))
  BY <1>1, LeftTail
<1>3. Rest(a, lv, k, q + 1, ch, Append(ib, a[q + 1]))
  BY <1>2, RestMore
<1> QED BY <1>2, <1>3

\* So what has been read of it stays read.
LEMMA AnsweringMoves ==
  ASSUME NEW cl, NEW r, NEW given, NEW lv \in Nat \ {0}, NEW pl, NEW ch, NEW ib, NEW s, NEW sv,
         Answering(cl, r, given, lv, pl, ch, ib, s, sv), NEW dh, NEW jb, NEW t, NEW tv,
         Moves(lv, ch, ib, s, dh, jb, t), t.up = "up" => s.up = "up" /\ tv = sv
  PROVE  Answering(cl, r, given, lv, pl, dh, jb, t, tv)
<1> DEFINE a == Answer(r.call, lv, pl)
<1>1. r.call \in Requests /\ pl \in Plans(r.call) /\ (t.up = "up" => lv < tv)
  BY DEF Answering
<1>2. PICK k \in Nat, q \in Nat : /\ ReadTo(cl, r, given, lv, pl, k) /\ Rest(a, lv, k, q, ch, ib)
                                  /\ s.up = "up" => Left(a, q, s.stream)
  BY DEF Answering, Reading
<1>3. Whole(a, lv)
  BY <1>1, AnswerWhole, CallTypes
<1> HIDE DEF a
<1>4. PICK p \in Nat : Rest(a, lv, k, p, dh, jb) /\ (t.up = "up" => Left(a, p, t.stream))
  BY <1>2, <1>3 DEF Moves
<1>5. Reading(cl, r, given, lv, pl, dh, jb, t)
  BY <1>2, <1>4 DEF Reading, a
<1> QED BY <1>1, <1>5 DEF Answering

\* What is asked of the server is the same, and it has got as far.
LEMMA LiveMoves ==
  ASSUME NEW o, NEW h, NEW lv \in Nat, NEW pl, NEW c, NEW ib, NEW s, NEW nid, LiveInv(o, h, lv, pl, c, ib, s, nid),
         NEW p, p.call = o.call, p.r = o.r, NEW g, g.iter = h.iter, g.given = h.given,
         NEW d, NEW jb, NEW t, NEW nie, t.up = "up" => s.up = "up" /\ Unserved(d, t, nie) = Unserved(c, s, nid),
         lv # 0 => Moves(lv, c.chan, ib, s, d.chan, jb, t),
         lv # 0 /\ pl = NoPlan /\ OwnLen(c.chan) = 0 /\ (\A i \in 1 .. Len(ib) : ib[i].of # lv) =>
           OwnLen(d.chan) = 0 /\ (\A i \in 1 .. Len(jb) : jb[i].of # lv)
  PROVE  LiveInv(p, g, lv, pl, d, jb, t, nie)
<1> DEFINE sv == Unserved(c, s, nid)
           tv == Unserved(d, t, nie)
<1>1. Own(p, g) = Own(o, h)
  BY DEF Own
<1>2. ASSUME lv # 0, pl = NoPlan PROVE Unanswered(p, lv, d.chan, jb, t.up, tv)
  <2>1. Unanswered(o, lv, c.chan, ib, s.up, sv)
    BY <1>2 DEF LiveInv
  <2> HIDE DEF sv, tv
  <2>2. t.up = "up" => s.up = "up" /\ tv = sv
    BY DEF sv, tv
  <2> QED BY <1>2, <2>1, <2>2 DEF Unanswered
<1>3. ASSUME lv # 0, pl # NoPlan PROVE Answering(p.call, Own(p, g), g.given, lv, pl, d.chan, jb, t, tv)
  <2>1. Answering(p.call, Own(p, g), g.given, lv, pl, c.chan, ib, s, sv)
    BY <1>1, <1>3 DEF LiveInv
  <2> HIDE DEF sv, tv
  <2>2. t.up = "up" => s.up = "up" /\ tv = sv
    BY DEF sv, tv
  <2> QED BY <1>3, <2>1, <2>2, AnsweringMoves
<1> QED BY <1>2, <1>3 DEF LiveInv

-----------------------------------------------------------------------------
(***************************************************************************)
(* What the other parts of the invariant depend on.                        *)
(***************************************************************************)
LEMMA CallSame ==
  ASSUME NEW o, NEW h, NEW lv, NEW pl, CallInv(o, lv, pl), HandleInv(o, h, lv, pl),
         NEW p, p.call = o.call, p.r = o.r, p.id = o.id, p.timer => p.call = "is_valid", p = o \/ p.call # "idle",
         NEW g, g.iter = h.iter, g.given = h.given, g.client = h.client
  PROVE  CallInv(p, lv, pl) /\ HandleInv(p, g, lv, pl) /\ Own(p, g) = Own(o, h)
<1>1. CallInv(p, lv, pl)
  BY DEF CallInv
<1>2. HandleInv(p, g, lv, pl)
  BY DEF HandleInv
<1> QED BY <1>1, <1>2 DEF Own

\* The other parts, over a step that leaves what they read.
LEMMA LastSame ==
  ASSUME NEW o, NEW h, NEW lv, NEW c, NEW up, NEW nid, LastInv(o, h, lv, c, up, nid),
         NEW p, p.call = o.call, NEW g, g.client = h.client, NEW d, d.closed <=> c.closed, NEW t, t = "up" => up = "up"
  PROVE  LastInv(p, g, lv, d, t, nid)
BY DEF LastInv

LEMMA AskedSame ==
  ASSUME NEW c, NEW s, NEW lv, NEW call, AskedInv(c, s, lv, call), NEW d, d.reqs = c.reqs,
         NEW t, t.up = "up" => s.up = "up" /\ t.queue = s.queue
  PROVE  AskedInv(d, t, lv, call)
BY DEF AskedInv

LEMMA AskedWritten ==
  ASSUME NEW c \in Conns, server \in Sessions, NEW lv, NEW call, AskedInv(c, server, lv, call)
  PROVE  AskedInv(poll_write(c), Written(c), lv, call)
<1> DEFINE s == server
           q == Written(c).queue
           z == Outgoing(c)
<1>1. poll_write(c).reqs = <<>> /\ Written(c).up = s.up /\ (s.up = "up" => Parts(q, s.queue, z))
  BY WriteIs, WrittenIs
<1>2. z = <<Terminate>> \/ z = c.reqs
  BY OutgoingIs
<1> SUFFICES ASSUME s.up = "up" PROVE AskedInv(poll_write(c), Written(c), lv, call)
  BY <1>1 DEF AskedInv
<1>3. /\ lv # 0 => Named(c.reqs, lv, call) /\ Named(s.queue, lv, call)
      /\ Begins(c.reqs, lv) /\ Begins(s.queue, lv)
  BY DEF AskedInv
<1>4. lv # 0 => Named(<<Terminate>>, lv, call)
  BY DEF Named, Terminate
<1>5. Begins(<<Terminate>>, lv)
  BY DEF Begins, Terminate
<1>6. (lv # 0 => Named(z, lv, call)) /\ Begins(z, lv)
  BY <1>2, <1>3, <1>4, <1>5
<1>7. /\ Len(s.queue) \in Nat /\ Len(z) \in Nat /\ Len(q) = Len(s.queue) + Len(z)
      /\ \A i \in 1 .. Len(s.queue) : q[i] = s.queue[i]
      /\ \A i \in 1 .. Len(z) : q[Len(s.queue) + i] = z[i]
  BY <1>1 DEF Parts
<1>8. ASSUME NEW i \in 1 .. Len(q)
      PROVE  (\E j \in 1 .. Len(s.queue) : q[i] = s.queue[j]) \/ \E j \in 1 .. Len(z) : q[i] = z[j]
  <2>1. CASE i \in 1 .. Len(s.queue)
    BY <1>7, <2>1
  <2>2. CASE i - Len(s.queue) \in 1 .. Len(z)
    <3> DEFINE a == Len(s.queue)
               j == i - a
    <3>1. j \in 1 .. Len(z) /\ q[a + j] = z[j]
      BY <1>7, <2>2
    <3>2. a + j = i
      <4>1. a \in Nat /\ i \in Int
        BY <1>7
      <4> HIDE DEF a
      <4> QED BY <4>1
    <3> HIDE DEF j
    <3> QED BY <3>1, <3>2
  <2> QED BY <1>7, <2>1, <2>2
<1> HIDE DEF q, z, s
<1>9. lv # 0 => Named(q, lv, call)
  BY <1>3, <1>6, <1>8 DEF Named
<1>10. Begins(q, lv)
  BY <1>3, <1>6, <1>8 DEF Begins
<1>11. (lv # 0 => Named(<<>>, lv, call)) /\ Begins(<<>>, lv)
  BY DEF Named, Begins
<1> QED BY <1>1, <1>9, <1>10, <1>11 DEF AskedInv, q

LEMMA ChanTail ==
  ASSUME NEW ch \in Seq(Msgs), NEW lv, NEW ib, ib # <<>>, NEW up, ChanInv(ch, lv, ib, up), NEW jb, NEW t
  PROVE  /\ ChanInv(ch, lv, jb, t) /\ OwnLen(ch) = Len(ch) /\ \A i \in 1 .. Len(ch) : ~Fatal(ch[i])
<1>1. \A i \in 1 .. Len(ch) : ~Fatal(ch[i])
  BY DEF ChanInv
<1>2. OwnLen(ch) = Len(ch)
  BY <1>1, OwnLenIs
<1> QED BY <1>1, <1>2 DEF ChanInv

LEMMA ChanUp ==
  ASSUME NEW ch \in Seq(Msgs), NEW lv, NEW ib, ChanInv(ch, lv, ib, "up"), NEW jb, NEW t
  PROVE  ChanInv(ch, lv, jb, t) /\ OwnLen(ch) = Len(ch)
<1>1. \A i \in 1 .. Len(ch) : ~Fatal(ch[i])
  BY DEF ChanInv
<1>2. OwnLen(ch) = Len(ch)
  BY <1>1, OwnLenIs
<1> QED BY <1>1, <1>2 DEF ChanInv

LEMMA ChanSame ==
  ASSUME NEW ch, NEW lv, NEW ib, NEW up, ChanInv(ch, lv, ib, up), NEW t, t = "up" => up = "up"
  PROVE  ChanInv(ch, lv, ib, t)
BY DEF ChanInv

LEMMA ChanNone ==
  ASSUME NEW lv, NEW ib, NEW up
  PROVE  ChanInv(<<>>, lv, ib, up)
BY DEF ChanInv, ChanCap

LEMMA TxSame ==
  ASSUME NEW o, NEW h, NEW pl, NEW s, TxInv(o, h, pl, s), NEW p, p.call = o.call, p.r = o.r,
         NEW g, g.tx = h.tx, NEW t, t.tx => s.tx
  PROVE  TxInv(p, g, pl, t)
BY DEF TxInv

\* The call fails with the Connection.
LEMMA LiveFails ==
  ASSUME SyncInv, op.call # "idle", server.up # "up", NEW why \in {"closed", "db"}, Fail(why),
         handle' = handle, plan' = plan
  PROVE  LiveParts' /\ OwnAnswer'
<1>1. op \in Ops /\ op.r \in Readers /\ conn \in Conns
  BY DEF SyncInv, TypeOK, Ops
<1>2. /\ op'.call = op.call /\ op'.r = Err(op.r, why) /\ op'.id = op.id /\ op'.timer = op.timer
      /\ conn'.chan = <<>> /\ live' = 0 /\ server' = server
  BY <1>1 DEF Fail, Ops, Conns
<1>3. op'.r.call = op.r.call /\ op'.r.res = Result("err", <<>>, 0, why)
  BY <1>1, <1>2 DEF Err, Readers
<1>4. op'.r.res.is = "err" /\ op'.r.res # Pending
  <2>1. Result("err", <<>>, 0, why).is = "err"
    BY DEF Result
  <2>2. Pending.is = "pending"
    BY DueIs
  <2> QED BY <1>3, <2>1, <2>2
<1>5. /\ CallInv(op, live, plan) /\ HandleInv(op, handle, live, plan) /\ ~server.tx
  BY DEF SyncInv, LiveParts, LineInv, ServeInv
<1>6. CallInv(op', 0, plan)
  BY <1>2, <1>3, <1>4, <1>5 DEF CallInv
<1>7. HandleInv(op', handle, 0, plan)
  BY <1>2, <1>3, <1>5 DEF HandleInv
<1>8. LastInv(op', handle, 0, conn', server.up, nextId')
  BY DEF LastInv
<1>9. AskedInv(conn', server, 0, Own(op', handle).call)
  BY DEF AskedInv
<1>10. ChanInv(conn'.chan, 0, inbox', server.up)
  BY <1>2, ChanNone
<1>11. LiveInv(op', handle, 0, plan, conn', inbox', server, nextId')
  BY DEF LiveInv
<1>12. TxInv(op', handle, plan, server)
  BY <1>5 DEF TxInv
<1>13. LiveParts'
  BY <1>2, <1>6, <1>7, <1>8, <1>9, <1>10, <1>11, <1>12 DEF LiveParts
<1>14. OwnAnswer'
  <2>1. op'.r.res = Err(op'.r, why).res
    BY <1>2, <1>3 DEF Err
  <2>2. server'.up # "up"
    BY <1>2
  <2> QED BY <2>1, <2>2 DEF OwnAnswer
<1> QED BY <1>13, <1>14

\* A step that leaves the call and what the server made of it alone.
LEMMA LiveCarried ==
  ASSUME SyncInv, SvKept, op'.call = op.call, op'.r = op.r, op'.id = op.id, op'.timer => op'.call = "is_valid",
         op' = op \/ op'.call # "idle", handle'.iter = handle.iter, handle'.given = handle.given,
         handle'.client = handle.client, handle'.tx = handle.tx, live' = live, plan' = plan, nextId' = nextId,
         server'.up = "up" => server.up = "up", server'.tx => server.tx, conn'.closed <=> conn.closed,
         AskedInv(conn', server', live, Own(op, handle).call), ChanInv(conn'.chan, live, inbox', server'.up),
         live # 0 => Moves(live, conn.chan, inbox, server, conn'.chan, inbox', server'),
         live # 0 /\ plan = NoPlan /\ OwnLen(conn.chan) = 0 /\ (\A i \in 1 .. Len(inbox) : inbox[i].of # live) =>
           OwnLen(conn'.chan) = 0 /\ (\A i \in 1 .. Len(inbox') : inbox'[i].of # live)
  PROVE  LiveParts'
<1>1. /\ CallInv(op, live, plan) /\ HandleInv(op, handle, live, plan) /\ live \in Nat
      /\ LastInv(op, handle, live, conn, server.up, nextId) /\ TxInv(op, handle, plan, server)
      /\ LiveInv(op, handle, live, plan, conn, inbox, server, nextId)
  BY DEF SyncInv, LiveParts, TypeOK
<1>2. CallInv(op', live, plan) /\ HandleInv(op', handle', live, plan) /\ Own(op', handle') = Own(op, handle)
  BY <1>1, CallSame
<1>3. LastInv(op', handle', live, conn', server'.up, nextId)
  BY <1>1, LastSame
<1>4. TxInv(op', handle', plan, server')
  BY <1>1, TxSame
<1>5. LiveInv(op', handle', live, plan, conn', inbox', server', nextId')
  <2>1. server'.up = "up" => server.up = "up" /\ Unserved(conn', server', nextId') = Unserved(conn, server, nextId)
    BY DEF SvKept
  <2> QED BY <1>1, <2>1, LiveMoves
<1>6. AskedInv(conn', server', live, Own(op', handle').call)
  BY <1>2
<1> QED BY <1>2, <1>3, <1>4, <1>5, <1>6 DEF LiveParts

\* A returned call keeps its outcome; one that has not returned has none.
LEMMA OwnCarried ==
  ASSUME OwnAnswer, op'.call = op.call, op'.r = op.r, op'.id = op.id, op.timer => op'.timer, plan' = plan,
         handle'.given = handle.given, server'.up = "up" => server.up = "up"
  PROVE  OwnAnswer'
<1>1. Returned' <=> Returned
  BY DEF Returned
<1> QED BY <1>1 DEF OwnAnswer

LEMMA NotReturned ==
  ASSUME op'.r.res = Pending
  PROVE  OwnAnswer'
BY DEF OwnAnswer, Returned

\* No message of the live request in what is left.
LEMMA NoneLeft ==
  ASSUME NEW ib \in Seq(Msgs), ib # <<>>, NEW lv, \A i \in 1 .. Len(ib) : ib[i].of # lv
  PROVE  /\ ib[1].of # lv /\ \A i \in 1 .. Len(Tail(ib)) : Tail(ib)[i].of # lv
<1>1. 1 \in 1 .. Len(ib) /\ Len(Tail(ib)) = Len(ib) - 1
  BY TailIs
<1>2. \A i \in 1 .. Len(ib) - 1 : Tail(ib)[i] = ib[i + 1] /\ i + 1 \in 1 .. Len(ib)
  BY TailIs
<1> QED BY <1>1, <1>2

LEMMA NoneMore ==
  ASSUME NEW ib \in Seq(Msgs), NEW m \in Msgs, NEW lv, m.of # lv, \A i \in 1 .. Len(ib) : ib[i].of # lv
  PROVE  \A i \in 1 .. Len(Append(ib, m)) : Append(ib, m)[i].of # lv
<1>1. Len(Append(ib, m)) = Len(ib) + 1
  BY AppendIs
<1>2. /\ Append(ib, m)[Len(ib) + 1] = m /\ \A i \in 1 .. Len(ib) : Append(ib, m)[i] = ib[i]
      /\ \A i \in 1 .. Len(ib) + 1 : i \in 1 .. Len(ib) \/ i = Len(ib) + 1
  BY AppendIs
<1> QED BY <1>1, <1>2

\* Connection::poll_read keeps the invariant, whatever message is first.
LEMMA LivePollRead == SyncInv /\ PollRead => LiveParts' /\ OwnAnswer'
<1> SUFFICES ASSUME SyncInv, PollRead PROVE LiveParts' /\ OwnAnswer'
  OBVIOUS
<1> DEFINE m == Head(inbox)
           call == Own(op, handle).call
<1>1. /\ inbox \in Seq(Msgs) /\ op.r.res = Pending /\ inbox # <<>> /\ ~Full(m) /\ inbox' = Tail(inbox)
      /\ UNCHANGED <<handle, plan, nextId, async, told>> /\ op # Idle
  BY DEF PollRead, Returned, SyncInv, TypeOK
<1>2. /\ op \in Ops /\ conn \in Conns /\ server \in Sessions /\ live \in Nat /\ conn.chan \in Seq(Msgs) /\ nextId \in Nat
  BY DEF SyncInv, TypeOK, Conns
<1>3. /\ CallInv(op, live, plan) /\ AskedInv(conn, server, live, call) /\ ChanInv(conn.chan, live, inbox, server.up)
      /\ LineInv(conn, server, inbox, nextId) /\ TypeOK /\ OwnAnswer
  BY DEF SyncInv, LiveParts
<1>4. op.call # "idle" /\ (op.timer => op.call = "is_valid")
  BY <1>1, <1>3 DEF CallInv
<1>5. m = inbox[1] /\ m \in Msgs /\ 1 \in 1 .. Len(inbox)
  BY <1>1, TailIs
<1>6. SvKept
  BY <1>3, LinePollRead DEF Line
<1>7. /\ ChanInv(conn.chan, live, inbox', server.up) /\ OwnLen(conn.chan) = Len(conn.chan)
      /\ \A i \in 1 .. Len(conn.chan) : ~Fatal(conn.chan[i])
  BY <1>1, <1>2, <1>3, ChanTail
<1>8. ~Normal(m) => m.of = 0
  BY <1>3, <1>5 DEF LineInv, ArriveInv
<1>9. (\A i \in 1 .. Len(inbox) : inbox[i].of # live) => m.of # live /\ \A i \in 1 .. Len(inbox') : inbox'[i].of # live
  BY <1>1, <1>5, NoneLeft
<1> HIDE DEF m, call
<1>10. ASSUME m.is \in {"notification", "notice"}, NEW c \in Conns, c.reqs = conn.reqs, c.chan = conn.chan, c.closed = conn.closed,
              conn' = poll_write(c), server' = Written(c), UNCHANGED <<op, live, taken>>
       PROVE  LiveParts'
  <2>1. m.of = 0
    BY <1>8, <1>10 DEF Normal
  <2>2. /\ conn'.chan = conn.chan /\ conn'.closed = conn.closed
        /\ server'.up = server.up /\ server'.stream = server.stream /\ server'.tx = server.tx
    BY <1>2, <1>10, WriteIs, WrittenIs
  <2>3. AskedInv(c, server, live, call)
    BY <1>3, <1>10, AskedSame
  <2>4. AskedInv(conn', server', live, call)
    BY <1>2, <1>10, <2>3, AskedWritten
  <2>5. live # 0 => Moves(live, conn.chan, inbox, server, conn'.chan, inbox', server')
    BY <1>1, <1>2, <1>5, <2>1, <2>2, MovesPass
  <2> QED BY <1>1, <1>4, <1>6, <1>7, <1>9, <1>10, <2>2, <2>4, <2>5, LiveCarried DEF call
<1>11. CASE m.is \in {"notification", "notice"} /\ UNCHANGED <<op, live, taken>>
            /\ conn' = poll_write(conn) /\ server' = Written(conn)
  BY <1>1, <1>2, <1>10, <1>11, NotReturned
<1>12. CASE m.is \in {"notification", "notice"} /\ UNCHANGED <<op, live, taken>>
            /\ \E c : /\ c = [conn EXCEPT !.notifications = push_back(@, m.n)]
                      /\ conn' = poll_write(c) /\ server' = Written(c)
  <2>1. PICK c : c = [conn EXCEPT !.notifications = push_back(@, m.n)] /\ conn' = poll_write(c) /\ server' = Written(c)
    BY <1>12
  <2>2. c \in Conns /\ c.reqs = conn.reqs /\ c.chan = conn.chan /\ c.closed = conn.closed
    <3>1. m.n \in Nat /\ conn.notifications \in Seq(Nat)
      BY <1>2, <1>5 DEF Msgs, Conns
    <3>2. push_back(conn.notifications, m.n) \in Seq(Nat)
      BY <3>1, AppendIs DEF push_back
    <3> QED BY <1>2, <2>1, <3>2 DEF Conns
  <2> QED BY <1>1, <1>10, <1>12, <2>1, <2>2, NotReturned
<1>13. CASE m.is = "parameter" /\ UNCHANGED <<op, live, conn, server, taken>>
  <2>1. m.of = 0
    BY <1>8, <1>13 DEF Normal
  <2>2. live # 0 => Moves(live, conn.chan, inbox, server, conn'.chan, inbox', server')
    BY <1>1, <1>2, <1>5, <1>13, <2>1, MovesPass
  <2>3. AskedInv(conn', server', live, call)
    BY <1>3, <1>13
  <2>4. LiveParts'
    BY <1>1, <1>4, <1>6, <1>7, <1>9, <1>13, <2>2, <2>3, LiveCarried DEF call
  <2> QED BY <1>1, <1>13, <2>4, NotReturned
<1>14. CASE Normal(m) /\ conn.responses # <<>> /\ conn' = route(conn, m) /\ UNCHANGED <<op, live, server, taken>>
  <2>1. \/ m.of = Head(conn.responses) /\ Head(conn.responses) # 0
        \/ server.up # "up" /\ Len(inbox) = 1 /\ Fatal(m)
    <3>1. \/ /\ conn.responses # <<>> /\ m.of = Head(conn.responses) /\ Head(conn.responses) = Oldest(conn, nextId)
             /\ (server.up = "up" => Oldest(conn, nextId) < Unserved(conn, server, nextId))
          \/ server.up # "up" /\ Len(inbox) = 1 /\ Fatal(m)
      BY <1>1, <1>2, <1>3, <1>5, <1>14, LineHead
    <3>2. Oldest(conn, nextId) >= 1 /\ Oldest(conn, nextId) \in Int
      BY <1>2, <1>3, Numbers DEF LineInv, AskInv
    <3> QED BY <3>1, <3>2
  <2>2. /\ conn'.reqs = conn.reqs /\ conn'.closed = conn.closed
        /\ conn'.chan = IF HungUp THEN conn.chan ELSE Append(conn.chan, m)
    BY <1>2, <1>5, <1>14, RouteIs
  <2>3. AskedInv(conn', server', live, call)
    BY <1>3, <1>14, <2>2, AskedSame
  <2>4. CASE HungUp
    <3>1. live # 0 => m.of # live
      BY <2>1, <2>4 DEF HungUp, Fatal
    <3>2. live # 0 => Moves(live, conn.chan, inbox, server, conn'.chan, inbox', server')
      BY <1>1, <1>2, <1>5, <1>14, <2>2, <2>4, <3>1, MovesPass
    <3>3. LiveParts'
      BY <1>1, <1>4, <1>6, <1>7, <1>9, <1>14, <2>2, <2>3, <2>4, <3>2, LiveCarried DEF call
    <3> QED BY <1>1, <1>14, <3>3, NotReturned
  <2>5. CASE ~HungUp
    <3>1. conn'.chan = Append(conn.chan, m) /\ Head(conn.responses) = live
      BY <2>2, <2>5 DEF HungUp
    <3>2. m.of = live \/ Fatal(m)
      BY <2>1, <3>1
    <3>3. Moves(live, conn.chan, inbox, server, conn'.chan, inbox', server')
      BY <1>1, <1>2, <1>5, <1>7, <1>14, <3>1, <3>2, MovesRoute
    <3>4. ChanInv(conn'.chan, live, inbox', server'.up)
      <4> DEFINE n == Len(conn.chan)
      <4>1. n < ChanCap
        BY <1>1, <1>2, <1>14, <2>5 DEF Full, ChanCap
      <4>2. /\ n \in Nat /\ Len(conn'.chan) = n + 1 /\ conn'.chan[n + 1] = m
            /\ \A i \in 1 .. n : conn'.chan[i] = conn.chan[i]
        BY <1>2, <1>5, <3>1, AppendIs
      <4>3. Len(inbox) = 1 => inbox' = <<>>
        <5>1. Len(inbox') = Len(inbox) - 1 /\ inbox' \in Seq(Msgs)
          BY <1>1, TailIs
        <5> QED BY <5>1, ShortSeq
      <4>4. live # 0
        <5>2. Head(conn.responses) = Oldest(conn, nextId) /\ Oldest(conn, nextId) >= 1 /\ Oldest(conn, nextId) \in Int
          <6>1. Len(conn.responses) \in Nat /\ Len(conn.responses) >= 1 /\ Head(conn.responses) = conn.responses[1]
            BY <1>2, <1>14, TailIs DEF Conns
          <6>2. 1 \in 1 .. Len(conn.responses)
            BY <6>1
          <6>3. /\ Oldest(conn, nextId) >= 1 /\ Oldest(conn, nextId) \in Int
                /\ conn.responses[1] = Oldest(conn, nextId) + 1 - 1
            BY <1>2, <1>3, <6>2, Numbers DEF LineInv, AskInv
          <6> QED BY <6>1, <6>3
        <5> QED BY <3>1, <5>2
      <4> HIDE DEF n
      <4>5. n + 1 <= ChanCap
        BY <4>1, <4>2 DEF ChanCap
      <4>6. ASSUME NEW i \in 1 .. n + 1, Fatal(conn'.chan[i]) PROVE i = n + 1 /\ server'.up # "up" /\ inbox' = <<>>
        <5>1. i = n + 1
          <6>1. CASE i \in 1 .. n
            BY <1>7, <4>2, <4>6, <6>1 DEF n
          <6> QED BY <4>2, <6>1
        <5>2. Fatal(m)
          BY <4>2, <4>6, <5>1
        <5>3. m.of = 0
          BY <5>2 DEF Fatal
        <5>4. server.up # "up" /\ Len(inbox) = 1
          BY <2>1, <5>3
        <5> QED BY <1>14, <4>3, <5>1, <5>4
      <4> QED BY <4>2, <4>4, <4>5, <4>6 DEF ChanInv
    <3>5. OwnLen(conn.chan) = 0 /\ (\A i \in 1 .. Len(inbox) : inbox[i].of # live) =>
            OwnLen(conn'.chan) = 0 /\ (\A i \in 1 .. Len(inbox') : inbox'[i].of # live)
      <4> SUFFICES ASSUME OwnLen(conn.chan) = 0, \A i \in 1 .. Len(inbox) : inbox[i].of # live
                   PROVE  OwnLen(conn'.chan) = 0 /\ (\A i \in 1 .. Len(inbox') : inbox'[i].of # live)
        OBVIOUS
      <4>1. Fatal(m)
        BY <1>9, <3>2
      <4>2. OwnLen(conn'.chan) = Len(conn.chan)
        BY <1>2, <1>5, <3>1, <4>1, OwnAppend
      <4> QED BY <1>7, <1>9, <4>2
    <3>6. LiveParts'
      BY <1>1, <1>4, <1>6, <1>14, <2>2, <2>3, <3>3, <3>4, <3>5, LiveCarried DEF call
    <3> QED BY <1>1, <1>14, <3>6, NotReturned
  <2> QED BY <2>4, <2>5
<1>15. CASE Normal(m) /\ conn.responses = <<>> /\ Fail(IF m.is = "ErrorResponse" THEN "db" ELSE "unexpected")
  <2>1. server.up # "up" /\ Fatal(m)
    BY <1>1, <1>2, <1>3, <1>5, <1>15, LineHead
  <2>2. Fail("db")
    BY <1>15, <2>1 DEF Fatal
  <2> QED BY <1>1, <1>4, <2>1, <2>2, LiveFails
<1>16. \/ /\ m.is \in {"notification", "notice"} /\ UNCHANGED <<op, live, taken>>
          /\ conn' = poll_write(conn) /\ server' = Written(conn)
       \/ /\ m.is \in {"notification", "notice"} /\ UNCHANGED <<op, live, taken>>
          /\ \E c : /\ c = [conn EXCEPT !.notifications = push_back(@, m.n)]
                    /\ conn' = poll_write(c) /\ server' = Written(c)
       \/ m.is = "parameter" /\ UNCHANGED <<op, live, conn, server, taken>>
       \/ Normal(m) /\ conn.responses # <<>> /\ conn' = route(conn, m) /\ UNCHANGED <<op, live, server, taken>>
       \/ Normal(m) /\ conn.responses = <<>> /\ Fail(IF m.is = "ErrorResponse" THEN "db" ELSE "unexpected")
  BY DEF PollRead, m
<1> QED BY <1>11, <1>12, <1>13, <1>14, <1>15, <1>16

\* The numbers in the queues are those of requests.
LEMMA AskedIds ==
  ASSUME NEW c \in Conns, NEW s \in Sessions, NEW ib \in Seq(Msgs), NEW nid \in Nat, LineInv(c, s, ib, nid), s.up = "up"
  PROVE  /\ \A i \in 1 .. Len(c.reqs) : /\ c.reqs[i].id \in Nat /\ c.reqs[i].id >= 1 /\ c.reqs[i].id < nid
                                        /\ c.reqs[i].id >= Unserved(c, s, nid)
         /\ \A i \in 1 .. Len(s.queue) :
              \/ s.queue[i].call = "terminate"
              \/ /\ s.queue[i].id \in Nat /\ s.queue[i].id >= 1 /\ s.queue[i].id < nid
                 /\ s.queue[i].id >= Unserved(c, s, nid)
<1> DEFINE old == Oldest(c, nid)
           un == Unsent(c, nid)
           sv == Unserved(c, s, nid)
           n == Len(c.reqs)
           z == Len(s.queue)
<1>1. /\ old \in Int /\ un \in Int /\ sv \in Int /\ old >= 1 /\ old <= un /\ sv <= un /\ un <= nid
      /\ AskInv(c, nid) /\ ServeInv(old, sv, c.closing, s) /\ sv >= old
  BY LineParts
<1>2. n \in Nat /\ z \in Nat /\ un = nid - n /\ (~c.closing => sv = un - z)
  BY DEF Conns, Sessions, Unsent, Unserved
<1>3. \A i \in 1 .. n : c.reqs[i].id = un + i - 1
  BY <1>1 DEF AskInv
<1>4. /\ c.closing => \A i \in 1 .. z : s.queue[i].call = "terminate"
      /\ ~c.closing => \A i \in 1 .. z : s.queue[i].id = sv + i - 1
  BY <1>1 DEF ServeInv
<1> HIDE DEF old, un, sv, n, z
<1>5. ASSUME NEW i \in 1 .. n PROVE c.reqs[i].id \in Nat /\ c.reqs[i].id >= 1 /\ c.reqs[i].id < nid /\ c.reqs[i].id >= sv
  <2>1. c.reqs[i].id = un + i - 1
    BY <1>3
  <2>2. un + i - 1 \in Nat /\ un + i - 1 >= 1 /\ un + i - 1 < nid /\ un + i - 1 >= sv
    BY <1>1, <1>2
  <2> QED BY <2>1, <2>2
<1>6. ASSUME NEW i \in 1 .. z, ~c.closing
      PROVE s.queue[i].id \in Nat /\ s.queue[i].id >= 1 /\ s.queue[i].id < nid /\ s.queue[i].id >= sv
  <2>1. s.queue[i].id = sv + i - 1
    BY <1>4, <1>6
  <2>2. sv = un - z
    BY <1>2, <1>6
  <2>3. sv + i - 1 \in Nat /\ sv + i - 1 >= 1 /\ sv + i - 1 < nid /\ sv + i - 1 >= sv
    BY <1>1, <1>2, <2>2
  <2> QED BY <2>1, <2>3
<1> QED BY <1>4, <1>5, <1>6 DEF n, z, sv

\* Once the live request is over, nobody begins a transaction.
LEMMA AskedOver ==
  ASSUME NEW c \in Conns, NEW s \in Sessions, NEW ib \in Seq(Msgs), NEW nid \in Nat, LineInv(c, s, ib, nid),
         NEW lv, NEW call, AskedInv(c, s, lv, call),
         s.up = "up" => lv = 0 \/ call # "begin" \/ (lv \in Nat /\ lv < Unserved(c, s, nid)), NEW x
  PROVE  AskedInv(c, s, 0, x)
<1> SUFFICES ASSUME s.up = "up", lv # 0 PROVE Begins(c.reqs, 0) /\ Begins(s.queue, 0)
  BY DEF AskedInv
<1>1. Begins(c.reqs, lv) /\ Begins(s.queue, lv) /\ Named(c.reqs, lv, call) /\ Named(s.queue, lv, call)
  BY DEF AskedInv
<1>2. CASE call # "begin"
  BY <1>1, <1>2 DEF Begins, Named
<1>3. CASE lv \in Nat /\ lv < Unserved(c, s, nid)
  <2> DEFINE sv == Unserved(c, s, nid)
  <2>1. sv \in Int
    BY Numbers
  <2>2. /\ \A i \in 1 .. Len(c.reqs) : c.reqs[i].id \in Nat /\ c.reqs[i].id >= sv
        /\ \A i \in 1 .. Len(s.queue) : s.queue[i].call = "terminate" \/ (s.queue[i].id \in Nat /\ s.queue[i].id >= sv)
    BY AskedIds
  <2> HIDE DEF sv
  <2>3. \A n \in Nat : n >= sv => n # lv
    BY <1>3, <2>1 DEF sv
  <2>4. Begins(c.reqs, 0)
    BY <1>1, <2>2, <2>3 DEF Begins
  <2>5. Begins(s.queue, 0)
    BY <1>1, <2>2, <2>3 DEF Begins
  <2> QED BY <2>4, <2>5
<1> QED BY <1>2, <1>3

\* A new request is not named yet.
LEMMA AskedFresh ==
  ASSUME NEW c \in Conns, NEW s \in Sessions, NEW ib \in Seq(Msgs), NEW nid \in Nat, LineInv(c, s, ib, nid),
         ~c.closing, NEW call, AskedInv(c, s, 0, call), NEW x
  PROVE  AskedInv(c, s, nid, x)
<1> SUFFICES ASSUME s.up = "up" PROVE AskedInv(c, s, nid, x)
  BY DEF AskedInv
<1>0. \A i \in 1 .. Len(s.queue) : s.queue[i].call # "terminate"
  BY DEF LineInv, ServeInv
<1>1. Begins(c.reqs, 0) /\ Begins(s.queue, 0)
  BY DEF AskedInv
<1>2. /\ \A i \in 1 .. Len(c.reqs) : c.reqs[i].id \in Nat /\ c.reqs[i].id >= 1 /\ c.reqs[i].id < nid
      /\ \A i \in 1 .. Len(s.queue) : s.queue[i].id \in Nat /\ s.queue[i].id >= 1 /\ s.queue[i].id < nid
  BY <1>0, AskedIds
<1>3. \A n \in Nat : (n >= 1 => n # 0) /\ (n < nid => n # nid)
  OBVIOUS
<1>4. Named(c.reqs, nid, x) /\ Named(s.queue, nid, x)
  BY <1>2, <1>3 DEF Named
<1>5. Begins(c.reqs, nid) /\ Begins(s.queue, nid)
  BY <1>1, <1>2, <1>3 DEF Begins
<1> QED BY <1>4, <1>5 DEF AskedInv

LEMMA AskedSent ==
  ASSUME NEW c \in Conns, NEW d, NEW s, NEW lv, NEW x, AskedInv(c, s, lv, x), NEW n \in Nat, NEW call \in Calls,
         d.reqs = Append(c.reqs, [id |-> n, call |-> call]), n = lv => call = x, call = "begin" => n = lv
  PROVE  AskedInv(d, s, lv, x)
<1> DEFINE e == [id |-> n, call |-> call]
<1>1. e \in Asked /\ c.reqs \in Seq(Asked) /\ e.id = n /\ e.call = call
  BY DEF Asked, Conns
<1>2. /\ Len(d.reqs) = Len(c.reqs) + 1 /\ d.reqs[Len(c.reqs) + 1] = e
      /\ \A i \in 1 .. Len(c.reqs) : d.reqs[i] = c.reqs[i]
      /\ \A i \in 1 .. Len(c.reqs) + 1 : i \in 1 .. Len(c.reqs) \/ i = Len(c.reqs) + 1
  BY <1>1, AppendIs
<1>3. \A i \in 1 .. Len(d.reqs) : d.reqs[i] = e \/ \E j \in 1 .. Len(c.reqs) : d.reqs[i] = c.reqs[j]
  BY <1>2
<1> HIDE DEF e
<1>4. Named(c.reqs, lv, x) => Named(d.reqs, lv, x)
  BY <1>1, <1>3 DEF Named
<1>5. Begins(c.reqs, lv) => Begins(d.reqs, lv)
  BY <1>1, <1>3 DEF Begins
<1> QED BY <1>4, <1>5 DEF AskedInv

\* The sender of the live request's answer is not gone before its end.
LEMMA Present ==
  ASSUME NEW c \in Conns, NEW s, NEW ib, NEW nid \in Nat, LineInv(c, s, ib, nid), c.reqs = <<>>,
         NEW lv \in Nat, lv = nid - 1, lv >= Oldest(c, nid)
  PROVE  ~Closes(c, lv)
<1> DEFINE old == Oldest(c, nid)
           n == Len(c.responses)
           i == lv - old + 1
<1>1. n \in Nat /\ old = nid - n /\ old \in Int
  <2>1. Len(c.reqs) = 0 /\ n \in Nat
    BY DEF Conns
  <2> QED BY <2>1 DEF Oldest
<1>2. \A j \in 1 .. n : c.responses[j] = old + j - 1
  BY DEF LineInv, AskInv
<1> HIDE DEF old, n
<1>3. lv >= old
  BY DEF old
<1>4. i \in 1 .. n /\ old + i - 1 = lv
  BY <1>1, <1>3
<1> HIDE DEF i
<1>5. c.responses[i] = lv
  BY <1>2, <1>4
<1>6. DOMAIN c.responses = 1 .. n
  BY DEF n, Conns
<1> QED BY <1>4, <1>5, <1>6 DEF Closes

LEMMA Staying ==
  ASSUME NEW c \in Conns, NEW s \in Sessions, NEW ib \in Seq(Msgs), NEW nid \in Nat, LineInv(c, s, ib, nid), c.reqs = <<>>,
         NEW lv \in Nat \ {0}, lv = nid - 1, NEW a, Whole(a, lv), \A i \in 1 .. Len(a) : Normal(a[i]),
         NEW q \in Nat, s.up = "up" => Left(a, q, s.stream)
  PROVE  Stays(a, lv, q, c, ib, s.up)
<1> SUFFICES ASSUME s.up = "up", NEW k \in Nat, Rest(a, lv, k, q, <<>>, ib), k < Len(a)
             PROVE  ~Closes(c, lv)
  BY DEF Stays
<1> DEFINE old == Oldest(c, nid)
           un == Unsent(c, nid)
           sv == Unserved(c, s, nid)
<1>1. /\ old \in Int /\ un \in Int /\ sv \in Int /\ ServeInv(old, sv, c.closing, s) /\ ArriveInv(old, un, sv, s, ib)
  BY LineParts
<1>2. k <= q /\ q <= Len(a) /\ Coming(a, lv, k, q, ib)
  <2>1. k + 0 = k
    OBVIOUS
  <2> QED BY <2>1, NoChan DEF Rest
<1>3. Len(a) \in Nat /\ \A i \in 1 .. Len(a) : a[i].of = lv
  BY DEF Whole
<1> HIDE DEF old, un, sv
<1>4. CASE k < q
  <2>1. k + 1 \in k + 1 .. q /\ k + 1 \in 1 .. Len(a)
    BY <1>2, <1>3, <1>4
  <2>2. PICK i \in 1 .. Len(ib) : ib[i] = a[k + 1]
    BY <1>2, <2>1 DEF Coming
  <2>3. Normal(ib[i]) /\ ib[i].of = lv
    BY <1>3, <2>1, <2>2
  <2>4. lv >= old
    BY <1>1, <2>3 DEF ArriveInv, Belongs
  <2> QED BY <2>4, Present DEF old
<1>5. CASE k = q
  <2>1. Len(s.stream) = Len(a) - q /\ \A i \in 1 .. Len(s.stream) : s.stream[i] = a[q + i]
    BY DEF Left
  <2>2. 1 \in 1 .. Len(s.stream) /\ q + 1 \in 1 .. Len(a)
    BY <1>3, <1>5, <2>1
  <2>3. s.stream[1] = a[q + 1] /\ a[q + 1].of = lv
    BY <1>3, <2>1, <2>2
  <2>4. s.stream # <<>> /\ s.stream[1].of = sv - 1
    BY <1>1, <2>2 DEF ServeInv
  <2>5. sv > old
    BY <1>1, <2>4 DEF ServeInv
  <2>6. lv >= old
    BY <1>1, <2>3, <2>4, <2>5
  <2> QED BY <2>6, Present DEF old
<1> QED BY <1>2, <1>4, <1>5

\* The call has its outcome and its Responses is gone.
LEMMA CallDone ==
  ASSUME SyncInv, op.call # "idle", op'.call = op.call, op'.id = op.id, op'.timer = op.timer,
         op'.r.call = op.r.call, op'.r.res # Pending, ~(op'.r.call \in Streams /\ op'.r.res.is = "ok"),
         live' = 0, plan' = plan, conn'.chan = <<>>,
         handle'.iter = handle.iter, handle'.given = handle.given, handle'.client = handle.client,
         conn'.closed /\ server'.up = "up" => conn.closed /\ server.up = "up",
         NEW x, AskedInv(conn', server', 0, x), TxInv(op', handle', plan', server')
  PROVE  LiveParts'
<1>1. /\ CallInv(op, live, plan) /\ HandleInv(op, handle, live, plan)
      /\ LastInv(op, handle, live, conn, server.up, nextId)
  BY DEF SyncInv, LiveParts
<1>2. CallInv(op', 0, plan')
  BY <1>1 DEF CallInv
<1>3. HandleInv(op', handle', 0, plan')
  BY <1>1 DEF HandleInv
<1>4. LastInv(op', handle', 0, conn', server'.up, nextId')
  BY <1>1 DEF LastInv
<1>5. AskedInv(conn', server', 0, Own(op', handle').call)
  BY DEF AskedInv
<1>6. ChanInv(conn'.chan, 0, inbox', server'.up)
  BY ChanNone
<1>7. LiveInv(op', handle', 0, plan', conn', inbox', server', nextId')
  BY DEF LiveInv
<1> QED BY <1>2, <1>3, <1>4, <1>5, <1>6, <1>7 DEF LiveParts

\* What is known when a call's future is polled.
Future(c, t) ==
  /\ op \in Ops /\ op.r \in Readers /\ conn \in Conns /\ server \in Sessions /\ live \in Nat /\ nextId \in Nat \ {0}
  /\ inbox \in Seq(Msgs) /\ conn.chan \in Seq(Msgs)
  /\ op.call # "idle" /\ op.r.res = Pending
  /\ c \in Conns /\ c.reqs = <<>> /\ c.chan = conn.chan /\ (c.closed <=> conn.closed)
  /\ t \in Sessions /\ t.up = server.up /\ t.stream = server.stream /\ t.tx = server.tx
  /\ LineInv(c, t, inbox, nextId) /\ AskedInv(c, t, live, Own(op, handle).call)
  /\ t.up = "up" => Unserved(c, t, nextId) = Unserved(conn, server, nextId)
  /\ CallInv(op, live, plan) /\ HandleInv(op, handle, live, plan)
  /\ LastInv(op, handle, live, conn, server.up, nextId)
  /\ ChanInv(conn.chan, live, inbox, server.up) /\ TxInv(op, handle, plan, server)
  /\ LiveInv(op, handle, live, plan, conn, inbox, server, nextId)
  /\ server.up # "up" => ~server.tx

\* A poll of the future, by what it does first.
LEMMA FutureIs ==
  ASSUME SyncInv, PollFuture
  PROVE  /\ Future(poll_write(conn), Written(conn)) /\ inbox' = inbox /\ SvKept
         /\ LineInv(conn', server', inbox', nextId')
         /\ \/ Fail("closed") /\ UNCHANGED <<plan, handle>> /\ server.up # "up"
            \/ \E c \in {poll_write(conn)} :
                 server' = Written(conn) /\ (SendRequest(c) \/ ReadAnswer(c) \/ PopNotification(c) \/ AwaitDone(c))
<1> DEFINE c == poll_write(conn)
           t == Written(conn)
<1>1. /\ op \in Ops /\ op.r \in Readers /\ conn \in Conns /\ server \in Sessions /\ live \in Nat /\ nextId \in Nat \ {0}
      /\ inbox \in Seq(Msgs) /\ conn.chan \in Seq(Msgs)
  BY DEF SyncInv, TypeOK, Ops, Conns
<1>2. op.r.res = Pending /\ op # Idle /\ inbox' = inbox
  BY DEF PollFuture, Returned
<1>3. /\ CallInv(op, live, plan) /\ HandleInv(op, handle, live, plan) /\ TypeOK
      /\ LastInv(op, handle, live, conn, server.up, nextId) /\ AskedInv(conn, server, live, Own(op, handle).call)
      /\ ChanInv(conn.chan, live, inbox, server.up) /\ TxInv(op, handle, plan, server)
      /\ LiveInv(op, handle, live, plan, conn, inbox, server, nextId)
      /\ LineInv(conn, server, inbox, nextId)
  BY DEF SyncInv, LiveParts
<1>4. op.call # "idle"
  BY <1>2, <1>3 DEF CallInv
<1>5. server.up # "up" => ~server.tx
  BY <1>3 DEF LineInv, ServeInv
<1>6. /\ c \in Conns /\ c.reqs = <<>> /\ c.chan = conn.chan /\ (c.closed <=> conn.closed)
      /\ t \in Sessions /\ t.up = server.up /\ t.stream = server.stream /\ t.tx = server.tx
  BY <1>1, WriteIs, WrittenIs
<1>7. LineInv(c, t, inbox, nextId) /\ (t.up = "up" => Unserved(c, t, nextId) = Unserved(conn, server, nextId))
  BY <1>1, <1>3, <1>6, LineWrite
<1>8. AskedInv(c, t, live, Own(op, handle).call)
  BY <1>1, <1>3, AskedWritten
<1>9. SvKept /\ LineInv(conn', server', inbox', nextId')
  BY <1>3, LinePollFuture DEF Line
<1>10. \/ Fail("closed") /\ UNCHANGED <<plan, handle>> /\ server.up # "up"
       \/ \E b \in {poll_write(conn)} :
            server' = Written(conn) /\ (SendRequest(b) \/ ReadAnswer(b) \/ PopNotification(b) \/ AwaitDone(b))
  BY DEF PollFuture
<1>11. Future(c, t)
  <2> HIDE DEF c, t
  <2> QED BY <1>1, <1>2, <1>3, <1>4, <1>5, <1>6, <1>7, <1>8 DEF Future
<1> QED BY <1>2, <1>9, <1>10, <1>11

\* A call that is refused, or whose session has ended, fails.
LEMMA LiveRefused ==
  ASSUME SyncInv, NEW c, NEW t, Future(c, t), t.up # "up", server' = t,
         op' = [op EXCEPT !.r = op'.r], op'.r \in Readers, op'.r.call = op.r.call, Down(server.up, op'.r),
         live' = 0, plan' = plan, conn'.chan = <<>>, handle' = handle
  PROVE  LiveParts' /\ OwnAnswer'
<1>1. op \in Ops /\ op.call # "idle" /\ server.up # "up" /\ ~t.tx /\ t.up = server.up
  BY DEF Future
<1>2. op'.call = op.call /\ op'.id = op.id /\ op'.timer = op.timer
  BY <1>1 DEF Ops
<1>3. PICK why \in {"closed", "db"} : op'.r.res = Result("err", <<>>, 0, why)
  BY DEF Down
<1>4. op'.r.res.is = "err" /\ op'.r.res # Pending
  <2>1. Result("err", <<>>, 0, why).is = "err"
    BY DEF Result
  <2>2. Pending.is = "pending"
    BY DueIs
  <2> QED BY <1>3, <2>1, <2>2
<1>5. AskedInv(conn', server', 0, "idle")
  BY <1>1 DEF AskedInv
<1>6. TxInv(op', handle', plan', server')
  BY <1>1 DEF TxInv
<1>7. LiveParts'
  BY <1>1, <1>2, <1>4, <1>5, <1>6, CallDone
<1>8. OwnAnswer'
  <2>1. op'.r.res = Err(op'.r, why).res
    BY <1>3 DEF Err, Readers
  <2>2. server'.up # "up"
    BY <1>1
  <2> QED BY <2>1, <2>2 DEF OwnAnswer
<1> QED BY <1>7, <1>8

\* The first poll sends the request.
LEMMA LiveSends ==
  ASSUME SyncInv, NEW c, NEW t, Future(c, t), server' = t, inbox' = inbox, SvKept, SendRequest(c)
  PROVE  LiveParts' /\ OwnAnswer'
<1>1. /\ op.call \in Requests /\ op.id = 0 /\ op \in Ops /\ op.r \in Readers /\ op.r.res = Pending /\ op.call # "idle"
      /\ CallInv(op, live, plan) /\ HandleInv(op, handle, live, plan) /\ LastInv(op, handle, live, conn, server.up, nextId)
      /\ nextId \in Nat \ {0} /\ c \in Conns /\ t \in Sessions /\ c.chan = conn.chan /\ (c.closed <=> conn.closed)
      /\ t.up = server.up /\ inbox \in Seq(Msgs) /\ conn \in Conns /\ server \in Sessions
  BY DEF Future, SendRequest
<1>2. op.call \notin NotificationIters \cup {"close", "drop_client", "next", "idle"}
  BY <1>1, CallTypes
<1>3. live = 0 /\ plan = NoPlan /\ op.r = Reader(op.call) /\ op.r.call = op.call
  BY <1>1, <1>2 DEF CallInv
<1>4. c.chan = <<>>
  BY <1>1, <1>3 DEF Future, ChanInv
<1>5. CASE c.closed
  <2>1. op' = [op EXCEPT !.r = Err(op.r, "closed")] /\ conn' = c /\ live' = live /\ plan' = plan /\ handle' = handle
    BY <1>5 DEF SendRequest, Closed
  <2>2. server.up # "up"
    BY <1>1, <1>2, <1>5 DEF LastInv, HandleInv
  <2>3. op'.r = Err(op.r, "closed") /\ op' = [op EXCEPT !.r = op'.r]
    BY <1>1, <2>1 DEF Ops
  <2>4. op'.r \in Readers /\ op'.r.call = op.r.call
    BY <1>1, <2>3, OutcomeType
  <2>5. Down(server.up, op'.r)
    BY <1>1, <2>2, <2>3, DownIs
  <2> QED BY <1>1, <1>3, <1>4, <2>1, <2>2, <2>3, <2>4, <2>5, LiveRefused
<1>6. CASE ~c.closed
  <2> DEFINE n == nextId
  <2>1. /\ op' = [op EXCEPT !.id = n] /\ conn' = send(c, op.call) /\ live' = n /\ nextId' = n + 1 /\ plan' = NoPlan
        /\ handle' = handle
    BY <1>6 DEF SendRequest
  <2>2. op'.call = op.call /\ op'.r = op.r /\ op'.id = n /\ op'.timer = op.timer
    BY <1>1, <2>1 DEF Ops
  <2>3. op.call \in Calls
    BY <1>1 DEF Ops
  <2>4. conn'.chan = <<>> /\ ~conn'.closed /\ conn'.reqs = Append(c.reqs, [id |-> n, call |-> op.call])
    BY <1>1, <1>4, <1>6, <2>1, <2>3, SendIs
  <2>5. LineInv(c, t, inbox, n) /\ AskedInv(c, t, 0, Own(op, handle).call) /\ TxInv(op, handle, NoPlan, server)
    BY <1>3 DEF Future
  <2>6. ~c.closing
    BY <1>6, <2>5 DEF LineInv, AskInv
  <2>7. /\ n \in Nat /\ n # 0 /\ n - 0 = n /\ n + 1 - 1 = n
    BY <1>1
  <2>8. CallInv(op', n, NoPlan)
    BY <1>1, <1>2, <1>3, <2>2, <2>7 DEF CallInv
  <2>9. HandleInv(op', handle, n, NoPlan)
    BY <1>1, <1>2, <2>2 DEF HandleInv
  <2>10. LastInv(op', handle, n, conn', server'.up, n + 1)
    BY <2>4, <2>7 DEF LastInv
  <2>11. AskedInv(conn', t, n, op.call)
    <3>1. AskedInv(c, t, n, op.call)
      BY <1>1, <2>5, <2>6, <2>7, AskedFresh
    <3> QED BY <1>1, <2>3, <2>4, <2>7, <3>1, AskedSent
  <2>12. Own(op', handle).call = op.call
    BY <1>2, <1>3, <2>2 DEF Own
  <2>13. ChanInv(conn'.chan, n, inbox', server'.up)
    BY <2>4, ChanNone
  <2>14. TxInv(op', handle, NoPlan, t)
    <3>1. t.tx = server.tx
      BY DEF Future
    <3> QED BY <2>2, <2>5, <3>1, TxSame
  <2>15. Unanswered(op', n, conn'.chan, inbox', server'.up, Unserved(conn', server', n + 1))
    <3>1. OwnLen(conn'.chan) = 0
      BY <2>4, NoChan
    <3>2. \A i \in 1 .. Len(inbox) : inbox[i].of # n
      <4> DEFINE old == Oldest(c, n)
                 un == Unsent(c, n)
                 sv == Unserved(c, t, n)
      <4>1. un \in Int /\ un <= n /\ ArriveInv(old, un, sv, t, inbox)
        BY <1>1, <2>5, <2>7, LineParts
      <4>2. \A i \in 1 .. Len(inbox) : inbox[i].of \in Nat
        BY <1>1, OfNat
      <4> HIDE DEF old, un, sv
      <4>3. ASSUME NEW i \in 1 .. Len(inbox) PROVE inbox[i].of = 0 \/ inbox[i].of < un
        BY <4>1 DEF ArriveInv, Belongs, Fatal
      <4> QED BY <2>7, <4>1, <4>2, <4>3
    <3>3. server'.up = "up" => n >= Unserved(conn', server', n + 1)
      <4>1. Unserved(conn, server, n) <= n
        <5>1. /\ Unserved(conn, server, n) \in Int /\ Unsent(conn, n) \in Int
              /\ Unserved(conn, server, n) <= Unsent(conn, n) /\ Unsent(conn, n) <= n
          BY <1>1, <2>7, Numbers
        <5> HIDE DEF n
        <5> QED BY <2>7, <5>1
      <4>2. server'.up = "up" => Unserved(conn', server', n + 1) = Unserved(conn, server, n)
        BY <2>1 DEF SvKept
      <4>3. Unserved(conn, server, n) \in Int
        BY <1>1, <2>7, Numbers
      <4> HIDE DEF n
      <4> QED BY <2>7, <4>1, <4>2, <4>3
    <3> HIDE DEF n
    <3> QED BY <1>1, <1>3, <2>2, <3>1, <3>2, <3>3 DEF Unanswered
  <2>16. LiveInv(op', handle, n, NoPlan, conn', inbox', server', n + 1)
    BY <2>15 DEF LiveInv
  <2>17. LiveParts'
    BY <2>1, <2>8, <2>9, <2>10, <2>11, <2>12, <2>13, <2>14, <2>16 DEF LiveParts
  <2>18. OwnAnswer'
    BY <1>1, <2>2, NotReturned
  <2> QED BY <2>17, <2>18
<1> QED BY <1>5, <1>6

\* A call that asks for nothing waits, or has its outcome.
LEMMA LiveAlone ==
  ASSUME SyncInv, NEW c, NEW t, Future(c, t), server' = t, inbox' = inbox, SvKept, op.call \notin Asks,
         \/ op' = op
         \/ \E res : op' = [op EXCEPT !.r.res = res] /\ res # Pending,
         live' = live, plan' = plan, nextId' = nextId, conn'.chan = c.chan, conn'.closed = c.closed, conn'.reqs = c.reqs,
         handle'.iter = handle.iter, handle'.given = handle.given, handle'.client = handle.client, handle'.tx = handle.tx
  PROVE  LiveParts' /\ OwnAnswer'
<1>1. /\ op \in Ops /\ op.r \in Readers /\ op.r.res = Pending /\ op.call # "idle" /\ (c.closed <=> conn.closed)
      /\ CallInv(op, live, plan) /\ AskedInv(c, t, live, Own(op, handle).call) /\ TxInv(op, handle, plan, server)
      /\ ChanInv(conn.chan, live, inbox, server.up) /\ c.chan = conn.chan
      /\ t.up = server.up /\ t.tx = server.tx
  BY DEF Future
<1>2. live = 0 /\ plan = NoPlan /\ op.r.call = op.call /\ (op.timer => op.call = "is_valid") /\ c.chan = <<>>
  BY <1>1 DEF CallInv, ChanInv, Asks
<1>3. AskedInv(conn', server', live, Own(op, handle).call)
  BY <1>1, AskedSame
<1>4. op.call \notin {"begin", "commit", "rollback", "drop_tx"} \cup Streams \cup Requests
  BY CallTypes DEF Asks, Requests
<1>5. CASE op' = op
  <2>1. LiveParts'
    BY <1>1, <1>2, <1>3, <1>5, LiveCarried
  <2> QED BY <1>1, <1>5, <2>1, NotReturned
<1>6. CASE \E res : op' = [op EXCEPT !.r.res = res] /\ res # Pending
  <2>1. PICK res : op' = [op EXCEPT !.r.res = res] /\ res # Pending
    BY <1>6
  <2>2. /\ op'.call = op.call /\ op'.id = op.id /\ op'.timer = op.timer /\ op'.r.call = op.r.call
        /\ op'.r.res # Pending
    BY <1>1, <2>1 DEF Ops, Readers
  <2>3. TxInv(op', handle', plan', server')
    BY <1>1, <1>4 DEF TxInv
  <2>4. LiveParts'
    BY <1>1, <1>2, <1>3, <1>4, <2>2, <2>3, CallDone
  <2>5. OwnAnswer'
    BY <1>4, <2>2 DEF OwnAnswer, Asks
  <2> QED BY <2>4, <2>5
<1> QED BY <1>5, <1>6

\* An iterator takes the notification that is queued.
LEMMA LivePops ==
  ASSUME SyncInv, NEW c, NEW t, Future(c, t), server' = t, inbox' = inbox, SvKept,
         PopNotification(c) \/ AwaitDone(c)
  PROVE  LiveParts' /\ OwnAnswer'
<1>1. c \in Conns /\ op \in Ops /\ op.r \in Readers
  BY DEF Future
<1>2. op.call \in NotificationIters \cup {"close", "drop_client"}
  BY DEF PopNotification, AwaitDone
<1>3. op.call \notin Asks
  BY <1>2 DEF Asks, NotificationIters, Requests, Bound
<1>4. Result("ok", <<Head(c.notifications)>>, 0, "") # Pending /\ Result("none", <<>>, 0, "") # Pending
  <2>1. Result("ok", <<Head(c.notifications)>>, 0, "").is = "ok" /\ Result("none", <<>>, 0, "").is = "none"
    BY DEF Result
  <2> QED BY <2>1, DueIs
<1>5. \A items, n : Result("ok", items, n, "") # Pending
  <2>1. \A items, n : Result("ok", items, n, "").is = "ok"
    BY DEF Result
  <2> QED BY <2>1, DueIs
<1>6. live' = live /\ plan' = plan /\ nextId' = nextId
  BY DEF PopNotification, AwaitDone
<1>7. \/ op' = op
      \/ \E res : op' = [op EXCEPT !.r.res = res] /\ res # Pending
  <2>1. CASE PopNotification(c)
    BY <1>4, <2>1 DEF PopNotification
  <2>2. CASE AwaitDone(c)
    <3>1. Ok(op.r) = [op.r EXCEPT !.res = Result("ok", op.r.items, op.r.n, "")]
      BY DEF Ok
    <3> QED BY <1>5, <2>2, <3>1 DEF AwaitDone
  <2> QED BY <2>1, <2>2
<1>8. conn'.chan = c.chan /\ conn'.closed = c.closed /\ conn'.reqs = c.reqs
  BY <1>1 DEF PopNotification, AwaitDone, Conns
<1>9. handle'.iter = handle.iter /\ handle'.given = handle.given /\ handle'.client = handle.client /\ handle'.tx = handle.tx
  <2>1. handle \in Handles
    BY DEF SyncInv, TypeOK
  <2> QED BY <2>1 DEF PopNotification, AwaitDone, Handles
<1> QED BY <1>3, <1>6, <1>7, <1>8, <1>9, LiveAlone

\* Nothing of the answer is there yet: the future waits, or the session has ended.
LEMMA PolledNone ==
  ASSUME NEW r \in Readers, r.res = Pending, NEW c, NEW ch \in Seq(Msgs), c.chan = ch, OwnLen(ch) = 0,
         NEW lv, NEW ib, NEW up, ChanInv(ch, lv, ib, up), up = "up" => ~Closes(c, lv)
  PROVE  \/ Polled(r, c, lv).r = r /\ Polled(r, c, lv).chan = <<>> /\ ch = <<>>
         \/ Down(up, Polled(r, c, lv).r)
<1> DEFINE p == Polled(r, c, lv)
<1>1. Len(ch) \in Nat /\ (Len(ch) = 0 \/ (Len(ch) = 1 /\ Fatal(ch[1])))
  <2>1. /\ Len(ch) \in Nat /\ (OwnLen(ch) = Len(ch) \/ (Len(ch) >= 1 /\ OwnLen(ch) = Len(ch) - 1 /\ Fatal(ch[Len(ch)])))
    BY OwnLenIs
  <2>2. CASE OwnLen(ch) = Len(ch)
    BY <2>1, <2>2
  <2>3. CASE Len(ch) >= 1 /\ OwnLen(ch) = Len(ch) - 1 /\ Fatal(ch[Len(ch)])
    <3>1. Len(ch) = 1
      <4> DEFINE n == Len(ch)
      <4>1. n \in Nat /\ n - 1 = 0
        BY <2>1, <2>3
      <4> HIDE DEF n
      <4> QED BY <4>1 DEF n
    <3>2. Fatal(ch[1])
      BY <2>3, <3>1
    <3> QED BY <2>1, <3>1, <3>2
  <2> QED BY <2>1, <2>2, <2>3
<1>2. CASE Len(ch) = 0
  <2>1. p = [r |-> Ended(r, c, lv), chan |-> <<>>]
    BY <1>2, PolledIs
  <2>2. p.r = Ended(r, c, lv) /\ p.chan = <<>> /\ ch = <<>>
    BY <1>2, <2>1, ShortSeq
  <2>3. CASE Closes(c, lv)
    <3>1. p.r = Err(r, "closed") /\ up # "up"
      BY <2>2, <2>3 DEF Ended
    <3> QED BY <3>1, DownIs
  <2>4. CASE ~Closes(c, lv)
    BY <2>2, <2>4 DEF Ended
  <2> QED BY <2>3, <2>4
<1>3. CASE Len(ch) = 1 /\ Fatal(ch[1])
  <2>1. p = [r |-> Ended(poll(r, ch[1]), c, lv), chan |-> <<>>]
    BY <1>3, PolledIs
  <2>2. 1 \in 1 .. Len(ch)
    BY <1>3
  <2>3. up # "up"
    BY <1>3, <2>2 DEF ChanInv
  <2>4. poll(r, ch[1]) = Err(r, "db") /\ Err(r, "db").res # Pending
    BY <1>3, DownIs
  <2>5. Ended(Err(r, "db"), c, lv) = Err(r, "db")
    BY <2>4 DEF Ended
  <2>6. p.r = Err(r, "db")
    BY <2>1, <2>4, <2>5
  <2> QED BY <2>3, <2>6, DownIs
<1> QED BY <1>1, <1>2, <1>3

\* What a future leaves in its channel.
LEMMA PolledChan ==
  ASSUME NEW r \in Readers, r.res = Pending, NEW c, NEW ch \in Seq(Msgs), c.chan = ch,
         NEW lv, NEW ib, NEW up, ChanInv(ch, lv, ib, up), lv # 0
  PROVE  ChanInv(Polled(r, c, lv).chan, lv, ib, up)
<1> DEFINE p == Polled(r, c, lv)
<1>1. Len(ch) \in Nat /\ Len(ch) <= 2 /\ \A i \in 1 .. Len(ch) : Fatal(ch[i]) => i = Len(ch) /\ up # "up" /\ ib = <<>>
  BY DEF ChanInv, ChanCap
<1>2. p.chan = <<>> \/ (Len(ch) = 2 /\ p.chan = <<ch[2]>>)
  <2>1. CASE Len(ch) = 0
    <3>1. p = [r |-> Ended(r, c, lv), chan |-> <<>>]
      BY <2>1, PolledIs
    <3> QED BY <3>1
  <2>2. CASE Len(ch) = 1
    <3>1. p = [r |-> Ended(poll(r, ch[1]), c, lv), chan |-> <<>>]
      BY <2>2, PolledIs
    <3> QED BY <3>1
  <2>3. CASE Len(ch) > 1 /\ poll(r, ch[1]).res = Pending
    <3>1. p = [r |-> Ended(poll(poll(r, ch[1]), ch[2]), c, lv), chan |-> <<>>]
      BY <1>1, <2>3, PolledIs
    <3> QED BY <3>1
  <2>4. CASE Len(ch) > 1 /\ poll(r, ch[1]).res # Pending
    <3>1. p = [r |-> poll(r, ch[1]), chan |-> <<ch[2]>>]
      BY <1>1, <2>4, PolledIs
    <3>2. p.chan = <<ch[2]>>
      BY <3>1
    <3>3. Len(ch) = 2
      <4> DEFINE n == Len(ch)
      <4>1. n \in Nat /\ n <= 2 /\ n > 1
        BY <1>1, <2>4
      <4> HIDE DEF n
      <4>2. n = 2
        BY <4>1
      <4> QED BY <4>2 DEF n
    <3> QED BY <3>2, <3>3
  <2>5. Len(ch) = 0 \/ Len(ch) = 1 \/ Len(ch) > 1
    <3> DEFINE n == Len(ch)
    <3>1. n \in Nat
      BY <1>1
    <3> HIDE DEF n
    <3>2. n = 0 \/ n = 1 \/ n > 1
      BY <3>1
    <3> QED BY <3>2 DEF n
  <2> HIDE DEF p
  <2> QED BY <2>1, <2>2, <2>3, <2>4, <2>5
<1> HIDE DEF p
<1>3. CASE p.chan = <<>>
  BY <1>3, ChanNone DEF p
<1>4. CASE Len(ch) = 2 /\ p.chan = <<ch[2]>>
  <2>1. 2 \in 1 .. Len(ch)
    BY <1>4
  <2>2. Fatal(ch[2]) => up # "up" /\ ib = <<>>
    BY <1>1, <2>1
  <2>3. Len(p.chan) = 1 /\ p.chan[1] = ch[2]
    BY <1>4
  <2>4. \A i \in 1 .. Len(p.chan) : i = 1
    BY <2>3
  <2>5. \A i \in 1 .. Len(p.chan) : Fatal(p.chan[i]) => i = Len(p.chan) /\ up # "up" /\ ib = <<>>
    BY <2>2, <2>3, <2>4
  <2>6. Len(p.chan) <= ChanCap
    BY <2>3 DEF ChanCap
  <2> QED BY <2>5, <2>6 DEF ChanInv, p
<1> QED BY <1>2, <1>3, <1>4

\* What a call that reads has read, then.
LEMMA Readings ==
  ASSUME NEW c, NEW t, Future(c, t), op.id # 0
  PROVE  /\ live = op.id /\ live # 0 /\ live = nextId - 1 /\ op.call \in Asks
         /\ plan = NoPlan =>
              \/ Polled(op.r, c, live).r = op.r /\ Polled(op.r, c, live).chan = <<>> /\ c.chan = <<>>
              \/ Down(server.up, Polled(op.r, c, live).r)
         /\ plan # NoPlan =>
              /\ op.r.call \in Requests /\ plan \in Plans(op.r.call)
              /\ server.up = "up" => live < Unserved(conn, server, nextId)
              /\ \/ Down(server.up, Polled(op.r, c, live).r)
                 \/ \E q \in Nat :
                      /\ ReadUp(op.call, Polled(op.r, c, live).r, Polled(op.r, c, live).chan, handle.given, live, plan,
                                Answer(op.r.call, live, plan), q, inbox)
                      /\ server.up = "up" => Left(Answer(op.r.call, live, plan), q, server.stream)
<1> DEFINE sv == Unserved(conn, server, nextId)
           up == server.up
<1>1. /\ op.r \in Readers /\ op.r.res = Pending /\ op.call # "idle" /\ live \in Nat /\ nextId \in Nat \ {0}
      /\ CallInv(op, live, plan) /\ HandleInv(op, handle, live, plan) /\ LastInv(op, handle, live, conn, up, nextId)
      /\ c \in Conns /\ t \in Sessions /\ c.reqs = <<>> /\ c.chan = conn.chan /\ conn.chan \in Seq(Msgs)
      /\ inbox \in Seq(Msgs) /\ LineInv(c, t, inbox, nextId) /\ t.up = up /\ t.stream = server.stream
      /\ LiveInv(op, handle, live, plan, conn, inbox, server, nextId)
      /\ ChanInv(conn.chan, live, inbox, up)
      /\ t.up = "up" => Unserved(c, t, nextId) = sv
  BY DEF Future
<1>2. live = op.id /\ live # 0 /\ live = nextId - 1 /\ op.call \in Asks
  BY <1>1 DEF CallInv, LastInv
<1>3. Own(op, handle) = op.r
  BY <1>1 DEF Own
<1>4. ASSUME plan = NoPlan
      PROVE  \/ Polled(op.r, c, live).r = op.r /\ Polled(op.r, c, live).chan = <<>> /\ c.chan = <<>>
             \/ Down(up, Polled(op.r, c, live).r)
  <2>1. OwnLen(conn.chan) = 0 /\ (up = "up" => live >= sv)
    BY <1>1, <1>2, <1>4 DEF LiveInv, Unanswered
  <2>2. up = "up" => ~Closes(c, live)
    <3> SUFFICES ASSUME up = "up" PROVE ~Closes(c, live)
      OBVIOUS
    <3>1. sv >= Oldest(c, nextId) /\ sv \in Int /\ Oldest(c, nextId) \in Int
      BY <1>1, LineParts
    <3> HIDE DEF sv, up
    <3>2. live >= Oldest(c, nextId)
      BY <1>1, <2>1, <3>1
    <3> QED BY <1>1, <1>2, <3>2, Present
  <2> HIDE DEF up
  <2> QED BY <1>1, <2>1, <2>2, PolledNone
<1>5. ASSUME plan # NoPlan
      PROVE  /\ op.r.call \in Requests /\ plan \in Plans(op.r.call) /\ (up = "up" => live < sv)
             /\ \/ Down(up, Polled(op.r, c, live).r)
                \/ \E q \in Nat :
                     /\ ReadUp(op.call, Polled(op.r, c, live).r, Polled(op.r, c, live).chan, handle.given, live, plan,
                               Answer(op.r.call, live, plan), q, inbox)
                     /\ up = "up" => Left(Answer(op.r.call, live, plan), q, server.stream)
  <2> DEFINE a == Answer(op.r.call, live, plan)
  <2>1. Answering(op.call, op.r, handle.given, live, plan, conn.chan, inbox, server, sv)
    BY <1>1, <1>2, <1>3, <1>5 DEF LiveInv
  <2>2. op.r.call \in Requests /\ plan \in Plans(op.r.call) /\ (up = "up" => live < sv)
    BY <2>1 DEF Answering
  <2>3. PICK k, q \in Nat : /\ ReadTo(op.call, op.r, handle.given, live, plan, k) /\ Rest(a, live, k, q, conn.chan, inbox)
                            /\ up = "up" => Left(a, q, server.stream)
    BY <2>1 DEF Answering, Reading
  <2>4. Whole(a, live) /\ Placed(a, op.r.call, live, plan) /\ \A i \in 1 .. Len(a) : Normal(a[i])
    <3>1. op.r.call \in Calls /\ live \in Nat \ {0} /\ live \in Nat
      BY <1>1, <1>2, <2>2, CallTypes
    <3>2. Whole(a, live) /\ Placed(a, op.r.call, live, plan)
      BY <2>2, <3>1, AnswerWhole
    <3> HIDE DEF a
    <3> QED BY <2>2, <3>1, <3>2, AnswerParts
  <2> HIDE DEF a, sv, up
  <2>5. Stays(a, live, q, c, inbox, up)
    BY <1>1, <1>2, <2>3, <2>4, Staying
  <2>6. op.call = "next" => op.r.call \in Streams
    BY <1>1 DEF HandleInv
  <2>7. Len(conn.chan) <= ChanCap /\ \A i \in 1 .. Len(conn.chan) : Fatal(conn.chan[i]) => i = Len(conn.chan) /\ up # "up"
    BY <1>1 DEF ChanInv
  <2>8. \/ ReadUp(op.call, Polled(op.r, c, live).r, Polled(op.r, c, live).chan, handle.given, live, plan, a, q, inbox)
        \/ Down(up, Polled(op.r, c, live).r)
    BY <1>1, <1>2, <2>2, <2>3, <2>4, <2>5, <2>6, <2>7, PolledOutcome
  <2> QED BY <2>2, <2>3, <2>8 DEF a
<1> QED BY <1>2, <1>4, <1>5

\* Return, case by case: the future waits, hands out its stream, or is done.
Keeps(r) == r.call \in Streams /\ r.res.is = "ok"
Drops(r) == r.res # Pending /\ ~Keeps(r)
\* A call that returns, and whether its Responses goes with it.
LEMMA ReturnIs ==
  ASSUME NEW r \in Readers, NEW c \in Conns, NEW ch \in Seq(Msgs), nextId \in Nat, op \in Ops, Return(r, c, ch)
  PROVE  /\ op' = [op EXCEPT !.r = r] /\ op'.r = r /\ op'.call = op.call /\ op'.id = op.id /\ op'.timer = op.timer
         /\ plan' = plan /\ handle' = handle /\ conn'.closed = c.closed
         /\ Drops(r) => live' = 0 /\ conn'.chan = <<>>
         /\ ~Drops(r) => live' = live /\ conn'.chan = ch
         /\ \/ conn'.reqs = c.reqs /\ nextId' = nextId
            \/ conn'.reqs = Append(c.reqs, [id |-> nextId, call |-> "rollback"]) /\ Drops(r)
<1>1. /\ op' = [op EXCEPT !.r = r] /\ plan' = plan /\ handle' = handle
      /\ Drops(r) => live' = 0
      /\ ~Drops(r) => live' = live
  BY DEF Return, Drops, Keeps
<1>2. op'.r = r /\ op'.call = op.call /\ op'.id = op.id /\ op'.timer = op.timer
  BY <1>1 DEF Ops
<1> DEFINE d == [c EXCEPT !.chan = IF Drops(r) THEN <<>> ELSE ch]
<1>3. d \in Conns /\ d.reqs = c.reqs /\ d.closed = c.closed /\ d.chan = IF Drops(r) THEN <<>> ELSE ch
  <2>1. (IF Drops(r) THEN <<>> ELSE ch) \in Seq(Msgs)
    BY Empty
  <2> QED BY <2>1 DEF Conns
<1>4. \/ conn' = d /\ nextId' = nextId
      \/ conn' = send(d, "rollback") /\ ~c.closed /\ r.call = "begin" /\ r.res.is = "err"
  BY DEF Return, Drops, Keeps
<1> HIDE DEF d
<1>5. CASE conn' = d /\ nextId' = nextId
  BY <1>1, <1>2, <1>3, <1>5
<1>6. CASE conn' = send(d, "rollback") /\ ~c.closed /\ r.call = "begin" /\ r.res.is = "err"
  <2>1. "rollback" \in Calls
    BY CallTypes DEF Requests
  <2>2. conn'.chan = d.chan /\ conn'.closed = d.closed /\ conn'.reqs = Append(d.reqs, [id |-> nextId, call |-> "rollback"])
    BY <1>3, <1>6, <2>1, SendIs
  <2>3. Drops(r)
    <3>1. r.res # Pending
      BY <1>6, DueIs
    <3>2. "begin" \notin Streams
      BY DEF Streams
    <3> QED BY <1>6, <3>1, <3>2 DEF Drops, Keeps
  <2> QED BY <1>1, <1>2, <1>3, <2>2, <2>3
<1> QED BY <1>4, <1>5, <1>6

\* Its requests, with the ROLLBACK of a failed begin.
LEMMA AskedReturn ==
  ASSUME NEW c \in Conns, NEW t \in Sessions, nextId \in Nat \ {0}, LineInv(c, t, inbox, nextId), inbox \in Seq(Msgs),
         NEW call, AskedInv(c, t, live, call),
         t.up = "up" => live = 0 \/ call # "begin" \/ (live \in Nat /\ live < Unserved(c, t, nextId)),
         \/ conn'.reqs = c.reqs
         \/ conn'.reqs = Append(c.reqs, [id |-> nextId, call |-> "rollback"])
  PROVE  AskedInv(conn', t, 0, call)
<1>1. AskedInv(c, t, 0, call)
  BY AskedOver
<1>2. CASE conn'.reqs = c.reqs
  BY <1>1, <1>2, AskedSame
<1>3. CASE conn'.reqs = Append(c.reqs, [id |-> nextId, call |-> "rollback"])
  <2>1. "rollback" \in Calls /\ nextId \in Nat /\ nextId # 0
    BY CallTypes DEF Requests
  <2> QED BY <1>1, <1>3, <2>1, AskedSent
<1> QED BY <1>2, <1>3

\* The call is done, with an outcome that is its own or because its time is up.
LEMMA LiveReturned ==
  ASSUME SyncInv, NEW c, NEW t, Future(c, t), op.id # 0, server' = t, inbox' = inbox,
         NEW r \in Readers, r.call = op.r.call, NEW ch \in Seq(Msgs), Return(r, c, ch), Drops(r),
         plan = NoPlan => op.call = "is_valid",
         op.call = "is_valid" \/ (server.up = "up" => live < Unserved(conn, server, nextId))
  PROVE  LiveParts'
<1>1. /\ op \in Ops /\ op.r \in Readers /\ nextId \in Nat \ {0} /\ nextId \in Nat /\ c \in Conns /\ t \in Sessions
      /\ LineInv(c, t, inbox, nextId) /\ inbox \in Seq(Msgs) /\ live \in Nat
      /\ AskedInv(c, t, live, Own(op, handle).call) /\ t.up = server.up /\ t.tx = server.tx
      /\ t.up = "up" => Unserved(c, t, nextId) = Unserved(conn, server, nextId)
      /\ CallInv(op, live, plan) /\ TxInv(op, handle, plan, server) /\ op.call # "idle" /\ (c.closed <=> conn.closed)
  BY DEF Future
<1>2. /\ op'.r = r /\ op'.call = op.call /\ op'.id = op.id /\ op'.timer = op.timer
      /\ plan' = plan /\ handle' = handle /\ conn'.closed = c.closed /\ live' = 0 /\ conn'.chan = <<>>
      /\ \/ conn'.reqs = c.reqs
         \/ conn'.reqs = Append(c.reqs, [id |-> nextId, call |-> "rollback"])
  BY <1>1, ReturnIs
<1>3. Own(op, handle) = op.r /\ (op.call = "is_valid" => op.r.call # "begin")
  BY <1>1 DEF Own, CallInv
<1>4. AskedInv(conn', t, 0, op.r.call)
  BY <1>1, <1>2, <1>3, AskedReturn
<1>5. TxInv(op', handle', plan', server')
  BY <1>1, <1>2 DEF TxInv
<1> QED BY <1>1, <1>2, <1>4, <1>5, CallDone DEF Drops, Keeps

\* The call has read on, and waits or hands out its stream.
LEMMA LiveReadOn ==
  ASSUME SyncInv, NEW c, NEW t, Future(c, t), op.id # 0, server' = t, inbox' = inbox, SvKept,
         plan # NoPlan, op.r.call \in Requests, plan \in Plans(op.r.call),
         server.up = "up" => live < Unserved(conn, server, nextId),
         NEW r \in Readers, r.call = op.r.call, NEW ch \in Seq(Msgs), Return(r, c, ch), ~Drops(r),
         ChanInv(ch, live, inbox, server.up), NEW k \in Nat, NEW q \in Nat,
         ReadTo(op.call, r, handle.given, live, plan, k),
         Rest(Answer(op.r.call, live, plan), live, k, q, ch, inbox),
         server.up = "up" => Left(Answer(op.r.call, live, plan), q, server.stream)
  PROVE  LiveParts'
<1>1. /\ op \in Ops /\ op.r \in Readers /\ nextId \in Nat /\ c \in Conns /\ t \in Sessions
      /\ live \in Nat /\ op.call # "idle" /\ op.r.res = Pending
      /\ AskedInv(c, t, live, Own(op, handle).call) /\ t.up = server.up /\ t.tx = server.tx /\ t.stream = server.stream
      /\ CallInv(op, live, plan) /\ TxInv(op, handle, plan, server) /\ (c.closed <=> conn.closed)
      /\ HandleInv(op, handle, live, plan) /\ LastInv(op, handle, live, conn, server.up, nextId)
  BY DEF Future
<1>2. /\ op'.r = r /\ op'.call = op.call /\ op'.id = op.id /\ op'.timer = op.timer
      /\ plan' = plan /\ handle' = handle /\ conn'.closed = c.closed /\ live' = live /\ conn'.chan = ch
      /\ conn'.reqs = c.reqs /\ nextId' = nextId
  BY <1>1, ReturnIs
<1>3. live # 0 /\ live = op.id
  BY <1>1 DEF CallInv
<1>4. CallInv(op', live, plan)
  <2>1. r.res # Pending => r.call \in Streams /\ r.res.is = "ok"
    BY DEF Drops, Keeps
  <2>2. op.call \in Asks
    BY <1>1 DEF CallInv
  <2> QED BY <1>1, <1>2, <1>3, <2>1, <2>2 DEF CallInv
<1>5. HandleInv(op', handle, live, plan)
  BY <1>1, <1>2 DEF HandleInv
<1>6. LastInv(op', handle, live, conn', t.up, nextId)
  BY <1>1, <1>2, LastSame
<1>7. Own(op', handle) = r /\ Own(op, handle) = op.r
  BY <1>1, <1>2 DEF Own
<1>8. AskedInv(conn', t, live, r.call)
  BY <1>1, <1>2, <1>7, AskedSame
<1>9. ChanInv(conn'.chan, live, inbox', t.up)
  BY <1>1, <1>2
<1>10. TxInv(op', handle, plan, t)
  BY <1>1, <1>2 DEF TxInv
<1>11. LiveInv(op', handle, live, plan, conn', inbox', t, nextId)
  <2> DEFINE sv == Unserved(conn', t, nextId)
  <2>1. t.up = "up" => live < sv
    BY <1>1, <1>2 DEF SvKept
  <2>2. Reading(op'.call, r, handle.given, live, plan, conn'.chan, inbox', t)
    BY <1>1, <1>2 DEF Reading
  <2>3. Answering(op'.call, Own(op', handle), handle.given, live, plan, conn'.chan, inbox', t, sv)
    BY <1>7, <2>1, <2>2 DEF Answering
  <2> QED BY <2>3 DEF LiveInv
<1> QED BY <1>2, <1>4, <1>5, <1>6, <1>7, <1>8, <1>9, <1>10, <1>11 DEF LiveParts

\* A poll that reads keeps the invariant.
LEMMA LiveReads ==
  ASSUME SyncInv, NEW c, NEW t, Future(c, t), server' = t, inbox' = inbox, SvKept, ReadAnswer(c)
  PROVE  LiveParts' /\ OwnAnswer'
<1> DEFINE p == Polled(op.r, c, live)
           r == IF op.timer /\ p.r.res = Pending THEN Err(p.r, "timeout") ELSE p.r
           ch == p.chan
<1>1. /\ op \in Ops /\ op.r \in Readers /\ op.r.res = Pending /\ op.call # "idle" /\ live \in Nat
      /\ nextId \in Nat /\ c \in Conns /\ t \in Sessions /\ c.chan = conn.chan /\ conn.chan \in Seq(Msgs)
      /\ t.up = server.up /\ t.tx = server.tx /\ t.stream = server.stream
      /\ CallInv(op, live, plan) /\ HandleInv(op, handle, live, plan)
      /\ ChanInv(conn.chan, live, inbox, server.up) /\ (c.closed <=> conn.closed)
      /\ AskedInv(c, t, live, Own(op, handle).call)
  BY DEF Future
<1>2. op.id # 0 /\ Return(r, c, ch)
  BY DEF ReadAnswer
<1>3. p.r \in Readers /\ p.r.call = op.r.call /\ ch \in Seq(Msgs)
  BY <1>1, PolledType
<1>4. /\ live = op.id /\ live # 0 /\ op.call \in Asks
      /\ plan = NoPlan => (p.r = op.r /\ ch = <<>> /\ c.chan = <<>>) \/ Down(server.up, p.r)
      /\ plan # NoPlan =>
           /\ op.r.call \in Requests /\ plan \in Plans(op.r.call)
           /\ server.up = "up" => live < Unserved(conn, server, nextId)
           /\ \/ Down(server.up, p.r)
              \/ \E q \in Nat :
                   /\ ReadUp(op.call, p.r, ch, handle.given, live, plan, Answer(op.r.call, live, plan), q, inbox)
                   /\ server.up = "up" => Left(Answer(op.r.call, live, plan), q, server.stream)
  BY <1>2, Readings
<1>5. ChanInv(ch, live, inbox, server.up)
  BY <1>1, <1>4, PolledChan
<1>6. op.timer => op.call = "is_valid"
  BY <1>1 DEF CallInv
<1>7. op.call \notin {"idle", "next"} => op.r.call = op.call
  BY <1>1 DEF CallInv
<1>8. CASE op.timer /\ p.r.res = Pending
  <2>1. r = Err(p.r, "timeout")
    BY <1>8
  <2>2. r \in Readers /\ r.call = op.r.call /\ r.res = Result("err", <<>>, 0, "timeout")
    <3>1. Err(p.r, "timeout") \in Readers /\ Err(p.r, "timeout").call = p.r.call
      BY <1>3, OutcomeType
    <3>2. Err(p.r, "timeout").res = Result("err", <<>>, 0, "timeout")
      BY <1>3 DEF Err, Readers
    <3> HIDE DEF p, r
    <3> QED BY <1>3, <2>1, <3>1, <3>2
  <2>3. Drops(r)
    <3>1. Result("err", <<>>, 0, "timeout").is = "err"
      BY DEF Result
    <3> HIDE DEF r
    <3> QED BY <2>2, <3>1, DueIs DEF Drops, Keeps
  <2> HIDE DEF p, r, ch
  <2>4. LiveParts'
    BY <1>2, <1>3, <1>6, <1>8, <2>2, <2>3, LiveReturned
  <2>5. op'.r = r /\ op'.timer = op.timer
    BY <1>1, <1>2, <1>3, <2>2, ReturnIs
  <2>6. OwnAnswer'
    <3>1. Err(op'.r, "timeout").res = Result("err", <<>>, 0, "timeout")
      BY <2>2, <2>5 DEF Err, Readers
    <3> QED BY <1>8, <2>2, <2>5, <3>1 DEF OwnAnswer
  <2> QED BY <2>4, <2>6
<1>9. CASE ~(op.timer /\ p.r.res = Pending)
  <2>1. r = p.r
    BY <1>9
  <2> HIDE DEF p, r, ch
  <2>2. /\ op'.r = r /\ op' = [op EXCEPT !.r = r] /\ op'.call = op.call /\ op'.id = op.id /\ op'.timer = op.timer
        /\ plan' = plan /\ handle' = handle /\ conn'.closed = c.closed
        /\ Drops(r) => live' = 0 /\ conn'.chan = <<>>
        /\ ~Drops(r) => live' = live /\ conn'.chan = ch /\ conn'.reqs = c.reqs /\ nextId' = nextId
    BY <1>1, <1>2, <1>3, <2>1, ReturnIs
  <2>3. CASE Down(server.up, p.r)
    <3>1. Drops(r) /\ server.up # "up"
      <4>1. PICK why \in {"closed", "db"} : r.res = Result("err", <<>>, 0, why)
        BY <2>1, <2>3 DEF Down
      <4>2. Result("err", <<>>, 0, why).is = "err"
        BY DEF Result
      <4> QED BY <2>3, <4>1, <4>2, DueIs DEF Drops, Keeps, Down
    <3> QED BY <1>1, <1>3, <2>1, <2>2, <2>3, <3>1, LiveRefused
  <2>4. CASE p.r = op.r /\ ch = <<>> /\ c.chan = <<>>
    <3>1. ~Drops(r) /\ op' = op
      BY <1>1, <2>1, <2>2, <2>4 DEF Drops, Ops
    <3>2. AskedInv(conn', server', live, Own(op, handle).call)
      BY <1>1, <2>2, <3>1, AskedSame
    <3>3. Moves(live, conn.chan, inbox, server, conn'.chan, inbox', server')
      BY <1>1, <2>2, <2>4, <3>1, MovesNot
    <3>4. LiveParts'
      BY <1>1, <1>5, <1>6, <2>2, <2>4, <3>1, <3>2, <3>3, LiveCarried
    <3> QED BY <1>1, <3>1, <3>4, NotReturned
  <2>5. ASSUME plan # NoPlan, NEW q \in Nat,
               ReadUp(op.call, p.r, ch, handle.given, live, plan, Answer(op.r.call, live, plan), q, inbox),
               server.up = "up" => Left(Answer(op.r.call, live, plan), q, server.stream)
        PROVE  LiveParts' /\ OwnAnswer'
    <3>1. PICK k \in Nat : /\ Outcome(op.call, r, handle.given, live, plan, k)
                           /\ Rest(Answer(op.r.call, live, plan), live, k, q, ch, inbox)
      BY <2>1, <2>5 DEF ReadUp
    <3>2. r \in Readers /\ r.call = op.r.call
      BY <1>3, <2>1
    <3>3. LiveParts'
      <4>1. CASE Drops(r)
        BY <1>2, <1>3, <1>4, <2>5, <3>2, <4>1, LiveReturned
      <4>2. CASE ~Drops(r)
        <5>1. ReadTo(op.call, r, handle.given, live, plan, k)
          BY <3>1, <4>2 DEF Outcome, Drops, Keeps
        <5> QED BY <1>2, <1>3, <1>4, <1>5, <2>5, <3>1, <3>2, <4>2, <5>1, LiveReadOn
      <4> QED BY <4>1, <4>2
    <3>4. OwnAnswer'
      <4>1. CASE r.res = Pending
        BY <2>2, <4>1, NotReturned
      <4>2. CASE r.res # Pending
        <5>1. r.res = Due(op.call, op.r.call, live, plan, handle.given)
          BY <3>1, <3>2, <4>2 DEF Outcome
        <5>2. op'.r.res = IF op'.call = "next" THEN PromisedItem(op'.r.call, op'.id, plan', handle'.given)
                          ELSE Promised(op'.call, op'.id, plan')
          BY <1>1, <1>4, <1>7, <2>2, <3>2, <5>1 DEF Due
        <5> QED BY <2>2, <2>5, <5>2 DEF OwnAnswer
      <4> QED BY <4>1, <4>2
    <3> QED BY <3>3, <3>4
  <2> QED BY <1>4, <2>3, <2>4, <2>5
<1> QED BY <1>8, <1>9

LEMMA LivePollFuture == SyncInv /\ PollFuture => LiveParts' /\ OwnAnswer'
<1> SUFFICES ASSUME SyncInv, PollFuture PROVE LiveParts' /\ OwnAnswer'
  OBVIOUS
<1> DEFINE c == poll_write(conn)
           t == Written(conn)
<1>1. /\ Future(c, t) /\ inbox' = inbox /\ SvKept
      /\ \/ Fail("closed") /\ UNCHANGED <<plan, handle>> /\ server.up # "up"
         \/ server' = t /\ (SendRequest(c) \/ ReadAnswer(c) \/ PopNotification(c) \/ AwaitDone(c))
  BY FutureIs
<1> HIDE DEF c, t
<1>2. op.call # "idle"
  BY <1>1 DEF Future
<1>3. CASE Fail("closed") /\ UNCHANGED <<plan, handle>> /\ server.up # "up"
  BY <1>2, <1>3, LiveFails
<1>4. CASE server' = t /\ SendRequest(c)
  BY <1>1, <1>4, LiveSends
<1>5. CASE server' = t /\ ReadAnswer(c)
  BY <1>1, <1>5, LiveReads
<1>6. CASE server' = t /\ (PopNotification(c) \/ AwaitDone(c))
  BY <1>1, <1>6, LivePops
<1> QED BY <1>1, <1>3, <1>4, <1>5, <1>6

-----------------------------------------------------------------------------
(***************************************************************************)
(* The application.                                                        *)
(***************************************************************************)

\* Control is in the application and no answer is expected.
LEMMA AtRest ==
  ASSUME op' = Idle, live' = 0, plan' = NoPlan, handle'.iter = NoIter, handle'.given = 0, conn'.chan = <<>>,
         conn'.closed /\ server'.up = "up" => ~handle'.client, NEW x, AskedInv(conn', server', 0, x),
         server'.tx => handle'.tx
  PROVE  LiveParts' /\ OwnAnswer'
<1>1. /\ Idle.call = "idle" /\ Idle.id = 0 /\ Idle.r.res = Pending /\ ~Idle.timer
  BY StartType
<1>2. CallInv(Idle, 0, NoPlan)
  BY <1>1, CallTypes DEF CallInv, Asks
<1>3. HandleInv(Idle, handle', 0, NoPlan)
  BY <1>1 DEF HandleInv
<1>4. LastInv(Idle, handle', 0, conn', server'.up, nextId')
  BY DEF LastInv
<1>5. AskedInv(conn', server', 0, Own(Idle, handle').call)
  BY DEF AskedInv
<1>6. ChanInv(conn'.chan, 0, inbox', server'.up)
  BY ChanNone
<1>7. LiveInv(Idle, handle', 0, NoPlan, conn', inbox', server', nextId')
  BY DEF LiveInv
<1>8. TxInv(Idle, handle', NoPlan, server')
  BY DEF TxInv
<1>9. OwnAnswer'
  BY <1>1, NotReturned
<1> QED BY <1>2, <1>3, <1>4, <1>5, <1>6, <1>7, <1>8, <1>9 DEF LiveParts

\* What holds between two calls.
LEMMA Resting ==
  ASSUME SyncInv, op = Idle
  PROVE  /\ op.call = "idle" /\ op.id = 0 /\ ~op.timer /\ op.r.res = Pending
         /\ (live # 0 <=> handle.iter # NoIter) /\ (server.tx => handle.tx)
         /\ handle.iter = NoIter => live = 0 /\ plan = NoPlan /\ conn.chan = <<>> /\ handle.given = 0
         /\ AskedInv(conn, server, live, handle.iter.call)
         /\ conn.closed /\ server.up = "up" => ~handle.client
<1>1. Idle.call = "idle" /\ Idle.id = 0 /\ Idle.r.res = Pending /\ ~Idle.timer
  BY StartType
<1>2. /\ CallInv(op, live, plan) /\ HandleInv(op, handle, live, plan)
      /\ LastInv(op, handle, live, conn, server.up, nextId) /\ AskedInv(conn, server, live, Own(op, handle).call)
      /\ ChanInv(conn.chan, live, inbox, server.up) /\ TxInv(op, handle, plan, server)
  BY DEF SyncInv, LiveParts
<1>3. Own(op, handle) = handle.iter
  BY <1>1 DEF Own
<1>4. (live # 0 <=> handle.iter # NoIter) /\ (handle.iter = NoIter => plan = NoPlan /\ handle.given = 0)
  BY <1>1, <1>2 DEF HandleInv
<1>5. live = 0 => conn.chan = <<>>
  BY <1>2 DEF ChanInv
<1>6. server.tx => handle.tx
  BY <1>1, <1>2 DEF TxInv
<1>7. conn.closed /\ server.up = "up" => ~handle.client
  BY <1>1, <1>2 DEF LastInv
<1> QED BY <1>1, <1>2, <1>3, <1>4, <1>5, <1>6, <1>7

\* A call begins, or returns a notification at once.
LEMMA LiveStarts ==
  ASSUME SyncInv, op = Idle, handle.iter = NoIter, handle.client,
         NEW call \in Requests \cup NotificationIters \cup {"close", "drop_client"},
         op'.call = call, op'.id = 0, ~op'.timer, op'.r.call = call,
         op'.r = Reader(call) \/ call \in NotificationIters,
         handle'.iter = NoIter, handle'.given = handle.given, handle'.client,
         live' = live, plan' = plan, server' = server, conn'.reqs = conn.reqs, conn'.chan = conn.chan,
         conn'.closed => conn.closed \/ call \in {"close", "drop_client"},
         \/ handle'.tx = handle.tx
         \/ call \in {"commit", "rollback", "drop_tx"} /\ op'.r.res = Pending
  PROVE  LiveParts'
<1>1. /\ live = 0 /\ plan = NoPlan /\ conn.chan = <<>> /\ handle.given = 0
      /\ AskedInv(conn, server, live, handle.iter.call)
      /\ conn.closed => server.up # "up"
      /\ server.tx => handle.tx
  BY Resting
<1>2. call \notin {"idle", "next", "none"} /\ (call \in NotificationIters => call \notin Requests \cup Streams)
  <2>1. \A x \in Requests : x \notin NotificationIters \cup {"close", "drop_client", "next", "idle", "none", "close_portal", "terminate"}
    BY CallTypes
  <2>2. Streams \subseteq Requests
    BY CallTypes
  <2> QED BY <2>1, <2>2 DEF NotificationIters
<1>3. Reader(call).res = Pending
  BY DEF Reader
<1>4. CallInv(op', 0, NoPlan)
  BY <1>2, <1>3 DEF CallInv, Asks
<1>5. HandleInv(op', handle', 0, NoPlan)
  BY <1>1, <1>2 DEF HandleInv
<1>6. LastInv(op', handle', 0, conn', server'.up, nextId')
  BY <1>1 DEF LastInv
<1>7. AskedInv(conn', server', 0, Own(op', handle').call)
  BY <1>1 DEF AskedInv
<1>8. ChanInv(conn'.chan, 0, inbox', server'.up)
  BY <1>1, ChanNone
<1>9. LiveInv(op', handle', 0, NoPlan, conn', inbox', server', nextId')
  BY DEF LiveInv
<1>10. TxInv(op', handle', NoPlan, server')
  BY <1>1 DEF TxInv
<1> QED BY <1>1, <1>4, <1>5, <1>6, <1>7, <1>8, <1>9, <1>10 DEF LiveParts

\* A call begins.
LEMMA StartIs ==
  ASSUME NEW call, op' = Blocked(call, Reader(call), 0)
  PROVE  /\ op'.call = call /\ op'.id = 0 /\ ~op'.timer /\ op'.r = Reader(call) /\ op'.r.call = call
         /\ op'.r.res = Pending
BY DEF Blocked, Reader

\* The application calls, asks for a notification, and drops what it holds.
LEMMA LiveCalls ==
  ASSUME SyncInv, Call \/ CallClient \/ CallTransaction \/ EndTransaction \/ Close
  PROVE  LiveParts' /\ OwnAnswer'
<1>1. handle \in Handles /\ conn \in Conns
  BY DEF SyncInv, TypeOK
<1>2. ASSUME NEW call \in Requests \cup {"close", "drop_client"}, op = Idle, handle.iter = NoIter, handle.client,
             op' = Blocked(call, Reader(call), 0), handle'.iter = handle.iter, handle'.given = handle.given,
             handle'.client = handle.client, live' = live, plan' = plan, server' = server,
             conn'.reqs = conn.reqs, conn'.chan = conn.chan,
             conn'.closed => conn.closed \/ call \in {"close", "drop_client"},
             handle'.tx = handle.tx \/ call \in {"commit", "rollback", "drop_tx"}
      PROVE  LiveParts' /\ OwnAnswer'
  <2>1. /\ op'.call = call /\ op'.id = 0 /\ ~op'.timer /\ op'.r = Reader(call) /\ op'.r.call = call
        /\ op'.r.res = Pending
    BY <1>2, StartIs
  <2> QED BY <1>2, <2>1, LiveStarts, NotReturned
<1>3. CASE Call \/ CallClient \/ CallTransaction
  <2>1. op = Idle /\ handle.iter = NoIter /\ handle.client /\ UNCHANGED <<handle, live, conn, server, plan>>
    BY <1>3 DEF Call, CallClient, CallTransaction, CanCall
  <2>2. \E call \in Requests : op' = Blocked(call, Reader(call), 0)
    BY <1>3 DEF Call, CallClient, CallTransaction, Start, Requests, Bound
  <2> QED BY <1>2, <2>1, <2>2
<1>4. CASE EndTransaction
  <2>1. /\ op = Idle /\ handle.iter = NoIter /\ handle.client /\ UNCHANGED <<live, conn, server, plan>>
        /\ handle' = [handle EXCEPT !.tx = FALSE]
    BY <1>4 DEF EndTransaction, CanCall
  <2>2. PICK call \in {"commit", "rollback", "drop_tx"} : op' = Blocked(call, Reader(call), 0)
    BY <1>4 DEF EndTransaction, Start
  <2>3. call \in Requests
    BY DEF Requests
  <2>4. handle'.iter = handle.iter /\ handle'.given = handle.given /\ handle'.client = handle.client
    BY <1>1, <2>1 DEF Handles
  <2> QED BY <1>2, <2>1, <2>2, <2>3, <2>4
<1>5. CASE Close
  <2>1. /\ op = Idle /\ handle.iter = NoIter /\ handle.client /\ UNCHANGED <<handle, live, server, plan>>
        /\ conn' = [conn EXCEPT !.closed = TRUE]
    BY <1>5 DEF Close, CanCall
  <2>2. PICK call \in {"close", "drop_client"} : op' = Blocked(call, Reader(call), 0)
    BY <1>5 DEF Close, Start
  <2>3. conn'.reqs = conn.reqs /\ conn'.chan = conn.chan
    BY <1>1, <2>1 DEF Conns
  <2> QED BY <1>2, <2>1, <2>2, <2>3
<1> QED BY <1>3, <1>4, <1>5

LEMMA LiveNotification ==
  ASSUME SyncInv, NextNotification
  PROVE  LiveParts' /\ OwnAnswer'
<1>1. handle \in Handles /\ conn \in Conns
  BY DEF SyncInv, TypeOK
<1>2. PICK call \in NotificationIters :
         IF conn.notifications # <<>>
         THEN /\ op' = Blocked(call, [Reader(call) EXCEPT !.res = Result("ok", <<Head(conn.notifications)>>, 0, "")], 0)
              /\ conn' = [conn EXCEPT !.notifications = Tail(@)]
              /\ handle' = [handle EXCEPT !.delay = IF call = "timeout_iter" THEN "armed" ELSE @]
         ELSE op' = Blocked(call, Reader(call), 0) /\ UNCHANGED <<conn, taken, handle>>
  BY DEF NextNotification, Start
<1>3. op = Idle /\ handle.client /\ handle.iter = NoIter /\ UNCHANGED <<live, server, plan>>
  BY DEF NextNotification
<1>4. op'.call = call /\ op'.id = 0 /\ ~op'.timer /\ op'.r.call = call
  <2>1. CASE conn.notifications # <<>>
    <3>1. op' = Blocked(call, [Reader(call) EXCEPT !.res = Result("ok", <<Head(conn.notifications)>>, 0, "")], 0)
      BY <1>2, <2>1
    <3> QED BY <3>1 DEF Blocked, Reader
  <2>2. CASE conn.notifications = <<>>
    BY <1>2, <2>2, StartIs
  <2> QED BY <2>1, <2>2
<1>5. /\ handle'.iter = handle.iter /\ handle'.given = handle.given /\ handle'.client = handle.client
      /\ handle'.tx = handle.tx /\ conn'.reqs = conn.reqs /\ conn'.chan = conn.chan /\ conn'.closed = conn.closed
  BY <1>1, <1>2 DEF Handles, Conns
<1>6. LiveParts'
  BY <1>3, <1>4, <1>5, LiveStarts
<1>7. call \notin Requests \cup {"next"}
  BY DEF NotificationIters, Requests, Bound
<1> QED BY <1>4, <1>6, <1>7 DEF OwnAnswer

LEMMA LiveDrops ==
  ASSUME SyncInv, DropPortal \/ DropIter \/ TimeoutIter
  PROVE  LiveParts' /\ OwnAnswer'
<1>1. handle \in Handles /\ conn \in Conns /\ server \in Sessions /\ nextId \in Nat \ {0} /\ nextId \in Nat
      /\ inbox \in Seq(Msgs) /\ LineInv(conn, server, inbox, nextId)
  BY DEF SyncInv, TypeOK
<1>2. op = Idle /\ op' = op /\ server' = server
  BY DEF DropPortal, DropIter, TimeoutIter, CanCall
<1>3. /\ (server.tx => handle.tx)
      /\ handle.iter = NoIter => live = 0 /\ plan = NoPlan /\ conn.chan = <<>> /\ handle.given = 0
      /\ AskedInv(conn, server, live, handle.iter.call)
      /\ conn.closed /\ server.up = "up" => ~handle.client
  BY <1>2, Resting
<1>4. CASE TimeoutIter
  <2>1. /\ handle.iter = NoIter /\ UNCHANGED <<live, conn, plan>>
        /\ handle' = [handle EXCEPT !.delay = IF @ = "none" THEN "armed" ELSE "none"]
    BY <1>4 DEF TimeoutIter
  <2>2. /\ handle'.iter = handle.iter /\ handle'.given = handle.given /\ handle'.client = handle.client /\ handle'.tx = handle.tx
    BY <1>1, <2>1 DEF Handles
  <2> QED BY <1>2, <1>3, <2>1, <2>2, AtRest
<1>5. CASE DropPortal
  <2>1. /\ handle.iter = NoIter /\ UNCHANGED <<live, plan>> /\ conn' = send(conn, "close_portal")
        /\ handle' = [handle EXCEPT !.portal = FALSE]
    BY <1>5 DEF DropPortal, CanCall
  <2>2. /\ handle'.iter = handle.iter /\ handle'.given = handle.given /\ handle'.client = handle.client /\ handle'.tx = handle.tx
    BY <1>1, <2>1 DEF Handles
  <2>3. "close_portal" \in Calls
    BY CallTypes
  <2>4. /\ conn'.chan = conn.chan /\ conn'.closed = conn.closed
        /\ conn.closed => conn' = conn
        /\ ~conn.closed => conn'.reqs = Append(conn.reqs, [id |-> nextId, call |-> "close_portal"])
    BY <1>1, <2>1, <2>3, SendIs
  <2>5. AskedInv(conn', server', 0, handle.iter.call)
    <3>1. AskedInv(conn, server, 0, handle.iter.call)
      BY <1>3, <2>1
    <3>2. CASE conn.closed
      BY <1>2, <2>4, <3>1, <3>2
    <3>3. CASE ~conn.closed
      <4>1. nextId # 0
        BY <1>1
      <4> QED BY <1>1, <1>2, <2>3, <2>4, <3>1, <3>3, <4>1, AskedSent
    <3> QED BY <3>2, <3>3
  <2> QED BY <1>2, <1>3, <2>1, <2>2, <2>4, <2>5, AtRest
<1>6. CASE DropIter
  <2>1. /\ handle.iter # NoIter /\ live' = 0 /\ plan' = NoPlan /\ conn' = [conn EXCEPT !.chan = <<>>]
        /\ handle' = [handle EXCEPT !.iter = NoIter, !.given = 0]
    BY <1>6 DEF DropIter
  <2>2. handle'.iter = NoIter /\ handle'.given = 0 /\ handle'.client = handle.client /\ handle'.tx = handle.tx
    BY <1>1, <2>1 DEF Handles
  <2>3. conn'.chan = <<>> /\ conn'.closed = conn.closed /\ conn'.reqs = conn.reqs
    BY <1>1, <2>1 DEF Conns
  <2>4. handle.iter.call # "begin"
    <3>1. HandleInv(op, handle, live, plan)
      BY DEF SyncInv, LiveParts
    <3>2. "begin" \notin Streams
      BY DEF Streams
    <3> QED BY <2>1, <3>1, <3>2 DEF HandleInv
  <2>5. AskedInv(conn, server, 0, handle.iter.call)
    BY <1>1, <1>3, <2>4, AskedOver
  <2>6. AskedInv(conn', server', 0, handle.iter.call)
    BY <1>2, <2>3, <2>5, AskedSame
  <2> QED BY <1>2, <1>3, <2>1, <2>2, <2>3, <2>6, AtRest
<1> QED BY <1>4, <1>5, <1>6

\* The application asks for the next item.
LEMMA LiveNextItem ==
  ASSUME SyncInv, NextItem
  PROVE  LiveParts' /\ OwnAnswer'
<1> DEFINE it == handle.iter
           up == server.up
           sv == Unserved(conn, server, nextId)
<1>1. /\ op = Idle /\ it # NoIter /\ op' = Blocked("next", it, live)
      /\ UNCHANGED <<handle, live, conn, inbox, server, plan, nextId>>
  BY DEF NextItem
<1>2. /\ op.call = "idle" /\ live # 0 /\ (server.tx => handle.tx) /\ (conn.closed /\ up = "up" => ~handle.client)
      /\ AskedInv(conn, server, live, it.call)
  BY <1>1, Resting
<1>3. /\ HandleInv(op, handle, live, plan) /\ LastInv(op, handle, live, conn, up, nextId)
      /\ ChanInv(conn.chan, live, inbox, up) /\ LiveInv(op, handle, live, plan, conn, inbox, server, nextId)
  BY DEF SyncInv, LiveParts
<1>4. it.call \in Streams /\ it.res = Pending /\ handle.client
  BY <1>1, <1>2, <1>3, CallTypes DEF HandleInv
<1>5. op'.call = "next" /\ op'.r = it /\ op'.id = live /\ ~op'.timer
  BY <1>1 DEF Blocked
<1> HIDE DEF it, up, sv
<1>6. CallInv(op', live, plan)
  <2>1. "next" \notin Requests \cup {"idle", "is_valid"}
    BY CallTypes
  <2> QED BY <1>2, <1>4, <1>5, <2>1 DEF CallInv, Asks
<1>7. HandleInv(op', handle, live, plan)
  BY <1>1, <1>3, <1>4, <1>5 DEF HandleInv, it
<1>8. LastInv(op', handle, live, conn, up, nextId)
  BY <1>2, <1>3, <1>4 DEF LastInv
<1>9. Own(op', handle) = it /\ Own(op, handle) = it
  BY <1>2, <1>5 DEF Own, it
<1>10. LiveInv(op', handle, live, plan, conn, inbox, server, nextId)
  <2>1. plan # NoPlan
    <3> SUFFICES ASSUME plan = NoPlan PROVE FALSE
      OBVIOUS
    <3>1. op.call \in Requests
      BY <1>2, <1>3 DEF LiveInv, Unanswered
    <3> QED BY <1>2, <3>1, CallTypes
  <2>2. Answering(op.call, it, handle.given, live, plan, conn.chan, inbox, server, sv)
    BY <1>2, <1>3, <1>9, <2>1 DEF LiveInv, sv
  <2>3. \A k : ReadTo("idle", it, handle.given, live, plan, k) => ReadTo("next", it, handle.given, live, plan, k)
    <3> SUFFICES ASSUME NEW k, ReadTo("idle", it, handle.given, live, plan, k)
                 PROVE  ReadTo("next", it, handle.given, live, plan, k)
      OBVIOUS
    <3>1. Given("next", it, handle.given, live, plan, k)
      BY <1>4 DEF ReadTo, Given
    <3> QED BY <3>1 DEF ReadTo
  <2>4. Answering("next", it, handle.given, live, plan, conn.chan, inbox, server, sv)
    BY <1>2, <2>2, <2>3 DEF Answering, Reading
  <2> QED BY <1>5, <1>9, <2>1, <2>4 DEF LiveInv, sv
<1>11. TxInv(op', handle, plan, server)
  BY <1>2 DEF TxInv
<1>12. LiveParts'
  BY <1>1, <1>2, <1>3, <1>6, <1>7, <1>8, <1>9, <1>10, <1>11 DEF LiveParts, up
<1> QED BY <1>4, <1>5, <1>12, NotReturned

\* The application is handed the stream, or its next item.
LEMMA LiveTakes ==
  ASSUME SyncInv, TakeResult, op.r.call \in Streams, op.r.res.is = "ok"
  PROVE  LiveParts' /\ OwnAnswer'
<1> DEFINE r == op.r
           it == [r EXCEPT !.res = Pending]
           up == server.up
           sv == Unserved(conn, server, nextId)
<1>1. /\ handle \in Handles /\ op \in Ops /\ r \in Readers /\ r.res # Pending /\ live \in Nat /\ plan \in [n : Nat, end : Ends]
      /\ CallInv(op, live, plan) /\ HandleInv(op, handle, live, plan) /\ LastInv(op, handle, live, conn, up, nextId)
      /\ ChanInv(conn.chan, live, inbox, up) /\ LiveInv(op, handle, live, plan, conn, inbox, server, nextId)
      /\ AskedInv(conn, server, live, Own(op, handle).call) /\ TxInv(op, handle, plan, server)
  BY DEF SyncInv, LiveParts, TypeOK, Ops, TakeResult, Returned
<1>2. live # 0
  BY <1>1 DEF CallInv
<1>3. Idle.call = "idle" /\ Idle.id = 0 /\ Idle.r.res = Pending /\ ~Idle.timer
  BY StartType
<1>4. op.call \in Asks /\ op.call # "idle"
  <2>1. op.call # "idle"
    BY <1>1, <1>3 DEF CallInv
  <2> QED BY <1>1, <1>2, <2>1 DEF CallInv
<1>5. op.call \notin {"close", "drop_client", "idle", "begin", "commit", "rollback", "drop_tx"}
  <2>1. op.call = "next" \/ op.call \in Streams
    BY <1>1, <1>4 DEF CallInv
  <2> QED BY <2>1 DEF Streams
<1>6. it \in Readers /\ it.call = r.call /\ it.res = Pending /\ it # NoIter
  <2>1. Pending \in Results
    BY ResultTypes
  <2>2. it \in Readers /\ it.call = r.call /\ it.res = Pending
    BY <1>1, <2>1, ReaderFields
  <2>3. NoIter.call \notin Streams
    BY StartType DEF Streams
  <2> HIDE DEF it
  <2> QED BY <2>2, <2>3
<1>7. /\ op' = Idle /\ handle'.iter = it /\ handle'.given = (IF op.call = "next" THEN handle.given + 1 ELSE 0)
      /\ handle'.client = handle.client /\ (handle'.tx <=> handle.tx) /\ plan' = plan
      /\ UNCHANGED <<live, conn, inbox, server, nextId>>
  <2>1. op' = Idle
    BY <1>5 DEF TakeResult
  <2>2. handle' = [handle EXCEPT
           !.tx     = @ \/ (op.call = "begin" /\ TRUE),
           !.portal = @ \/ (op.call = "bind" /\ TRUE),
           !.iter   = it,
           !.given  = IF op.call = "next" THEN @ + 1 ELSE 0,
           !.client = @ /\ op.call # "drop_client"]
    BY DEF TakeResult
  <2> HIDE DEF it, r
  <2>3. plan' = plan /\ UNCHANGED <<live, conn, inbox, server, nextId>>
    BY <1>2 DEF TakeResult
  <2>4. /\ handle'.iter = it /\ handle'.given = (IF op.call = "next" THEN handle.given + 1 ELSE 0)
        /\ (handle'.client <=> handle.client) /\ (handle'.tx <=> handle.tx)
    BY <1>1, <1>5, <2>2 DEF Handles
  <2>5. handle'.client \in BOOLEAN /\ handle.client \in BOOLEAN
    BY <1>1, <2>2 DEF Handles
  <2> QED BY <2>1, <2>3, <2>4, <2>5
<1> HIDE DEF it, up, sv
<1>8. handle.client
  BY <1>1, <1>4, <1>5 DEF HandleInv
<1>9. CallInv(Idle, live, plan)
  BY <1>3, CallTypes DEF CallInv, Asks
<1>10. HandleInv(Idle, handle', live, plan)
  BY <1>2, <1>3, <1>6, <1>7, <1>8 DEF HandleInv
<1>11. LastInv(Idle, handle', live, conn, up, nextId)
  BY <1>1, <1>5, <1>7, <1>8 DEF LastInv
<1>12. Own(op, handle) = r /\ Own(Idle, handle') = it
  BY <1>3, <1>4, <1>7 DEF Own
<1>13. LiveInv(Idle, handle', live, plan, conn, inbox, server, nextId)
  <2>1. plan # NoPlan
    <3> SUFFICES ASSUME plan = NoPlan PROVE FALSE
      OBVIOUS
    <3>1. r = Reader(op.call)
      BY <1>1, <1>2 DEF LiveInv, Unanswered
    <3> QED BY <1>1, <3>1 DEF Reader
  <2>2. Answering(op.call, r, handle.given, live, plan, conn.chan, inbox, server, sv)
    BY <1>1, <1>2, <1>12, <2>1 DEF LiveInv, sv
  <2>3. r.call \in Requests /\ r.call \in Calls /\ plan \in Plans(r.call)
    BY <2>2, CallTypes DEF Answering
  <2>4. ASSUME NEW k, ReadTo(op.call, r, handle.given, live, plan, k)
        PROVE  ReadTo("idle", it, handle'.given, live, plan, k)
    <3>1. [it EXCEPT !.res = Pending] = ReaderAt(it.call, live, plan, k) /\ Waits(it.call, plan, k)
      <4>1. [it EXCEPT !.res = Pending] = it
        BY <1>1 DEF it, Readers
      <4>2. it = ReaderAt(r.call, live, plan, k) /\ Waits(r.call, plan, k)
        BY <2>4 DEF ReadTo, it
      <4> QED BY <1>6, <4>1, <4>2
    <3>2. Given(op.call, r, handle.given, live, plan, k)
      BY <2>4 DEF ReadTo
    <3>3. k \in Nat /\ Pre(r.call) \in Nat
      BY <2>3, <2>4, WaitingIs, PreIs DEF ReadTo, Waits
    <3>4. RowsIn(r.call, plan, k) \in Nat /\ (k <= Pre(r.call) => RowsIn(r.call, plan, k) = 0)
      BY <2>3, <3>3, RowsInIs
    <3>5. k >= Pre(r.call) /\ handle'.given = RowsIn(r.call, plan, k)
      <4>1. CASE op.call = "next"
        <5>1. handle.given = RowsIn(r.call, plan, k) - 1 /\ k >= Pre(r.call)
          BY <1>1, <3>2, <4>1 DEF Given
        <5>2. handle'.given = handle.given + 1
          BY <1>7, <4>1
        <5> QED BY <3>4, <5>1, <5>2
      <4>2. CASE op.call # "next"
        <5>1. k = Pre(r.call)
          BY <1>1, <1>5, <3>2, <4>2 DEF Given
        <5> QED BY <1>7, <3>3, <3>4, <4>2, <5>1
      <4> QED BY <4>1, <4>2
    <3>6. Given("idle", it, handle'.given, live, plan, k)
      <4>1. handle'.given = RowsIn(r.call, plan, k) - 0
        BY <3>4, <3>5
      <4> QED BY <1>6, <3>5, <4>1 DEF Given
    <3> QED BY <3>1, <3>6 DEF ReadTo
  <2>5. Answering("idle", it, handle'.given, live, plan, conn.chan, inbox, server, sv)
    BY <1>6, <2>2, <2>4 DEF Answering, Reading
  <2> QED BY <1>3, <1>12, <2>1, <2>5 DEF LiveInv, sv
<1>14. TxInv(Idle, handle', plan, server)
  BY <1>1, <1>5, <1>7 DEF TxInv
<1>15. LiveParts'
  BY <1>1, <1>6, <1>7, <1>9, <1>10, <1>11, <1>12, <1>13, <1>14 DEF LiveParts, up
<1> QED BY <1>3, <1>7, <1>15, NotReturned

\* What a begin that succeeds on the server returns.
LEMMA BegunOk ==
  ASSUME NEW id, NEW pl, pl.end = "ok"
  PROVE  Promised("begin", id, pl).is = "ok"
<1>1. Promised("begin", id, pl) = Result("ok", <<>>, 0, "")
  BY DEF Promised, Control, Streams
<1>2. Result("ok", <<>>, 0, "").is = "ok"
  BY DEF Result
<1> QED BY <1>1, <1>2

\* A call that holds nothing when it returns.
LEMMA LiveReleases ==
  ASSUME SyncInv, TakeResult, ~(op.r.call \in Streams /\ op.r.res.is = "ok")
  PROVE  LiveParts' /\ OwnAnswer'
<1> DEFINE r == op.r
           ok == r.res.is = "ok"
<1>1. /\ handle \in Handles /\ op \in Ops /\ r \in Readers /\ r.res # Pending
      /\ CallInv(op, live, plan) /\ HandleInv(op, handle, live, plan) /\ LastInv(op, handle, live, conn, server.up, nextId)
      /\ ChanInv(conn.chan, live, inbox, server.up) /\ (server.up # "up" => ~server.tx)
      /\ AskedInv(conn, server, live, Own(op, handle).call) /\ TxInv(op, handle, plan, server) /\ OwnAnswer
  BY DEF SyncInv, LiveParts, TypeOK, Ops, TakeResult, Returned, LineInv, ServeInv
<1>2. live = 0
  BY <1>1 DEF CallInv
<1>3. conn.chan = <<>> /\ AskedInv(conn, server, 0, Own(op, handle).call)
  BY <1>1, <1>2 DEF ChanInv
<1>4. op.call # "idle"
  BY <1>1, StartType DEF CallInv
<1>5. UNCHANGED <<live, conn, inbox, server, nextId>> /\ plan' = NoPlan
  BY <1>2 DEF TakeResult
<1>6. op.call = "next" => r.call \in Streams
  BY <1>1 DEF HandleInv
<1>7. /\ handle'.iter = NoIter /\ handle'.given = 0
      /\ handle'.client <=> handle.client /\ op.call # "drop_client"
      /\ handle'.tx <=> handle.tx \/ (op.call = "begin" /\ ok)
  <2>1. handle' = [handle EXCEPT
           !.tx     = @ \/ (op.call = "begin" /\ ok),
           !.portal = @ \/ (op.call = "bind" /\ ok),
           !.iter   = IF r.call \in Streams /\ ok THEN [r EXCEPT !.res = Pending] ELSE NoIter,
           !.given  = IF op.call = "next" /\ ok THEN @ + 1 ELSE 0,
           !.client = @ /\ op.call # "drop_client"]
    BY DEF TakeResult
  <2> DEFINE held == r.call \in Streams /\ ok
             next == op.call = "next" /\ ok
  <2>2. ~held /\ ~next
    BY <1>6
  <2>3. handle'.iter = IF held THEN [r EXCEPT !.res = Pending] ELSE NoIter
    BY <1>1, <2>1 DEF Handles
  <2>4. handle'.given = IF next THEN handle.given + 1 ELSE 0
    BY <1>1, <2>1 DEF Handles
  <2>5. /\ handle'.client <=> handle.client /\ op.call # "drop_client"
        /\ handle'.tx <=> handle.tx \/ (op.call = "begin" /\ ok)
    BY <1>1, <2>1 DEF Handles
  <2> HIDE DEF held, next
  <2> QED BY <2>2, <2>3, <2>4, <2>5
<1>8. op.call = "begin" /\ plan.end = "ok" /\ server.tx => ok
  <2> SUFFICES ASSUME op.call = "begin", plan.end = "ok", server.tx PROVE ok
    OBVIOUS
  <2>1. server.up = "up" /\ "begin" \in Requests /\ "begin" # "next"
    BY <1>1 DEF Requests
  <2>2. ~op.timer
    BY <1>1 DEF CallInv
  <2>3. r.res = Promised("begin", op.id, plan)
    BY <1>1, <2>1, <2>2 DEF OwnAnswer, Returned
  <2> QED BY <2>3, BegunOk
<1>9. server.tx => handle'.tx
  BY <1>1, <1>7, <1>8 DEF TxInv
<1> HIDE DEF r, ok
<1>10. CASE op.call # "close"
  <2>1. op' = Idle
    BY <1>10 DEF TakeResult
  <2>2. conn'.closed /\ server'.up = "up" => ~handle'.client
    BY <1>1, <1>5, <1>7, <1>10 DEF LastInv
  <2> QED BY <1>2, <1>3, <1>5, <1>7, <1>9, <2>1, <2>2, AtRest
<1>11. CASE op.call = "close"
  <2>1. op' = Blocked("drop_client", Reader("drop_client"), 0)
    BY <1>11 DEF TakeResult
  <2>2. /\ op'.call = "drop_client" /\ op'.id = 0 /\ ~op'.timer /\ op'.r = Reader("drop_client") /\ op'.r.call = "drop_client"
        /\ op'.r.res = Pending
    BY <2>1, StartIs
  <2>3. "drop_client" \notin Requests \cup {"idle", "next"}
    BY CallTypes
  <2>4. CallInv(op', 0, NoPlan)
    BY <2>2, <2>3 DEF CallInv, Asks
  <2>5. HandleInv(op', handle', 0, NoPlan)
    BY <1>7, <2>2 DEF HandleInv
  <2>6. LastInv(op', handle', 0, conn', server'.up, nextId')
    BY <2>2 DEF LastInv
  <2>7. AskedInv(conn', server', 0, Own(op', handle').call)
    BY <1>3, <1>5 DEF AskedInv
  <2>8. ChanInv(conn'.chan, 0, inbox', server'.up)
    BY <1>3, <1>5, ChanNone
  <2>9. LiveInv(op', handle', 0, NoPlan, conn', inbox', server', nextId')
    BY DEF LiveInv
  <2>10. TxInv(op', handle', NoPlan, server')
    BY <1>5, <1>9 DEF TxInv
  <2>11. LiveParts'
    BY <1>2, <1>5, <2>4, <2>5, <2>6, <2>7, <2>8, <2>9, <2>10 DEF LiveParts
  <2> QED BY <2>2, <2>11, NotReturned
<1> QED BY <1>10, <1>11

\* Whatever the application does keeps the invariant.
LEMMA LiveApplication == SyncInv /\ Application => LiveParts' /\ OwnAnswer'
<1> SUFFICES ASSUME SyncInv, Application PROVE LiveParts' /\ OwnAnswer'
  OBVIOUS
<1>1. CASE Call \/ CallClient \/ CallTransaction \/ EndTransaction \/ Close
  BY <1>1, LiveCalls
<1>2. CASE DropPortal \/ DropIter \/ TimeoutIter
  BY <1>2, LiveDrops
<1>3. CASE NextItem
  BY <1>3, LiveNextItem
<1>4. CASE NextNotification
  BY <1>4, LiveNotification
<1>5. CASE TakeResult
  BY <1>5, LiveTakes, LiveReleases
<1> QED BY <1>1, <1>2, <1>3, <1>4, <1>5 DEF Application

-----------------------------------------------------------------------------
(***************************************************************************)
(* The server.                                                             *)
(***************************************************************************)
LEMMA AskedServed ==
  ASSUME NEW c, NEW s \in Sessions, NEW lv, NEW call, AskedInv(c, s, lv, call), s.up = "up", s.queue # <<>>,
         NEW t, t.queue = Tail(s.queue)
  PROVE  /\ AskedInv(c, t, lv, call)
         /\ lv # 0 /\ Head(s.queue).id = lv => Head(s.queue).call = call
         /\ Head(s.queue).call = "begin" => Head(s.queue).id = lv
<1> DEFINE z == s.queue
           u == Tail(z)
<1>1. /\ z \in Seq(Asked) /\ Head(z) = z[1] /\ 1 \in 1 .. Len(z) /\ Len(u) = Len(z) - 1
      /\ \A i \in 1 .. Len(z) - 1 : u[i] = z[i + 1] /\ i + 1 \in 1 .. Len(z)
  <2>1. z \in Seq(Asked)
    BY DEF Sessions
  <2>2. /\ Head(z) = z[1] /\ Len(z) \in Nat /\ Len(z) >= 1 /\ Len(u) = Len(z) - 1
        /\ \A i \in 1 .. Len(z) - 1 : u[i] = z[i + 1] /\ i + 1 \in 1 .. Len(z)
    BY <2>1, TailIs
  <2> QED BY <2>1, <2>2
<1>2. \A i \in 1 .. Len(u) : \E j \in 1 .. Len(z) : u[i] = z[j]
  BY <1>1
<1>3. (lv # 0 => Named(z, lv, call)) /\ Begins(z, lv)
  BY DEF AskedInv
<1>4. t.queue = u
  OBVIOUS
<1>5. (lv # 0 => Named(c.reqs, lv, call)) /\ Begins(c.reqs, lv)
  BY DEF AskedInv
<1>8. Head(z) = z[1] /\ 1 \in 1 .. Len(z)
  BY <1>1
<1> HIDE DEF z, u
<1>6. (lv # 0 => Named(u, lv, call)) /\ Begins(u, lv)
  BY <1>2, <1>3 DEF Named, Begins
<1>7. AskedInv(c, t, lv, call)
  BY <1>4, <1>5, <1>6 DEF AskedInv
<1>9. (lv # 0 /\ z[1].id = lv => z[1].call = call) /\ (z[1].call = "begin" => z[1].id = lv)
  BY <1>3, <1>8 DEF Named, Begins
<1> QED BY <1>7, <1>8, <1>9 DEF z

\* The server begins its answer: no reader has begun to read it.
LEMMA LiveAnswered ==
  ASSUME NEW o, NEW h, NEW lv \in Nat \ {0}, NEW ch \in Seq(Msgs), NEW ib \in Seq(Msgs), NEW sv,
         Unanswered(o, lv, ch, ib, "up", sv), o.call = o.r.call, h.given = 0, NEW pl \in Plans(o.call),
         NEW t, t.stream = Answer(o.call, lv, pl), NEW tv, lv < tv
  PROVE  Answering(o.call, o.r, h.given, lv, pl, ch, ib, t, tv)
<1> DEFINE call == o.call
           a == Answer(call, lv, pl)
<1>1. OwnLen(ch) = 0 /\ (\A i \in 1 .. Len(ib) : ib[i].of # lv) /\ call \in Requests /\ o.r = Reader(call)
  BY DEF Unanswered
<1>2. call \in Calls /\ Pre(call) \in Nat /\ pl.n \in Nat /\ lv \in Nat
  BY <1>1, CallTypes, PreIs, PlanIs
<1>3. Whole(a, lv) /\ Placed(a, call, lv, pl)
  BY <1>2, AnswerWhole
<1> HIDE DEF a
<1>4. Len(a) \in Nat
  BY <1>3 DEF Whole
<1>5. o.r = ReaderAt(call, lv, pl, 0) /\ o.r.res = Pending
  BY <1>1, <1>2, ReaderStart DEF Reader
<1>6. Waits(call, pl, 0)
  <2>1. pl.end \in {"ok", "more"} /\ call # "copy_out" => 0 < Pre(call) + pl.n + Len(Epilogue(call, 1, pl)) + 1
    <3> SUFFICES ASSUME pl.end \in {"ok", "more"} PROVE 0 < Pre(call) + pl.n + Post(call, pl) + 1
      BY DEF Post
    <3>1. 1 \in Nat
      OBVIOUS
    <3>2. Post(call, pl) \in Nat
      BY <1>2, <3>1, PostIs
    <3> DEFINE x == Pre(call)
               y == pl.n
               z == Post(call, pl)
    <3>3. x \in Nat /\ y \in Nat /\ z \in Nat
      BY <1>2, <3>2
    <3> HIDE DEF x, y, z
    <3>4. 0 < x + y + z + 1
      BY <3>3
    <3> QED BY <3>4 DEF x, y, z
  <2>2. 0 <= Pre(call) + pl.n /\ 0 <= Pre(call) + 1
    <3> DEFINE x == Pre(call)
               y == pl.n
    <3>1. x \in Nat /\ y \in Nat
      BY <1>2
    <3> HIDE DEF x, y
    <3>2. 0 <= x + y /\ 0 <= x + 1
      BY <3>1
    <3> QED BY <3>2 DEF x, y
  <2>3. 0 \in Nat
    OBVIOUS
  <2> HIDE DEF call
  <2> QED BY <2>1, <2>2, <2>3 DEF Waits
<1>7. call \notin {"idle", "next"}
  BY <1>1, CallTypes
<1>8. call \in Streams => 0 < Pre(call) /\ RowsIn(call, pl, 0) = 0
  <2> SUFFICES ASSUME call \in Streams PROVE 0 < Pre(call) /\ RowsIn(call, pl, 0) = 0
    OBVIOUS
  <2>1. Pre(call) = 1 \/ Pre(call) = 2
    <3>1. call \in Bound
      BY DEF Streams, Bound
    <3> QED BY <1>1, <3>1, PreLen DEF Bound
  <2>2. 0 < Pre(call)
    BY <2>1
  <2>3. 0 <= Pre(call)
    BY <1>2
  <2> QED BY <2>2, <2>3 DEF RowsIn
<1>9. Given(call, o.r, h.given, lv, pl, 0)
  <2>1. o.r.call = call
    OBVIOUS
  <2>2. RowsIn(call, pl, 0) = 0 => h.given = RowsIn(call, pl, 0) - 0
    OBVIOUS
  <2> HIDE DEF call
  <2> QED BY <1>5, <1>7, <1>8, <2>1, <2>2 DEF Given
<1>10. ReadTo(call, o.r, h.given, lv, pl, 0)
  <2>1. [o.r EXCEPT !.res = Pending] = o.r
    BY <1>1 DEF Reader
  <2>2. o.r.call = call
    OBVIOUS
  <2> HIDE DEF call
  <2> QED BY <1>5, <1>6, <1>9, <2>1, <2>2 DEF ReadTo
<1>11. Rest(a, lv, 0, 0, ch, ib)
  <2>1. Coming(a, lv, 0, 0, ib)
    BY <1>1, <1>3, ComingNone
  <2>2. 0 + 0 = 0 /\ 0 <= Len(a) /\ \A i \in 1 .. 0 : FALSE
    BY <1>4
  <2> QED BY <1>1, <2>1, <2>2 DEF Rest
<1>12. Left(a, 0, t.stream)
  <2>1. t.stream = a
    BY DEF a
  <2>2. Len(a) = Len(a) - 0 /\ \A i \in 1 .. Len(a) : 0 + i = i
    BY <1>4
  <2> QED BY <2>1, <2>2 DEF Left
<1>13. Reading(call, o.r, h.given, lv, pl, ch, ib, t)
  <2>1. o.r.call = call /\ 0 \in Nat
    OBVIOUS
  <2> HIDE DEF call
  <2> QED BY <1>10, <1>11, <1>12, <2>1 DEF Reading, a
<1> QED BY <1>1, <1>13 DEF Answering

\* The server moves, and the client does not.
LEMMA ServerSame ==
  ASSUME SyncInv, op' = op, handle' = handle, live' = live, conn' = conn, nextId' = nextId, plan' = plan, SvKept,
         server'.up = "up" => server.up = "up", server'.tx => server.tx,
         AskedInv(conn, server', live, Own(op, handle).call), ChanInv(conn.chan, live, inbox', server'.up),
         live # 0 => Moves(live, conn.chan, inbox, server, conn.chan, inbox', server'),
         live # 0 /\ plan = NoPlan /\ OwnLen(conn.chan) = 0 /\ (\A i \in 1 .. Len(inbox) : inbox[i].of # live) =>
           \A i \in 1 .. Len(inbox') : inbox'[i].of # live
  PROVE  LiveParts' /\ OwnAnswer'
<1>1. op.timer => op.call = "is_valid"
  BY DEF SyncInv, LiveParts, CallInv
<1>2. LiveParts'
  BY <1>1, LiveCarried
<1>3. OwnAnswer
  BY DEF SyncInv
<1> QED BY <1>2, <1>3, OwnCarried

\* The server executes a request: the answer it makes of the live one is its plan.
LEMMA LiveExecute == SyncInv /\ Execute /\ server' \in Sessions => LiveParts' /\ OwnAnswer'
<1> SUFFICES ASSUME SyncInv, Execute, server' \in Sessions PROVE LiveParts' /\ OwnAnswer'
  OBVIOUS
<1> DEFINE call == Own(op, handle).call
           sv == Unserved(conn, server, nextId)
           tv == Unserved(conn', server', nextId')
<1>1. op' = op /\ handle' = handle /\ live' = live /\ conn' = conn /\ inbox' = inbox /\ nextId' = nextId
  BY DEF Execute
<1>2. /\ op \in Ops /\ handle \in Handles /\ conn \in Conns /\ server \in Sessions /\ live \in Nat /\ nextId \in Nat
      /\ inbox \in Seq(Msgs) /\ conn.chan \in Seq(Msgs) /\ Line
      /\ LineInv(conn, server, inbox, nextId)
  BY DEF SyncInv, TypeOK, Conns, Line
<1>3. /\ CallInv(op, live, plan) /\ HandleInv(op, handle, live, plan) /\ LastInv(op, handle, live, conn, server.up, nextId)
      /\ AskedInv(conn, server, live, call) /\ ChanInv(conn.chan, live, inbox, server.up)
      /\ LiveInv(op, handle, live, plan, conn, inbox, server, nextId) /\ TxInv(op, handle, plan, server)
      /\ OwnAnswer
  BY DEF SyncInv, LiveParts
<1> HIDE DEF call
<1>4. CASE server.up = "up" /\ Over(server') /\ plan' = plan
  <2>1. server'.up # "up" /\ ~server'.tx
    BY <1>4 DEF Over
  <2>2. AskedInv(conn, server', live, call) /\ SvKept
    BY <2>1 DEF AskedInv, SvKept
  <2>3. ChanInv(conn.chan, live, inbox', server'.up)
    BY <1>1, <1>3, <2>1, ChanSame
  <2>4. Moves(live, conn.chan, inbox, server, conn.chan, inbox', server')
    BY <1>1, <2>1, MovesNot
  <2> QED BY <1>1, <1>4, <2>1, <2>2, <2>3, <2>4, ServerSame DEF call
<1>5. ASSUME NEW q, NEW pl, Executes(q, pl) PROVE LiveParts' /\ OwnAnswer'
  <2>1. /\ server.up = "up" /\ server.stream = <<>> /\ server.queue # <<>> /\ q = Head(server.queue) /\ q.call # "terminate"
        /\ pl \in Plans(q.call) /\ server'.up = "up" /\ server'.queue = Tail(server.queue)
        /\ server'.stream = Answer(q.call, q.id, pl)
        /\ server'.tx = CASE q.call = "begin" -> server.tx \/ pl.end = "ok"
                          [] q.call \in {"commit", "rollback", "drop_tx"} -> FALSE
                          [] OTHER -> server.tx
        /\ plan' = IF q.id = live THEN pl ELSE plan
    BY <1>5 DEF Executes
  <2>2. /\ q.call \in Calls /\ q.id \in Nat /\ q.id = sv /\ tv = q.id + 1
    BY <1>2, <1>5, LineExecutes
  <2>3. /\ AskedInv(conn, server', live, call)
        /\ live # 0 /\ q.id = live => q.call = call
        /\ q.call = "begin" => q.id = live
    BY <1>2, <1>3, <2>1, AskedServed
  <2>4. q.id >= 1 /\ q.id < nextId
    <3>1. \A i \in 1 .. Len(server.queue) :
             \/ server.queue[i].call = "terminate"
             \/ server.queue[i].id >= 1 /\ server.queue[i].id < nextId
      BY <1>2, <2>1, AskedIds
    <3>2. q = server.queue[1] /\ 1 \in 1 .. Len(server.queue)
      <4>1. server.queue \in Seq(Asked)
        BY <1>2 DEF Sessions
      <4>2. Head(server.queue) = server.queue[1] /\ Len(server.queue) \in Nat /\ Len(server.queue) >= 1
        BY <2>1, <4>1, TailIs
      <4> QED BY <2>1, <4>2
    <3> QED BY <2>1, <3>1, <3>2
  <2> HIDE DEF sv, tv
  <2>5. ASSUME live # 0 PROVE plan = NoPlan
    <3> SUFFICES ASSUME plan # NoPlan PROVE FALSE
      OBVIOUS
    <3>1. live < sv
      BY <1>3, <2>1, <2>5 DEF LiveInv, Answering, sv
    <3>2. live = nextId - 1
      BY <1>3, <2>5 DEF LastInv
    <3> QED BY <1>2, <2>2, <2>4, <3>1, <3>2
  <2>6. ASSUME live # 0
        PROVE  Unanswered(op, live, conn.chan, inbox, "up", sv)
    BY <1>3, <2>1, <2>5, <2>6 DEF LiveInv, sv
  <2>7. ChanInv(conn.chan, live, inbox', server'.up)
    BY <1>1, <1>3, <2>1
  <2>8. LastInv(op', handle', live, conn', server'.up, nextId')
    BY <1>1, <1>3, <2>1
  <2>9. CASE q.id = live
    <3>1. live # 0 /\ plan = NoPlan /\ plan' = pl /\ q.call = call /\ Unanswered(op, live, conn.chan, inbox, "up", sv)
      BY <2>1, <2>2, <2>3, <2>4, <2>5, <2>6, <2>9
    <3>2. op.call \in Requests /\ op.r = Reader(op.call)
      BY <3>1 DEF Unanswered
    <3>3. op.call \notin {"idle", "next"}
      BY <3>2, CallTypes
    <3>4. call = op.call /\ op.r.call = op.call /\ op.r.res = Pending /\ Own(op, handle) = op.r
      <4>1. Reader(op.call).call = op.call /\ Reader(op.call).res = Pending
        BY DEF Reader
      <4> QED BY <3>2, <3>3, <4>1 DEF Own, call
    <3>5. handle.given = 0
      BY <1>3, <3>3 DEF HandleInv
    <3>6. Answering(op.call, op.r, handle.given, live, pl, conn.chan, inbox, server', tv)
      <4>1. live < tv /\ live \in Nat \ {0}
        BY <1>2, <2>2, <2>9, <3>1
      <4>2. pl \in Plans(op.call) /\ server'.stream = Answer(op.call, live, pl)
        BY <2>1, <2>9, <3>1, <3>4
      <4> QED BY <1>2, <3>1, <3>4, <3>5, <4>1, <4>2, LiveAnswered
    <3>7. pl # NoPlan
      BY <2>1, <2>2, PlanIs
    <3>8. LiveInv(op', handle', live, pl, conn', inbox', server', nextId')
      BY <1>1, <3>4, <3>6, <3>7 DEF LiveInv, tv
    <3>9. CallInv(op', live, pl)
      BY <1>1, <1>3, <3>1 DEF CallInv
    <3>10. HandleInv(op', handle', live, pl)
      BY <1>1, <1>3, <3>3 DEF HandleInv
    <3>11. TxInv(op', handle', pl, server')
      <4>1. CASE q.call = "begin"
        <5>1. op.call = "begin"
          BY <3>1, <3>4, <4>1
        <5>2. server'.tx => server.tx \/ pl.end = "ok"
          BY <2>1, <4>1
        <5>3. plan.end = "none"
          BY <3>1 DEF NoPlan
        <5>4. server.tx => handle.tx
          BY <1>3, <5>1, <5>3 DEF TxInv
        <5>5. server'.tx => handle.tx \/ pl.end = "ok"
          BY <5>2, <5>4
        <5> QED BY <1>1, <5>1, <5>5 DEF TxInv
      <4>2. CASE q.call \in {"commit", "rollback", "drop_tx"}
        <5>1. server'.tx = FALSE
          BY <2>1, <4>2
        <5> QED BY <5>1 DEF TxInv
      <4>3. CASE q.call \notin {"begin", "commit", "rollback", "drop_tx"}
        <5>1. server'.tx = server.tx
          BY <2>1, <4>3
        <5> QED BY <1>1, <1>3, <3>1, <3>4, <4>3, <5>1 DEF TxInv
      <4> QED BY <4>1, <4>2, <4>3
    <3>12. AskedInv(conn', server', live, Own(op', handle').call)
      BY <1>1, <2>3 DEF call
    <3>13. LiveParts'
      BY <1>1, <2>7, <2>8, <3>1, <3>8, <3>9, <3>10, <3>11, <3>12 DEF LiveParts
    <3> QED BY <1>1, <3>4, <3>13, NotReturned
  <2>10. CASE q.id # live
    <3>1. plan' = plan
      BY <2>1, <2>10
    <3>2. server'.tx => server.tx
      <4>1. q.call # "begin"
        BY <2>3, <2>10
      <4> QED BY <2>1, <4>1
    <3>3. LiveInv(op', handle', live, plan, conn', inbox', server', nextId')
      <4>1. CASE live = 0
        BY <4>1 DEF LiveInv
      <4>2. CASE live # 0
        <5>1. plan = NoPlan /\ Unanswered(op, live, conn.chan, inbox, "up", sv)
          BY <2>5, <2>6, <4>2
        <5>2. live >= sv
          BY <5>1 DEF Unanswered
        <5>3. live >= tv
          BY <1>2, <2>2, <2>10, <5>2
        <5>4. Unanswered(op', live, conn'.chan, inbox', server'.up, tv)
          BY <1>1, <5>1, <5>3 DEF Unanswered
        <5> QED BY <5>1, <5>4 DEF LiveInv, tv
      <4> QED BY <4>1, <4>2
    <3>4. TxInv(op', handle', plan, server')
      BY <1>1, <1>3, <3>2, TxSame
    <3>5. AskedInv(conn', server', live, Own(op', handle').call)
      BY <1>1, <2>3 DEF call
    <3>6. LiveParts'
      BY <1>1, <1>3, <2>7, <2>8, <3>1, <3>3, <3>4, <3>5 DEF LiveParts
    <3>7. OwnAnswer'
      BY <1>1, <1>3, <2>1, <3>1, OwnCarried
    <3> QED BY <3>6, <3>7
  <2> QED BY <2>9, <2>10
<1> QED BY <1>2, <1>4, <1>5, ExecuteIs

\* The server says more, or leaves: what the call has of its answer stays.
LEMMA LiveServer ==
  SyncInv /\ server' \in Sessions /\ (Deliver \/ Notify \/ Disconnect \/ Hangup \/ Elapse) => LiveParts' /\ OwnAnswer'
<1> SUFFICES ASSUME SyncInv, server' \in Sessions, Deliver \/ Notify \/ Disconnect \/ Hangup \/ Elapse
             PROVE  LiveParts' /\ OwnAnswer'
  OBVIOUS
<1> DEFINE call == Own(op, handle).call
           sv == Unserved(conn, server, nextId)
<1>1. conn' = conn /\ live' = live /\ plan' = plan /\ nextId' = nextId
  BY DEF Deliver, Notify, Disconnect, Hangup, Elapse
<1>2. /\ op \in Ops /\ handle \in Handles /\ conn \in Conns /\ server \in Sessions /\ live \in Nat /\ nextId \in Nat
      /\ inbox \in Seq(Msgs) /\ conn.chan \in Seq(Msgs) /\ told \in Nat /\ Line
      /\ LineInv(conn, server, inbox, nextId)
  BY DEF SyncInv, TypeOK, Conns, Line
<1>3. /\ CallInv(op, live, plan) /\ AskedInv(conn, server, live, call) /\ ChanInv(conn.chan, live, inbox, server.up)
      /\ LiveInv(op, handle, live, plan, conn, inbox, server, nextId) /\ OwnAnswer
  BY DEF SyncInv, LiveParts
<1>4. SvKept
  BY <1>2, LineServer
<1> HIDE DEF call, sv
<1>5. CASE Deliver
  <2> DEFINE m == Head(server.stream)
  <2>1. /\ server.up = "up" /\ server.stream # <<>> /\ inbox' = Append(inbox, m) /\ server' = [server EXCEPT !.stream = Tail(@)]
        /\ op' = op /\ handle' = handle
    BY <1>5 DEF Deliver
  <2>2. /\ server'.up = "up" /\ server'.queue = server.queue /\ server'.stream = Tail(server.stream) /\ server'.tx = server.tx
        /\ server.stream \in Seq(Msgs)
    BY <1>2, <2>1 DEF Sessions
  <2>3. m = server.stream[1] /\ m \in Msgs /\ 1 \in 1 .. Len(server.stream)
    BY <2>1, <2>2, TailIs
  <2> HIDE DEF m
  <2>4. AskedInv(conn, server', live, call)
    BY <1>3, <2>1, <2>2, AskedSame
  <2>5. ChanInv(conn.chan, live, inbox', server'.up)
    BY <1>2, <1>3, <2>1, ChanUp
  <2>6. Moves(live, conn.chan, inbox, server, conn.chan, inbox', server')
    BY <1>2, <2>1, <2>2, MovesDeliver DEF m
  <2>7. ASSUME live # 0, plan = NoPlan, \A i \in 1 .. Len(inbox) : inbox[i].of # live
        PROVE  \A i \in 1 .. Len(inbox') : inbox'[i].of # live
    <3>1. live >= sv
      BY <1>3, <2>1, <2>7 DEF LiveInv, Unanswered, sv
    <3>2. m.of = sv - 1
      BY <1>2, <2>3 DEF LineInv, ServeInv, sv
    <3>3. sv \in Int
      BY <1>2, Numbers DEF sv
    <3>4. m.of # live
      BY <1>2, <3>1, <3>2, <3>3
    <3> QED BY <1>2, <2>1, <2>3, <2>7, <3>4, NoneMore
  <2> QED BY <1>1, <1>4, <2>1, <2>2, <2>4, <2>5, <2>6, <2>7, ServerSame DEF call
<1>6. CASE Notify
  <2>1. PICK is \in {"notification", "notice", "parameter"} : inbox' = Append(inbox, Msg(is, 0, told'))
    BY <1>6 DEF Notify
  <2>2. told' \in Nat /\ server' = server /\ server.up = "up" /\ op' = op /\ handle' = handle
    BY <1>2, <1>6 DEF Notify
  <2> DEFINE m == Msg(is, 0, told')
  <2>3. m \in Msgs /\ m.of = 0
    BY <2>2 DEF Msg, Msgs, Kinds
  <2>4. inbox' = Append(inbox, m)
    BY <2>1
  <2> HIDE DEF m
  <2>5. ChanInv(conn.chan, live, inbox', server'.up)
    BY <1>2, <1>3, <2>2, ChanUp
  <2>6. live # 0 => Moves(live, conn.chan, inbox, server, conn.chan, inbox', server')
    BY <1>2, <2>2, <2>3, <2>4, MovesAside
  <2>7. ASSUME live # 0, \A i \in 1 .. Len(inbox) : inbox[i].of # live
        PROVE  \A i \in 1 .. Len(inbox') : inbox'[i].of # live
    BY <1>2, <2>3, <2>4, <2>7, NoneMore
  <2> QED BY <1>1, <1>3, <1>4, <2>2, <2>5, <2>6, <2>7, ServerSame DEF call
<1>7. CASE Disconnect
  <2>1. server'.up # "up" /\ ~server'.tx /\ server.up = "up" /\ op' = op /\ handle' = handle
    BY <1>2, <1>7 DEF Disconnect, Sessions
  <2>2. AskedInv(conn, server', live, call)
    BY <2>1 DEF AskedInv
  <2>3. ChanInv(conn.chan, live, inbox', server'.up)
    BY <1>2, <1>3, <2>1, ChanUp
  <2>4. CASE inbox' = inbox
    <3>1. Moves(live, conn.chan, inbox, server, conn.chan, inbox', server')
      BY <2>1, <2>4, MovesNot
    <3> QED BY <1>1, <1>4, <2>1, <2>2, <2>3, <2>4, <3>1, ServerSame DEF call
  <2>5. CASE inbox' = Append(inbox, Msg("ErrorResponse", 0, 0))
    <3> DEFINE m == Msg("ErrorResponse", 0, 0)
    <3>1. m \in Msgs /\ m.of = 0
      BY DEF Msg, Msgs, Kinds
    <3>2. inbox' = Append(inbox, m)
      BY <2>5
    <3> HIDE DEF m
    <3>3. live # 0 => Moves(live, conn.chan, inbox, server, conn.chan, inbox', server')
      BY <1>2, <2>1, <3>1, <3>2, MovesAside
    <3>4. ASSUME live # 0, \A i \in 1 .. Len(inbox) : inbox[i].of # live
          PROVE  \A i \in 1 .. Len(inbox') : inbox'[i].of # live
      BY <1>2, <3>1, <3>2, <3>4, NoneMore
    <3> QED BY <1>1, <1>4, <2>1, <2>2, <2>3, <3>3, <3>4, ServerSame DEF call
  <2> QED BY <1>7, <2>4, <2>5 DEF Disconnect
<1>8. CASE Hangup
  <2>1. inbox' = inbox /\ server' = [server EXCEPT !.up = "eof"] /\ server.up = "fatal" /\ op' = op /\ handle' = handle
    BY <1>8 DEF Hangup
  <2>2. server'.up = "eof" /\ server'.tx = server.tx
    BY <1>2, <2>1 DEF Sessions
  <2>3. AskedInv(conn, server', live, call)
    BY <2>2 DEF AskedInv
  <2>4. ChanInv(conn.chan, live, inbox', server'.up)
    BY <1>3, <2>1, <2>2, ChanSame
  <2>5. Moves(live, conn.chan, inbox, server, conn.chan, inbox', server')
    BY <2>1, <2>2, MovesNot
  <2> QED BY <1>1, <1>4, <2>1, <2>2, <2>3, <2>4, <2>5, ServerSame DEF call
<1>9. CASE Elapse
  <2>1. inbox' = inbox /\ server' = server
    BY <1>9 DEF Elapse
  <2>2. /\ handle'.iter = handle.iter /\ handle'.given = handle.given /\ handle'.client = handle.client
        /\ handle'.tx = handle.tx
    BY <1>2, <1>9 DEF Elapse, Handles
  <2>3. /\ op'.call = op.call /\ op'.r = op.r /\ op'.id = op.id /\ (op.timer => op'.timer)
        /\ op' = op \/ (op'.call = "is_valid" /\ op.call = "is_valid")
    BY <1>2, <1>9 DEF Elapse, Ops
  <2>4. op'.timer => op'.call = "is_valid"
    BY <1>3, <2>3 DEF CallInv
  <2>5. Moves(live, conn.chan, inbox, server, conn'.chan, inbox', server')
    BY <1>1, <2>1, MovesNot
  <2>6. LiveParts'
    BY <1>1, <1>3, <1>4, <2>1, <2>2, <2>3, <2>4, <2>5, LiveCarried DEF call
  <2> QED BY <1>1, <1>3, <2>1, <2>2, <2>3, <2>6, OwnCarried
<1> QED BY <1>5, <1>6, <1>7, <1>8, <1>9

\* Nothing is asked yet, and the session is as the handle says.
LEMMA LineInit == Init => LineInv(conn, server, inbox, nextId)
<1> SUFFICES ASSUME Init PROVE LineInv(conn, server, inbox, nextId)
  OBVIOUS
<1>1. /\ conn.reqs = <<>> /\ conn.responses = <<>> /\ ~conn.closing /\ inbox = <<>> /\ nextId = 1
      /\ server.queue = <<>> /\ server.stream = <<>> /\ server.up = "up"
  BY DEF Init
<1>2. Oldest(conn, nextId) = 1 /\ Unsent(conn, nextId) = 1 /\ Unserved(conn, server, nextId) = 1
  BY <1>1 DEF Oldest, Unsent, Unserved
<1>3. AskInv(conn, nextId)
  BY <1>1, <1>2 DEF AskInv
<1>4. ServeInv(1, 1, conn.closing, server)
  BY <1>1 DEF ServeInv
<1>5. ArriveInv(1, 1, 1, server, inbox)
  BY <1>1 DEF ArriveInv, Ordered
<1> QED BY <1>2, <1>3, <1>4, <1>5 DEF LineInv

LEMMA SyncInit == Init => SyncInv
<1> SUFFICES ASSUME Init PROVE SyncInv
  OBVIOUS
<1>1. /\ op = Idle /\ live = 0 /\ plan = NoPlan /\ conn.reqs = <<>> /\ conn.chan = <<>> /\ ~conn.closed
      /\ handle.client /\ handle.iter = NoIter /\ handle.given = 0 /\ server.queue = <<>> /\ server.tx = handle.tx
  BY DEF Init
<1>2. op.call = "idle" /\ op.id = 0 /\ op.r.res = Pending /\ ~op.timer
  BY <1>1, StartType
<1>3. CallInv(op, live, plan)
  BY <1>1, <1>2 DEF CallInv, Asks, Requests, NotificationIters, Bound
<1>4. HandleInv(op, handle, live, plan)
  BY <1>1, <1>2 DEF HandleInv
<1>5. LastInv(op, handle, live, conn, server.up, nextId)
  BY <1>1 DEF LastInv
<1>6. AskedInv(conn, server, live, Own(op, handle).call)
  BY <1>1 DEF AskedInv, Named, Begins
<1>7. ChanInv(conn.chan, live, inbox, server.up)
  BY <1>1, ChanNone
<1>8. LiveInv(op, handle, live, plan, conn, inbox, server, nextId)
  BY <1>1 DEF LiveInv
<1>9. TxInv(op, handle, plan, server)
  BY <1>1 DEF TxInv
<1>10. LiveParts
  BY <1>3, <1>4, <1>5, <1>6, <1>7, <1>8, <1>9 DEF LiveParts
<1>11. OwnAnswer
  BY <1>2 DEF OwnAnswer, Returned
<1> QED BY <1>10, <1>11, TypeInit, LineInit DEF SyncInv

LEMMA SyncUnchanged == SyncInv /\ UNCHANGED vars => SyncInv'
<1> SUFFICES ASSUME SyncInv, UNCHANGED vars PROVE SyncInv'
  OBVIOUS
<1>1. /\ op' = op /\ handle' = handle /\ live' = live /\ conn' = conn /\ inbox' = inbox /\ server' = server
      /\ plan' = plan /\ nextId' = nextId
  BY DEF vars
<1>2. TypeOK'
  BY TypeStep DEF SyncInv
<1>3. LineInv(conn', server', inbox', nextId')
  BY <1>1 DEF SyncInv
<1>4. LiveParts'
  BY <1>1 DEF SyncInv, LiveParts
<1>5. OwnAnswer'
  BY <1>1 DEF SyncInv, OwnAnswer, Returned
<1> QED BY <1>2, <1>3, <1>4, <1>5 DEF SyncInv

\* Every step of the system keeps the invariant.
LEMMA SyncStep == SyncInv /\ [Next]_vars => SyncInv'
<1> SUFFICES ASSUME SyncInv, Next PROVE SyncInv'
  BY SyncUnchanged
<1>1. TypeOK' /\ server' \in Sessions
  BY TypeStep DEF SyncInv, TypeOK
<1>2. Line /\ server \in Sessions
  BY DEF SyncInv, TypeOK, Line
<1>3. LineInv(conn', server', inbox', nextId')
  <2>1. CASE Execute
    <3>1. UNCHANGED <<conn, inbox, nextId>>
      BY <2>1 DEF Execute
    <3>2. CASE Over(server')
      <4>1. LineInv(conn, server', inbox, nextId)
        BY <1>1, <1>2, <3>2, LineDown DEF Line, TypeOK, Over
      <4> QED BY <3>1, <4>1
    <3>3. ASSUME NEW q, NEW pl, Executes(q, pl) PROVE LineInv(conn', server', inbox', nextId')
      BY <1>1, <1>2, <2>1, <3>3, LineExecutes
    <3> QED BY <1>2, <2>1, <3>2, <3>3, ExecuteIs
  <2> QED BY <1>1, <1>2, <2>1, LinePollRead, LinePollFuture, LineApplication, LineServer DEF Next
<1>4. LiveParts' /\ OwnAnswer'
  BY <1>1, LivePollRead, LivePollFuture, LiveApplication, LiveExecute, LiveServer DEF Next
<1> QED BY <1>1, <1>3, <1>4 DEF SyncInv

LEMMA SyncHolds == Spec => []SyncInv
BY SyncInit, SyncStep, PTL DEF Spec

\* A call of the blocking client, or the next item of an iterator, returns what
\* the server made of that very request (Connection::poll_block_on, the
\* Responses channel, the loops of query.rs): nothing of a request that was
\* dropped, timed out or only sent, whatever arrived in between and however the
\* messages of the answer were spread over the polls of the future.  Otherwise
\* the session has ended, or is_valid's time was up.
THEOREM AnswersOwnRequest == Spec => []OwnAnswer
<1>1. SyncInv => OwnAnswer
  BY DEF SyncInv
<1> QED BY <1>1, SyncHolds, PTL

\* Once control is back in an application that holds no Transaction, the
\* session is in none: Client::transaction that fails, Transaction::commit and
\* rollback, and Drop for Transaction, which blocks on its rollback, return
\* when the server has dealt with them or the session has ended.
THEOREM NoTxWithoutHandle == Spec => []TxEndsWithHandle
<1>1. SyncInv => TxEndsWithHandle
  BY Resting DEF TxEndsWithHandle
<1> QED BY <1>1, SyncHolds, PTL
=============================================================================
