------------------------------- MODULE Query -------------------------------
(***************************************************************************)
(* How each kind of call reads the messages of its own answer: the loops   *)
(* over Responses in query.rs, simple_query.rs, bind.rs and copy_out.rs,   *)
(* as functions of what the call has read so far and the next message.     *)
(***************************************************************************)
EXTENDS Integers, Sequences

\* A message of the answer to request `of`; n numbers the rows, and is the
\* number in the tag of a CommandComplete.
Msg(is, of, n) == [is |-> is, of |-> of, n |-> n]

Result(is, items, n, why) == [is |-> is, items |-> items, n |-> n, why |-> why]
Pending == Result("pending", <<>>, 0, "")

\* The calls whose first poll awaits BindComplete (query::start and its copies).
Bound == {"execute", "query", "query_opt", "query_one", "query_raw", "bind", "copy_out"}

\* The calls that hand out a stream, which the application then reads.
Streams == {"query_raw", "copy_out"}

\* The loop a call's first message is read by.
First(call) ==
  CASE call \in Bound -> "start"
    [] call = "execute_typed" -> "count"
    [] call = "query_typed" -> "typed"
    [] call \in {"simple_query", "is_valid"} -> "simple"
    [] call \in {"begin", "commit", "rollback", "drop_tx", "batch_execute"} -> "batch"
    [] call = "query_portal" -> "rows"
    [] OTHER -> "sync"

\* A call's future: the loop it is in, what it has collected, its outcome.
Reader(call) == [call |-> call, pc |-> First(call), items |-> <<>>, n |-> 0, res |-> Pending]

Ok(r)       == [r EXCEPT !.res = Result("ok", r.items, r.n, "")]
Err(r, why) == [r EXCEPT !.res = Result("err", <<>>, 0, why)]
Goto(r, pc) == [r EXCEPT !.pc = pc]

\* An item of a stream: handed out, collected, or one too many.
Item(r, m) ==
  CASE r.call \in Streams -> [r EXCEPT !.res = Result("ok", <<m>>, 0, "")]
    [] r.call \in {"query_opt", "query_one"} /\ r.items # <<>> -> Err(r, "row_count")
    [] OTHER -> [r EXCEPT !.items = Append(@, m)]

\* The end of a stream.
End(r) ==
  CASE r.call \in Streams -> [r EXCEPT !.res = Result("none", <<>>, r.n, "")]
    [] r.call = "query_one" /\ r.items = <<>> -> Err(r, "row_count")
    [] OTHER -> Ok(r)

\* query::start, bind::bind and copy_out::start.
start(r, m) ==
  IF m.is # "BindComplete" THEN Err(r, "unexpected")
  ELSE CASE r.call = "bind"      -> Ok(r)
         [] r.call = "query_raw" -> Ok(Goto(r, "rows"))
         [] r.call = "copy_out"  -> Goto(r, "copy_start")
         [] r.call = "execute"   -> Goto(r, "count")
         [] OTHER                -> Goto(r, "rows")

copy_start(r, m) ==
  IF m.is = "CopyOutResponse" THEN Ok(Goto(r, "copy")) ELSE Err(r, "unexpected")

Described == {"ParseComplete", "BindComplete", "ParameterDescription"}

\* The loops of execute and execute_typed.
count(r, m) ==
  CASE m.is = "DataRow" -> r
    [] r.call = "execute_typed" /\ m.is \in Described \cup {"RowDescription"} -> r
    [] r.call = "execute_typed" /\ m.is = "NoData" -> [r EXCEPT !.n = 0]
    [] m.is = "CommandComplete" -> [r EXCEPT !.n = m.n]
    [] m.is = "EmptyQueryResponse" -> [r EXCEPT !.n = 0]
    [] m.is = "ReadyForQuery" -> Ok(r)
    [] OTHER -> Err(r, "unexpected")

\* query_typed until it knows the columns (their types known already: the
\* lookup of an unknown one is in module Statements).
typed(r, m) ==
  CASE m.is \in Described -> r
    [] m.is \in {"NoData", "RowDescription"} -> Goto(r, "rows")
    [] OTHER -> Err(r, "unexpected")

\* RowStream.
rows(r, m) ==
  CASE m.is = "DataRow" -> Item(r, m)
    [] m.is = "CommandComplete" -> [r EXCEPT !.n = m.n]
    [] m.is \in {"EmptyQueryResponse", "PortalSuspended"} -> r
    [] m.is = "ReadyForQuery" -> End(r)
    [] OTHER -> Err(r, "unexpected")

\* SimpleQueryStream, before and after it has columns.
simple(r, m) ==
  CASE m.is \in {"CommandComplete", "EmptyQueryResponse"} -> Item(r, m)
    [] m.is = "RowDescription" -> Item(Goto(r, "simple_rows"), m)
    [] m.is = "DataRow" /\ r.pc = "simple_rows" -> Item(r, m)
    [] m.is = "ReadyForQuery" -> End(r)
    [] OTHER -> Err(r, "unexpected")

batch_execute(r, m) ==
  CASE m.is = "ReadyForQuery" -> Ok(r)
    [] m.is \in {"CommandComplete", "EmptyQueryResponse", "RowDescription", "DataRow"} -> r
    [] OTHER -> Err(r, "unexpected")

\* CopyOutStream.
copy(r, m) ==
  CASE m.is = "CopyData" -> Item(r, m)
    [] m.is = "CopyDone" -> End(r)
    [] OTHER -> Err(r, "unexpected")

\* query::sync.
sync(r, m) == IF m.is = "ReadyForQuery" THEN Ok(r) ELSE Err(r, "unexpected")

\* Responses::next and the loop of the call: an ErrorResponse ends them all.
poll(r, m) ==
  IF r.res # Pending THEN r
  ELSE IF m.is = "ErrorResponse" THEN Err(r, "db")
  ELSE CASE r.pc = "start" -> start(r, m)
         [] r.pc = "copy_start" -> copy_start(r, m)
         [] r.pc = "count" -> count(r, m)
         [] r.pc = "typed" -> typed(r, m)
         [] r.pc = "rows" -> rows(r, m)
         [] r.pc \in {"simple", "simple_rows"} -> simple(r, m)
         [] r.pc = "batch" -> batch_execute(r, m)
         [] r.pc = "copy" -> copy(r, m)
         [] OTHER -> sync(r, m)
=============================================================================
