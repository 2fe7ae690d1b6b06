----------------------------- MODULE Statements -----------------------------
(***************************************************************************)
(* Prepared statements and type information of one Client: prepare, which  *)
(* looks up the types it meets (get_type, get_enum_variants,               *)
(* get_composite_fields, each with its own cached statement and possibly   *)
(* more types to look up), the use of a Statement, and its Close when the  *)
(* last clone of it is dropped.                                            *)
(*                                                                         *)
(* A task is one call of the application in progress: a stack of frames,   *)
(* one per async fn of prepare.rs, that share the Client's Mutex and the   *)
(* pipeline.  Every frame may own a Responses that is not read to its end  *)
(* while deeper frames make requests of their own.  The Connection is what *)
(* module Connection shows of it: it delivers the answers in order, and    *)
(* stops at one whose channel is full.                                     *)
(***************************************************************************)
EXTENDS Integers, Sequences, FiniteSets, SequencesExt

CONSTANTS
  Tasks,       \* application tasks that use the Client at the same time
  Types,       \* user-defined types (oids that Type::from_oid does not know)
  KindOf,      \* [Types -> {"enum", "elem", "fields", "simple"}]: pg_type
  PartsOf,     \* [Types -> Seq(Types)]: element, base type or fields
  UserQueries, \* the user's queries, each the types of its parameters and columns
  TypedRows,   \* rows of a query_typed, each a batch of its own
  MaxCalls,    \* bound on the calls the application makes
  MaxFaults    \* bound on requests refused, futures dropped, connections lost
               \* and calls of clear_type_cache

ASSUME StatementsAssumption ==
  /\ KindOf \in [Types -> {"enum", "elem", "fields", "simple"}]
  /\ PartsOf \in [Types -> Seq(Types)]
  /\ UserQueries \in SUBSET Seq(Types)
  /\ TypedRows \in Nat /\ MaxCalls \in Nat /\ MaxFaults \in Nat

VARIABLES
  calls,     \* calls made so far
  faults,    \* faults so far
  frames,    \* the call stack of each task
  handle,    \* the Statement each task's application holds, 0 if none
  slot,      \* cached_typeinfo: the three cached statements, 0 if None
  types,     \* cached_typeinfo: the version of each cached type, 0 if absent
  nextId,    \* NEXT_ID
  queue,     \* requests sent, not yet executed, in order
  wire,      \* answers not yet delivered, in order
  lost,      \* the connection is gone
  prepared,  \* server: its prepared statements
  version,   \* server: the version of the type definitions
  orphans,   \* history: statements prepare gave up after Parse was sent
  late       \* history: types cached by a lookup that a clear overtook

serverVars == <<prepared, version>>
cacheVars  == <<types, late>>
vars == <<calls, faults, frames, handle, slot, nextId, queue, wire, lost,
          serverVars, orphans, cacheVars>>

-----------------------------------------------------------------------------
Slots   == {"typeinfo", "enum", "composite"}
Nobody  == <<>>

\* The capacity of mpsc::channel(1): one, and one for its only sender.
ChanCap == 2

\* A call in progress: what it was called with, where it is, the Statement it
\* holds (prepare: the name it made up), the messages in the channel of its
\* Responses, the types it has yet to look up and the version it has read;
\* stale: a clear came in between.
Frame(fn, arg, pc) ==
  [fn |-> fn, arg |-> arg, pc |-> pc, stmt |-> 0, chan |-> 0, todo |-> <<>>,
   ver |-> 0, stale |-> FALSE]

SlotOf(f) == CASE f.fn = "type" -> "typeinfo" [] f.fn = "enum" -> "enum"
               [] OTHER -> "composite"

Init ==
  /\ calls = 0 /\ faults = 0
  /\ frames = [t \in Tasks |-> <<>>]
  /\ handle = [t \in Tasks |-> 0]
  /\ slot = [s \in Slots |-> 0]
  /\ types = [o \in Types |-> 0]
  /\ nextId = 1
  /\ queue = <<>> /\ wire = <<>> /\ lost = FALSE
  /\ prepared = {}
  /\ version = 1
  /\ orphans = {}
  /\ late = {}

-----------------------------------------------------------------------------
(***************************************************************************)
(* Statement: an Arc whose last drop sends Close.                          *)
(***************************************************************************)

\* Mutant: a call in progress borrows the cached Statement without a clone.
Clones_None(fs) == {}

\* Clones held by calls in progress, RowStreams and Rows included.
Clones(fs) ==
  UNION {{fs[t][i].stmt : i \in {j \in DOMAIN fs[t] : fs[t][j].fn # "prepare"}} : t \in Tasks}

\* The statements some Statement of the application, the cache or a call names.
Held(fs, sl, hd) ==
  (Clones(fs) \cup {sl[s] : s \in Slots} \cup {hd[t] : t \in Tasks}) \ {0}

\* Request or message q is for a Responses of task t at depth d or deeper.
IsFor(q, t, d) == q.to # Nobody /\ q.to[1] = t /\ q.to[2] >= d

\* Those Responses are dropped: what is for them is for nobody from then on.
Unaddress(q, t, d) ==
  [i \in DOMAIN q |-> IF IsFor(q[i], t, d) THEN [q[i] EXCEPT !.to = Nobody] ELSE q[i]]

Request(op, s, to, n) == [op |-> op, stmt |-> s, to |-> to, rows |-> n]

\* Mutant: a Statement replaced in the cache is forgotten without Close.
CloseAll_Forget(ss) == <<>>

\* Drop for StatementInner.
CloseAll(ss) == LET s == SetToSeq(ss) IN
  [i \in DOMAIN s |-> Request("close", s[i], Nobody, 0)]

\* Task t goes on with stack fs, slots sl, Statements hd and the requests req
\* sent; its Responses from depth d on are dropped, and so is every Statement
\* that nothing holds any more.
Go(t, fs, d, sl, hd, req) ==
  LET new == [frames EXCEPT ![t] = fs] IN
  /\ frames' = new /\ slot' = sl /\ handle' = hd
  /\ wire' = Unaddress(wire, t, d)
  /\ queue' = IF lost THEN <<>>
              ELSE Unaddress(queue, t, d) \o req
                     \o CloseAll(Held(frames, slot, handle) \ Held(new, sl, hd))

\* Something goes wrong.
Fault == faults < MaxFaults /\ faults' = faults + 1

\* The stack of t: its top frame, and the stack with the top changed to f.
Depth(t)   == Len(frames[t])
Top(t)     == frames[t][Depth(t)]
WithTop(t, f) == [frames[t] EXCEPT ![Depth(t)] = f]
Popped(t)  == SubSeq(frames[t], 1, Depth(t) - 1)
Stay(t, fs) == Go(t, fs, Len(fs) + 1, slot, handle, <<>>)

\* The call fails, and with it every caller up to the application: `?`.
\* A statement whose Parse was sent and that has no Statement is never closed.
Fail(t) ==
  /\ Go(t, <<>>, 1, slot, handle, <<>>)
  /\ orphans' = orphans \cup
       {frames[t][i].stmt : i \in {j \in 1 .. Depth(t) :
                              frames[t][j].fn = "prepare" /\ frames[t][j].stmt # 0}}

-----------------------------------------------------------------------------
(***************************************************************************)
(* The application.                                                        *)
(***************************************************************************)
\* Client::prepare of one of the user's queries: the types Type::from_oid does
\* not know among those the server will describe.
Prepare(t) ==
  /\ frames[t] = <<>> /\ handle[t] = 0 /\ calls < MaxCalls
  /\ calls' = calls + 1
  /\ \E q \in UserQueries : Stay(t, <<[Frame("prepare", "user", "send") EXCEPT !.todo = q]>>)
  /\ UNCHANGED <<faults, nextId, lost, serverVars, orphans, cacheVars>>

\* query or execute with the Statement, cloned by into_statement.
Execute(t) ==
  /\ frames[t] = <<>> /\ handle[t] # 0 /\ calls < MaxCalls
  /\ calls' = calls + 1
  /\ Stay(t, <<[Frame("execute", "user", "send") EXCEPT !.stmt = handle[t]]>>)
  /\ UNCHANGED <<faults, nextId, lost, serverVars, orphans, cacheVars>>

\* query_typed: Parse, Bind, Describe, Execute and Sync of an unnamed statement
\* in one request.
QueryTyped(t) ==
  /\ frames[t] = <<>> /\ handle[t] = 0 /\ calls < MaxCalls
  /\ calls' = calls + 1
  /\ \E q \in UserQueries : Stay(t, <<[Frame("typed", "user", "send") EXCEPT !.todo = q]>>)
  /\ UNCHANGED <<faults, nextId, lost, serverVars, orphans, cacheVars>>

\* The application drops its Statement; a RowStream may still be open.
DropStatement(t) ==
  /\ handle[t] # 0
  /\ frames[t] # <<>> => Top(t).fn = "execute" /\ Top(t).pc = "wait"
  /\ Go(t, frames[t], Depth(t) + 1, slot, [handle EXCEPT ![t] = 0], <<>>)
  /\ UNCHANGED <<calls, faults, nextId, lost, serverVars, orphans, cacheVars>>

\* The application drops the future of a call at one of its awaits.
Cancel(t) ==
  /\ frames[t] # <<>> /\ Top(t).pc = "wait"
  /\ Fault
  /\ Fail(t)
  /\ UNCHANGED <<calls, nextId, lost, serverVars, cacheVars>>

\* Mutant: the cached statements are dropped and the types kept.
Cleared_Not == types

\* The types after clear_type_cache.
Cleared == [o \in Types |-> 0]

\* Client::clear_type_cache.  Some other session has changed the definitions,
\* at the latest by now: that it may have been earlier only makes more of what
\* was read since the new definition.
ClearTypeCache ==
  /\ Fault /\ version' = version + 1
  /\ types' = Cleared /\ late' = {}
  /\ frames' = [t \in Tasks |->
                 [i \in DOMAIN frames[t] |->
                   [frames[t][i] EXCEPT !.stale = TRUE]]]
  /\ UNCHANGED <<calls, handle, slot, nextId, queue, wire, lost, prepared, orphans>>

-----------------------------------------------------------------------------
(***************************************************************************)
(* get_type and the statements it needs.                                   *)
(***************************************************************************)

\* get_type for the next type: the cache is asked first.
GetType(t) ==
  LET f == [Top(t) EXCEPT !.todo = Tail(@)]
      o == Head(Top(t).todo) IN
  /\ frames[t] # <<>> /\ Top(t).pc = "types" /\ Top(t).todo # <<>>
  /\ IF types[o] # 0 THEN Stay(t, WithTop(t, f))
                     ELSE Stay(t, Append(WithTop(t, f), Frame("type", o, "stmt")))
  /\ UNCHANGED <<calls, faults, nextId, lost, serverVars, orphans, cacheVars>>

\* typeinfo_statement, typeinfo_enum_statement, typeinfo_composite_statement:
\* a clone of the cached Statement, or a prepare of its query.
GetStatement(t) ==
  LET f == Top(t) IN
  /\ frames[t] # <<>> /\ f.pc = "stmt"
  /\ IF slot[SlotOf(f)] # 0
       THEN Stay(t, WithTop(t, [f EXCEPT !.stmt = slot[SlotOf(f)], !.pc = "send"]))
       ELSE Stay(t, Append(WithTop(t, [f EXCEPT !.pc = "called"]),
                           Frame("prepare", SlotOf(f), "send")))
  /\ UNCHANGED <<calls, faults, nextId, lost, serverVars, orphans, cacheVars>>

\* Rows of a query: one for each field of a composite type, else one.
RowsOf(f) ==
  CASE f.fn = "fields" -> Len(PartsOf[f.arg]) [] f.fn = "typed" -> TypedRows [] OTHER -> 1

\* InnerClient::send: Parse, Describe and Sync under a new name, or Bind,
\* Execute and Sync, or all of them.  It fails when the Connection is gone.
Send(t) ==
  LET f  == Top(t)
      to == <<t, Depth(t)>> IN
  /\ frames[t] # <<>> /\ f.pc = "send"
  /\ \/ lost /\ Fail(t) /\ UNCHANGED nextId
     \/ /\ ~lost /\ f.fn = "prepare"
        /\ nextId' = nextId + 1
        /\ Go(t, WithTop(t, [f EXCEPT !.stmt = nextId, !.pc = "wait"]), Depth(t) + 1,
              slot, handle, <<Request("parse", nextId, to, 0)>>)
        /\ UNCHANGED orphans
     \/ /\ ~lost /\ f.fn # "prepare"
        /\ Go(t, WithTop(t, [f EXCEPT !.pc = "wait"]), Depth(t) + 1,
              slot, handle,
              <<Request(IF f.fn = "typed" THEN "typed" ELSE "query", f.stmt, to, RowsOf(f))>>)
        /\ UNCHANGED <<nextId, orphans>>
  /\ UNCHANGED <<calls, faults, lost, serverVars, cacheVars>>

\* What get_type does with its row, kind by kind; the RowStream stays open.
AfterTypeRow(fs, f) ==
  LET d == Len(fs) IN
  CASE KindOf[f.arg] = "enum" ->
         Append([fs EXCEPT ![d] = [f EXCEPT !.pc = "called"]], Frame("enum", f.arg, "stmt"))
    [] KindOf[f.arg] = "fields" ->
         Append([fs EXCEPT ![d] = [f EXCEPT !.pc = "called"]], Frame("fields", f.arg, "stmt"))
    [] OTHER -> [fs EXCEPT ![d] = [f EXCEPT !.pc = "types", !.todo = PartsOf[f.arg]]]

\* Mutant: get_composite_fields looks up the fields as their rows come, with
\* the rest of the rows unread.
AfterFieldRow_Lazy(f) == [f EXCEPT !.pc = "types", !.todo = PartsOf[f.arg]]

\* get_composite_fields collects its rows first.
AfterFieldRow(f) == f

\* The stack fs, its top waiting, once message m has been read.
AfterMessage(fs, m) ==
  LET d == Len(fs)
      f == fs[d]
      Set(g) == [fs EXCEPT ![d] = g] IN
  CASE m.m = "described" -> Set([f EXCEPT !.pc = "types"])
    [] m.m = "row" /\ f.fn = "type"   -> AfterTypeRow(fs, [f EXCEPT !.ver = m.ver])
    [] m.m = "row" /\ f.fn = "fields" -> Set(AfterFieldRow(f))
    [] m.m = "row" /\ f.fn \notin {"type", "fields"} -> fs
    [] m.m = "complete" /\ f.fn # "type" -> fs
    [] m.m = "ready" /\ f.fn = "fields" ->
         Set([f EXCEPT !.pc = "types", !.todo = PartsOf[f.arg]])
    [] m.m = "ready" /\ f.fn # "fields" -> Set([f EXCEPT !.pc = "types"])
    [] m.m = "undefined" /\ f.fn = "prepare" /\ f.arg \in {"typeinfo", "enum"} ->
         Set([f EXCEPT !.pc = "again"])
    [] OTHER -> Set([f EXCEPT !.pc = "failed"])

\* The query for older servers is prepared in place of the one that failed.
Fallback(t) ==
  /\ frames[t] # <<>> /\ Top(t).pc = "again"
  /\ Go(t, WithTop(t, Frame("prepare", "fallback", "send")), Depth(t), slot, handle, <<>>)
  /\ UNCHANGED <<calls, faults, nextId, lost, serverVars, orphans, cacheVars>>

\* An error answer, or a closed channel: Error::db, unexpected_message, closed.
Return_Err(t) ==
  /\ frames[t] # <<>> /\ (Top(t).pc = "failed" \/ (lost /\ Top(t).pc = "wait"))
  /\ Fail(t)
  /\ UNCHANGED <<calls, faults, nextId, lost, serverVars, cacheVars>>

\* prepare returns its Statement: to the application, or to the call that
\* needs it, which also caches it.
ReturnPrepare(t) ==
  LET f == Top(t) IN
  /\ f.fn = "prepare"
  /\ IF Depth(t) = 1
       THEN Go(t, <<>>, 1, slot, [handle EXCEPT ![t] = f.stmt], <<>>)
       ELSE LET d == Depth(t) - 1
                c == frames[t][d]
            IN  Go(t, [Popped(t) EXCEPT ![d] = [c EXCEPT !.stmt = f.stmt, !.pc = "send"]],
                   d + 1, [slot EXCEPT ![SlotOf(c)] = f.stmt], handle, <<>>)
  /\ UNCHANGED cacheVars

\* get_type caches the type and returns.
ReturnType(t) ==
  LET f == Top(t) IN
  /\ f.fn = "type"
  /\ Stay(t, Popped(t))
  /\ types' = [types EXCEPT ![f.arg] = f.ver]
  /\ late' = IF f.stale THEN late \cup {f.arg} ELSE late \ {f.arg}

\* Everything behind the description of a query_typed has been read, or is in
\* the channel.
AllThere(f) == f.arg = "rows" \/ f.chan = TypedRows + 2

\* query_typed has its columns and returns the RowStream: it reads what the
\* channel has and waits for the rest.
ReadRows(t) ==
  LET f == Top(t) IN
  /\ frames[t] # <<>> /\ f.fn = "typed" /\ f.pc = "types" /\ f.todo = <<>>
  /\ ~AllThere(f)
  /\ Stay(t, WithTop(t, [f EXCEPT !.pc = "wait", !.arg = "rows", !.chan = 0]))
  /\ UNCHANGED <<calls, faults, nextId, lost, serverVars, orphans, cacheVars>>

\* get_enum_variants and get_composite_fields return to get_type, execute and
\* the RowStream of query_typed to the application.
ReturnRows(t) ==
  /\ Top(t).fn \in {"enum", "fields", "execute"} \/ (Top(t).fn = "typed" /\ AllThere(Top(t)))
  /\ Stay(t, IF Depth(t) = 1 THEN <<>>
             ELSE [Popped(t) EXCEPT ![Depth(t) - 1].pc = "types"])
  /\ UNCHANGED cacheVars

Return(t) ==
  /\ frames[t] # <<>> /\ Top(t).pc = "types" /\ Top(t).todo = <<>>
  /\ ReturnPrepare(t) \/ ReturnType(t) \/ ReturnRows(t)
  /\ UNCHANGED <<calls, faults, nextId, lost, serverVars, orphans>>

-----------------------------------------------------------------------------
(***************************************************************************)
(* The Connection and the server (external).                               *)
(***************************************************************************)

\* The next answer: read at once by a call that waits for it, kept in the
\* channel of one that does not, if there is room, paged into nothing if its
\* Responses was dropped.  One message at a time is the finest an answer arrives
\* in, and fills a channel most.
Deliver ==
  LET t == Head(wire).to[1]
      d == Head(wire).to[2] IN
  /\ wire # <<>>
  /\ \/ Head(wire).to = Nobody /\ UNCHANGED frames
     \/ /\ Head(wire).to # Nobody /\ d = Depth(t) /\ Top(t).pc = "wait"
        /\ frames' = [frames EXCEPT ![t] = AfterMessage(@, Head(wire))]
     \/ /\ Head(wire).to # Nobody /\ ~(d = Depth(t) /\ Top(t).pc = "wait")
        /\ frames[t][d].chan < ChanCap
        /\ frames' = [frames EXCEPT ![t][d].chan = @ + 1]
  /\ wire' = Tail(wire)
  /\ UNCHANGED <<calls, faults, handle, slot, nextId, queue, lost, serverVars, orphans, cacheVars>>

\* The answer to request r.  Described stands for ParseComplete, the parameters
\* and the columns, the first row for BindComplete and itself: the call that
\* reads the last of them has read the others.  An answer to nobody is left out.
Answer(r, ms) ==
  IF r.to = Nobody THEN <<>>
  ELSE [i \in DOMAIN ms |->
         [to |-> r.to, m |-> ms[i], ver |-> IF ms[i] = "row" THEN version ELSE 0]]

\* The server executes the next request, or refuses it.
Serve ==
  LET r == Head(queue) IN
  /\ queue # <<>> /\ ~lost
  /\ queue' = Tail(queue)
  /\ \/ /\ r.op = "parse" /\ UNCHANGED faults
        /\ prepared' = prepared \cup {r.stmt}
        /\ wire' = wire \o Answer(r, <<"described", "ready">>)
     \/ /\ r.op = "query" /\ r.stmt \in prepared /\ UNCHANGED faults
        /\ wire' = wire \o Answer(r, [i \in 1 .. r.rows |-> "row"] \o <<"complete", "ready">>)
        /\ UNCHANGED prepared
     \/ /\ r.op = "typed" /\ UNCHANGED faults
        /\ wire' = wire \o Answer(r, <<"described">> \o [i \in 1 .. r.rows |-> "row"]
                                      \o <<"complete", "ready">>)
        /\ UNCHANGED prepared
     \/ /\ r.op = "close" /\ UNCHANGED faults
        /\ prepared' = prepared \ {r.stmt}
        /\ UNCHANGED wire
     \/ /\ r.op # "close"
        /\ IF r.op = "query" /\ r.stmt \notin prepared THEN UNCHANGED faults ELSE Fault
        /\ \E e \in {"undefined", "error"} : wire' = wire \o Answer(r, <<e, "ready">>)
        /\ UNCHANGED prepared
  /\ UNCHANGED <<calls, frames, handle, slot, nextId, lost, version, orphans, cacheVars>>

\* The connection ends; the server forgets the session's statements.
Lose ==
  /\ ~lost /\ Fault
  /\ lost' = TRUE /\ queue' = <<>> /\ wire' = <<>> /\ prepared' = {}
  /\ UNCHANGED <<calls, frames, handle, slot, nextId, version, orphans, cacheVars>>

-----------------------------------------------------------------------------
Poll(t) ==
  \/ GetType(t) \/ GetStatement(t) \/ Send(t) \/ Fallback(t) \/ ReadRows(t)
  \/ Return(t) \/ Return_Err(t)

Next ==
  \/ \E t \in Tasks : Prepare(t) \/ Execute(t) \/ QueryTyped(t) \/ DropStatement(t) \/ Cancel(t)
                     \/ Poll(t)
  \/ ClearTypeCache \/ Deliver \/ Serve \/ Lose

Spec == Init /\ [][Next]_vars

-----------------------------------------------------------------------------
(***************************************************************************)
(* Properties.                                                             *)
(***************************************************************************)

\* A Bind finds its statement at the server: no Close overtakes the use of a
\* Statement another task replaced in the cache or the application dropped.
StatementExists ==
  queue # <<>> /\ Head(queue).op = "query" => Head(queue).stmt \in prepared

\* Once nothing is in progress, every statement at the server is held by the
\* application or the cache, whichever tasks raced to fill the cache; the only
\* exceptions are those of a prepare that was dropped or failed after Parse.
NoStatementLeak ==
  (\A t \in Tasks : frames[t] = <<>>) /\ queue = <<>> /\ ~lost =>
    /\ Held(frames, slot, handle) \subseteq prepared
    /\ prepared \subseteq Held(frames, slot, handle) \cup orphans

\* The Responses of an outer call, half read, never stops the Connection while
\* an inner call waits for an answer behind it: the call would never return.
NeverBlockedByCaller ==
  wire # <<>> /\ Head(wire).to # Nobody =>
    LET t == Head(wire).to[1]
        d == Head(wire).to[2]
    IN  d < Depth(t) => frames[t][d].chan < ChanCap

\* "this method can be used to flush the local cache and allow the new, updated
\* definitions to be loaded": a cached type is as new as the last
\* clear_type_cache, unless a lookup in progress at that moment cached it.
FreshAfterClear ==
  \A o \in Types : types[o] # 0 /\ o \notin late => types[o] = version
=============================================================================
