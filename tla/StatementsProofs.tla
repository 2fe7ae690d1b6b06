-------------------------- MODULE StatementsProofs --------------------------
(***************************************************************************)
(* Proofs about module Statements: a Bind finds its statement, nothing is  *)
(* left at the server but what is held or was given up, a type read after  *)
(* clear_type_cache is as new as it, and, unless a query_typed returns     *)
(* rows, an inner lookup is never stopped by its caller's answers.         *)
(***************************************************************************)
EXTENDS Statements, FiniteSetTheorems, TLAPS

-----------------------------------------------------------------------------
(***************************************************************************)
(* Types.                                                                  *)
(***************************************************************************)
Lookups == {"type", "enum", "fields"}
Fns     == {"prepare", "execute", "typed"} \cup Lookups
Pcs     == {"send", "wait", "types", "stmt", "called", "again", "failed"}
Args    == Types \cup Slots \cup {"user", "rows", "fallback"}
Tos     == {Nobody} \cup (Tasks \X Nat)
Kinds   == {"described", "undefined", "error", "row", "complete", "ready"}

\* A call in progress, a request and a message.
FrameSet == [fn : Fns, arg : Args, pc : Pcs, stmt : Nat, chan : Nat, todo : Seq(Types),
             ver : Nat, stale : BOOLEAN]
Asking   == [op : {"parse", "query", "typed", "close"}, stmt : Nat, to : Tos, rows : Nat]
Telling  == [to : Tos, m : Kinds, ver : Nat]

\* The type of every variable; a lost connection has neither requests nor answers.
TypeOK ==
  /\ frames \in [Tasks -> Seq(FrameSet)]
  /\ handle \in [Tasks -> Nat] /\ slot \in [Slots -> Nat] /\ types \in [Types -> Nat]
  /\ nextId \in Nat \ {0} /\ version \in Nat
  /\ queue \in Seq(Asking) /\ wire \in Seq(Telling)
  /\ lost \in BOOLEAN /\ (lost => queue = <<>> /\ wire = <<>>)

-----------------------------------------------------------------------------
(***************************************************************************)
(* The call stacks.                                                        *)
(***************************************************************************)

\* Where the functions of prepare.rs and query.rs are, with a Statement once
\* they have one.
FrameOk(f) ==
  /\ f.fn \in Lookups => f.arg \in Types
  /\ f.pc = "stmt" => f.fn \in Lookups /\ f.stmt = 0
  /\ f.pc = "again" => f.fn = "prepare"
  /\ f.pc = "called" => f.fn \in Lookups
  /\ f.fn = "prepare" => (f.stmt = 0 <=> f.pc = "send")
  /\ f.fn \in Lookups \cup {"execute"} => f.stmt # 0 \/ f.pc \in {"stmt", "called"}

\* Who calls whom.
Calls(f, g) ==
  \/ f.pc = "types" /\ g.fn = "type"
  \/ f.pc = "called" /\ f.stmt = 0 /\ g.fn = "prepare"
  \/ f.pc = "called" /\ f.stmt # 0 /\ f.fn = "type" /\ g.fn \in {"enum", "fields"}

\* A call stack starts with a call of the application, and each call is made by
\* the one below it.
StackOk(fs) ==
  /\ \A d \in 1 .. Len(fs) : FrameOk(fs[d])
  /\ fs # <<>> => fs[1].fn \notin Lookups
  /\ \A d \in 1 .. Len(fs) : d < Len(fs) => Calls(fs[d], fs[d + 1])

\* Every task has such a stack.
StackInv == \A t \in Tasks : StackOk(frames[t])

-----------------------------------------------------------------------------
(***************************************************************************)
(* The conversation of a Responses with the server.                        *)
(***************************************************************************)

\* What a call that waits may be told.
Answers(fn) ==
  CASE fn = "prepare" -> {"described", "undefined", "error", "ready"}
    [] fn = "typed"   -> Kinds
    [] OTHER          -> Kinds \ {"described"}

\* What may still come for f.
Expects(f, m) ==
  \/ f.pc = "wait" /\ m \in Answers(f.fn)
  \/ f.pc \in {"again", "failed"}
  \/ f.pc = "types" /\ f.fn = "prepare" /\ m = "ready"
  \/ f.pc = "types" /\ f.fn = "typed" /\ m \in {"row", "complete", "ready"}
  \/ f.pc = "types" /\ f.fn = "type" /\ m \in {"complete", "ready"}
  \/ f.pc = "called" /\ f.fn = "type" /\ f.stmt # 0 /\ m \in {"complete", "ready"}

\* The request that f waits for.
Asked(q, f) ==
  /\ f.pc = "wait"
  /\ \/ q.op = "parse" /\ f.fn = "prepare" /\ q.stmt = f.stmt
     \/ q.op = "typed" /\ f.fn = "typed" /\ q.rows = TypedRows
     \/ q.op = "query" /\ f.fn \notin {"prepare", "typed"} /\ (f.fn = "type" => q.rows = 1)

\* Nothing has been asked on behalf of f yet.
Unsent(f) == f.pc \in {"send", "stmt"} \/ (f.pc = "called" /\ f.stmt = 0)

\* The order of the messages of an answer.
Stage(m) == CASE m \in {"described", "undefined", "error"} -> 1
              [] m = "row" -> 2 [] m = "complete" -> 3 [] OTHER -> 4

\* The call that to addresses is in progress; and that call.
IsAt(to) == to # Nobody => to[2] \in 1 .. Len(frames[to[1]])
At(to)   == frames[to[1]][to[2]]

\* Every answer is for a call in progress that may still be told it; the answers
\* to one request are in order; a prepare that waits is told something before its
\* "ready"; a request is for a call that waits for it, has no answer yet and
\* has made no other.
TalkInv ==
  /\ \A i \in 1 .. Len(wire) : wire[i].to # Nobody =>
       IsAt(wire[i].to) /\ Expects(At(wire[i].to), wire[i].m)
  /\ \A i, j \in 1 .. Len(wire) : i < j /\ wire[i].to = wire[j].to /\ wire[i].to # Nobody =>
       \/ Stage(wire[i].m) < Stage(wire[j].m)
       \/ wire[i].m = "row" /\ wire[j].m = "row" /\ At(wire[i].to).fn # "type"
  /\ \A j \in 1 .. Len(wire) :
       wire[j].to # Nobody /\ wire[j].m = "ready" /\ At(wire[j].to).pc = "wait"
         /\ At(wire[j].to).fn = "prepare" =>
           \E i \in 1 .. j - 1 : wire[i].to = wire[j].to
  /\ \A i \in 1 .. Len(queue) : queue[i].to # Nobody =>
       /\ IsAt(queue[i].to) /\ Asked(queue[i], At(queue[i].to))
       /\ \A j \in 1 .. Len(wire) : wire[j].to # queue[i].to
       /\ \A j \in 1 .. Len(queue) : queue[j].to = queue[i].to => j = i

-----------------------------------------------------------------------------
(***************************************************************************)
(* The statements.                                                         *)
(***************************************************************************)
\* A Statement in the making.
InMaking(t, d) == t \in Tasks /\ d \in 1 .. Len(frames[t]) /\ frames[t][d].fn = "prepare"

\* Some prepare has made up the name s.
Made(s) == \E t \in Tasks : \E d \in 1 .. Len(frames[t]) :
             frames[t][d].fn = "prepare" /\ frames[t][d].stmt = s

\* A Close for s is on its way.
Closing(s) == \E i \in 1 .. Len(queue) : queue[i].op = "close" /\ queue[i].stmt = s

\* The statements named at present.
HeldNow == Held(frames, slot, handle)

\* No two prepares have made up the same name.
MadeInv ==
  \A t, u \in Tasks : \A d \in 1 .. Len(frames[t]) : \A e \in 1 .. Len(frames[u]) :
    frames[t][d].fn = "prepare" /\ frames[u][e].fn = "prepare" /\ frames[t][d].stmt # 0
      /\ frames[t][d].stmt = frames[u][e].stmt => t = u /\ d = e

\* What is known of a name that a prepare has made up.
MakingInv ==
  \A t \in Tasks : \A d \in 1 .. Len(frames[t]) :
    LET f == frames[t][d] IN
    f.fn = "prepare" /\ f.stmt # 0 =>
      /\ f.stmt < nextId /\ f.stmt \notin HeldNow \cup orphans
      /\ f.pc = "types" /\ ~lost => f.stmt \in prepared
      /\ f.pc = "again" => f.stmt \notin prepared
      /\ \A i \in 1 .. Len(wire) : wire[i].to = <<t, d>> =>
           /\ wire[i].m = "described" => f.stmt \in prepared
           /\ wire[i].m \in {"undefined", "error"} => f.stmt \notin prepared

\* What is named exists at the server, and no Close of it is on its way.
HeldInv ==
  \A s \in HeldNow : s < nextId /\ ~Closing(s) /\ (~lost => s \in prepared)

\* A Close is of a name nobody makes; a Bind finds its statement, with no Close
\* before it; a Parse is of a new name, and the only one of it.
QueueInv ==
  \A i \in 1 .. Len(queue) : LET q == queue[i] IN
    /\ q.op = "close" => q.to = Nobody /\ q.stmt < nextId /\ q.stmt # 0 /\ ~Made(q.stmt)
    /\ q.op = "query" => /\ q.stmt \in prepared
                         /\ \A j \in 1 .. i - 1 : queue[j].op = "close" => queue[j].stmt # q.stmt
    /\ q.op = "parse" =>
         /\ q.stmt \notin prepared /\ q.stmt < nextId /\ q.stmt # 0
         /\ q.to = Nobody => q.stmt \in orphans
         /\ \A j \in 1 .. Len(queue) : queue[j].op = "parse" /\ queue[j].stmt = q.stmt => j = i

\* Nothing is forgotten at the server.
ServerInv ==
  /\ \A s \in orphans : s < nextId /\ s \in Nat
  /\ ~lost => \A s \in prepared : s # 0 /\ (s \in HeldNow \cup orphans \/ Made(s) \/ Closing(s))

\* All that is known of the statements.
StmtInv == MadeInv /\ MakingInv /\ HeldInv /\ QueueInv /\ ServerInv

-----------------------------------------------------------------------------
\* What was read since the last clear_type_cache is of the present version.
FreshInv ==
  /\ FreshAfterClear
  /\ \A t \in Tasks : \A d \in 1 .. Len(frames[t]) :
       ~frames[t][d].stale => frames[t][d].ver \in {0, version}
  /\ \A i \in 1 .. Len(wire) : wire[i].to # Nobody /\ ~At(wire[i].to).stale =>
       wire[i].ver \in {0, version}

\* The room in a channel is that of the messages still to come.
ChanInv ==
  /\ \A t \in Tasks : \A d \in 1 .. Len(frames[t]) :
       frames[t][d].pc = "wait" \/ Unsent(frames[t][d]) => frames[t][d].chan = 0
  /\ \A i \in 1 .. Len(wire) : wire[i].to # Nobody /\ At(wire[i].to).pc \notin {"again", "failed"} =>
       /\ wire[i].m = "complete" => At(wire[i].to).chan = 0
       /\ wire[i].m = "ready" => At(wire[i].to).chan <= 1
       /\ wire[i].m = "row" => At(wire[i].to).fn # "typed"

\* The inductive invariant.
IInv == TypeOK /\ StackInv /\ TalkInv /\ StmtInv /\ FreshInv

-----------------------------------------------------------------------------
(***************************************************************************)
(* Sequences and sets.                                                     *)
(***************************************************************************)

\* SetToSeq puts every element of a finite set into a sequence.
LEMMA SetSeq ==
  ASSUME NEW S, IsFiniteSet(S)
  PROVE  /\ SetToSeq(S) \in [1 .. Cardinality(S) -> S]
         /\ Cardinality(S) \in Nat
         /\ \A x \in S : \E i \in 1 .. Cardinality(S) : SetToSeq(S)[i] = x
<1>1. Cardinality(S) \in Nat /\ ExistsBijection(1 .. Cardinality(S), S)
  BY FS_CardinalityType
<1>2. PICK g \in [1 .. Cardinality(S) -> S] : IsInjective(g)
  BY <1>1 DEF ExistsBijection, Bijection, Injection, IsInjective
<1>3. SetToSeq(S) \in [1 .. Cardinality(S) -> S] /\ IsInjective(SetToSeq(S))
  BY <1>2, Zenon DEF SetToSeq
<1>4. IsFiniteSet(1 .. Cardinality(S)) /\ Cardinality(1 .. Cardinality(S)) = Cardinality(S)
  BY <1>1, FS_Interval
<1>5. SetToSeq(S) \in Injection(1 .. Cardinality(S), S)
  BY <1>3 DEF Injection, IsInjective
<1>6. SetToSeq(S) \in Surjection(1 .. Cardinality(S), S)
  BY <1>4, <1>5, FS_Injection
<1> QED BY <1>1, <1>3, <1>6 DEF Surjection

\* Dropping Statements sends a Close for each of them and nothing else.
LEMMA CloseAllIs ==
  ASSUME NEW ss \in SUBSET Nat, IsFiniteSet(ss)
  PROVE  /\ CloseAll(ss) \in Seq(Asking)
         /\ \A i \in 1 .. Len(CloseAll(ss)) : \E s \in ss : CloseAll(ss)[i] = Request("close", s, Nobody, 0)
         /\ \A s \in ss : \E i \in 1 .. Len(CloseAll(ss)) : CloseAll(ss)[i] = Request("close", s, Nobody, 0)
<1> DEFINE n == Cardinality(ss)
           f == SetToSeq(ss)
           c == [i \in 1 .. n |-> Request("close", f[i], Nobody, 0)]
<1>1. f \in [1 .. n -> ss] /\ n \in Nat /\ \A x \in ss : \E i \in 1 .. n : f[i] = x
  BY SetSeq
<1>2. CloseAll(ss) = c
  BY <1>1 DEF CloseAll
<1>3. \A i \in 1 .. n : Request("close", f[i], Nobody, 0) \in Asking
  BY <1>1 DEF Request, Asking, Tos
<1> HIDE DEF f
<1>4. c \in [1 .. n -> Asking]
  BY <1>3
<1>5. c \in Seq(Asking) /\ Len(c) = n
  BY <1>1, <1>4
<1>6. \A i \in 1 .. n : c[i] = Request("close", f[i], Nobody, 0) /\ f[i] \in ss
  BY <1>1
<1>7. c \in Seq(Asking) /\ \A i \in 1 .. Len(c) : \E s \in ss : c[i] = Request("close", s, Nobody, 0)
  BY <1>5, <1>6
<1>8. ASSUME NEW s \in ss PROVE \E i \in 1 .. Len(c) : c[i] = Request("close", s, Nobody, 0)
  <2>1. PICK i \in 1 .. n : f[i] = s
    BY <1>1
  <2>2. i \in 1 .. Len(c) /\ c[i] = Request("close", f[i], Nobody, 0)
    BY <1>5, <1>6
  <2> QED BY <2>1, <2>2
<1> HIDE DEF c
<1> QED BY <1>2, <1>7, <1>8

\* Making requests or messages nobody's changes nothing else of them.
Unaddressed(q, S, t, d, r) ==
  /\ r \in Seq(S) /\ Len(r) = Len(q) /\ Len(q) \in Nat
  /\ \A i \in 1 .. Len(q) : r[i] = IF IsFor(q[i], t, d) THEN [q[i] EXCEPT !.to = Nobody] ELSE q[i]

\* Unaddress is such a change.
LEMMA UnaddressIs ==
  ASSUME NEW S, \A x \in S : [x EXCEPT !.to = Nobody] \in S, NEW q \in Seq(S), NEW t, NEW d
  PROVE  Unaddressed(q, S, t, d, Unaddress(q, t, d))
<1> DEFINE e(i) == IF IsFor(q[i], t, d) THEN [q[i] EXCEPT !.to = Nobody] ELSE q[i]
<1>1. Len(q) \in Nat /\ \A i \in 1 .. Len(q) : q[i] \in S
  OBVIOUS
<1>2. \A i \in 1 .. Len(q) : e(i) \in S
  BY <1>1
<1>3. Unaddress(q, t, d) = [i \in 1 .. Len(q) |-> e(i)]
  BY DEF Unaddress
<1> HIDE DEF e
<1>4. [i \in 1 .. Len(q) |-> e(i)] \in Seq(S) /\ Len([i \in 1 .. Len(q) |-> e(i)]) = Len(q)
  BY <1>1, <1>2
<1>5. \A i \in 1 .. Len(q) : [j \in 1 .. Len(q) |-> e(j)][i] = e(i)
  OBVIOUS
<1> QED BY <1>1, <1>3, <1>4, <1>5 DEF e, Unaddressed

\* So for the requests.
LEMMA AskingIs ==
  ASSUME NEW q \in Seq(Asking), NEW t, NEW d
  PROVE  Unaddressed(q, Asking, t, d, Unaddress(q, t, d))
<1>1. \A x \in Asking : [x EXCEPT !.to = Nobody] \in Asking
  BY DEF Asking, Tos
<1> QED BY <1>1, UnaddressIs

\* And for the messages.
LEMMA TellingIs ==
  ASSUME NEW q \in Seq(Telling), NEW t, NEW d
  PROVE  Unaddressed(q, Telling, t, d, Unaddress(q, t, d))
<1>1. \A x \in Telling : [x EXCEPT !.to = Nobody] \in Telling
  BY DEF Telling, Tos
<1> QED BY <1>1, UnaddressIs

\* The statements named in a state: by a call, the cache or the application.
IsNamed(fs, sl, hd, s) ==
  /\ s # 0
  /\ \/ \E t \in Tasks : \E i \in 1 .. Len(fs[t]) : fs[t][i].fn # "prepare" /\ fs[t][i].stmt = s
     \/ \E x \in Slots : sl[x] = s
     \/ \E t \in Tasks : hd[t] = s

\* Held is the set of the statements named.
LEMMA HeldIs ==
  ASSUME NEW fs \in [Tasks -> Seq(FrameSet)], NEW sl, NEW hd, NEW s
  PROVE  s \in Held(fs, sl, hd) <=> IsNamed(fs, sl, hd, s)
<1>1. \A t \in Tasks : DOMAIN fs[t] = 1 .. Len(fs[t])
  OBVIOUS
<1>2. s \in Clones(fs) <=> \E t \in Tasks : \E i \in 1 .. Len(fs[t]) : fs[t][i].fn # "prepare" /\ fs[t][i].stmt = s
  <2> DEFINE C(t) == {fs[t][i].stmt : i \in {j \in DOMAIN fs[t] : fs[t][j].fn # "prepare"}}
  <2>1. \A t \in Tasks : s \in C(t) <=> \E i \in 1 .. Len(fs[t]) : fs[t][i].fn # "prepare" /\ fs[t][i].stmt = s
    BY <1>1
  <2>2. Clones(fs) = UNION {C(t) : t \in Tasks}
    BY DEF Clones
  <2> HIDE DEF C
  <2>3. s \in UNION {C(t) : t \in Tasks} <=> \E t \in Tasks : s \in C(t)
    OBVIOUS
  <2> QED BY <2>1, <2>2, <2>3
<1>3. s \in {sl[x] : x \in Slots} <=> \E x \in Slots : sl[x] = s
  OBVIOUS
<1>4. s \in {hd[t] : t \in Tasks} <=> \E t \in Tasks : hd[t] = s
  OBVIOUS
<1> QED BY <1>2, <1>3, <1>4 DEF Held, IsNamed
-----------------------------------------------------------------------------
(***************************************************************************)
(* A step of a task: some calls return, go on or are made, the Responses   *)
(* of those from depth d on are dropped, and at most one request is sent.  *)
(***************************************************************************)

\* A call that goes on as g may still be told what f was to be told.
Kept(f, g) ==
  \/ g = f
  \/ Unsent(f)
  \/ /\ f.pc \in {"types", "called"} /\ g.fn = f.fn /\ g.stmt = f.stmt /\ g.stale = f.stale
     /\ g.chan <= f.chan
     /\ g.pc = "types" \/ (g.pc = "wait" /\ g.fn = "typed")
     /\ \A m \in Kinds : Expects(f, m) => Expects(g, m)

\* What Go does.
Goes(t, d, req) ==
  /\ t \in Tasks /\ d \in Nat \ {0}
  /\ \A u \in Tasks : u # t => frames'[u] = frames[u]
  /\ wire' = Unaddress(wire, t, d)
  /\ queue' = IF lost THEN <<>>
              ELSE Unaddress(queue, t, d) \o req \o CloseAll(HeldNow \ HeldNow')
  /\ UNCHANGED <<lost, prepared, version>>

\* The types of what such a step changes.
GoTypes(t) ==
  /\ frames' \in [Tasks -> Seq(FrameSet)] /\ StackOk(frames'[t])
  /\ handle' \in [Tasks -> Nat] /\ slot' \in [Slots -> Nat] /\ types' \in [Types -> Nat]
  /\ nextId' \in {nextId, nextId + 1}

\* The request is that of a call that had asked nothing.
Sends(t, d, r) ==
  /\ r \in Asking /\ ~lost
  /\ r.op = "parse" => r.stmt = nextId /\ nextId' = nextId + 1
  /\ r.op = "query" => r.stmt \in HeldNow
  /\ \E e \in 1 .. Len(frames[t]) :
       /\ e < d /\ e \in 1 .. Len(frames'[t]) /\ r.to = <<t, e>>
       /\ Unsent(frames[t][e]) /\ Asked(r, frames'[t][e])

\* The calls at a depth below d go on.
Keeps(t, d) == \A e \in 1 .. Len(frames[t]) : e < d =>
                 e \in 1 .. Len(frames'[t]) /\ Kept(frames[t][e], frames'[t][e])

\* The prepare at depth e goes on, with the name it has made up.
Stays(t, d, e) ==
  /\ e < d /\ e \in 1 .. Len(frames[t]) /\ e \in 1 .. Len(frames'[t])
  /\ frames[t][e].fn = "prepare" /\ frames'[t][e].fn = "prepare"
  /\ frames'[t][e].stmt = frames[t][e].stmt
  /\ frames'[t][e].pc \in {"types", "again"} => frames[t][e].pc = frames'[t][e].pc

\* The prepare at depth e is gone.
Leaves(t, d, e) ==
  e \in 1 .. Len(frames[t]) /\ frames[t][e].fn = "prepare" /\ frames[t][e].stmt # 0 /\ ~Stays(t, d, e)

\* What becomes of the statements: a prepare goes on, gives its name to a
\* Statement, gives it up, or has failed; a new one makes one up.
Names(t, d, req) ==
  /\ \A e \in 1 .. Len(frames'[t]) : frames'[t][e].fn = "prepare" /\ frames'[t][e].stmt # 0 =>
       \/ Stays(t, d, e)
       \/ /\ e = Len(frames'[t]) /\ e < d /\ e \in 1 .. Len(frames[t]) /\ Unsent(frames[t][e])
          /\ frames'[t][e].pc = "wait" /\ frames'[t][e].stmt = nextId /\ nextId' = nextId + 1
  /\ \A e \in 1 .. Len(frames[t]) : Leaves(t, d, e) =>
       \/ frames[t][e].stmt \in orphans'
       \/ frames[t][e].pc = "types" /\ frames[t][e].stmt \in HeldNow'
       \/ frames[t][e].pc = "again"
  /\ \A s \in HeldNow' : s \in HeldNow \/
       \E e \in 1 .. Len(frames[t]) : Leaves(t, d, e) /\ frames[t][e].pc = "types" /\ frames[t][e].stmt = s
  /\ orphans \subseteq orphans'
  /\ \A s \in orphans' : s \in orphans \/
       \E e \in 1 .. Len(frames[t]) : Leaves(t, d, e) /\ frames[t][e].stmt = s

\* Such a step of task t.
Moves(t, d, req) ==
  /\ Goes(t, d, req) /\ GoTypes(t) /\ Keeps(t, d) /\ Names(t, d, req)
  /\ req = <<>> \/ \E r \in Asking : req = <<r>> /\ Sends(t, d, r)

\* One sequence after another.
Joined(a, b, S, r) ==
  /\ r \in Seq(S) /\ Len(a) \in Nat /\ Len(b) \in Nat /\ Len(r) = Len(a) + Len(b)
  /\ \A i \in 1 .. Len(a) : r[i] = a[i]
  /\ \A i \in 1 .. Len(b) : r[Len(a) + i] = b[i]

\* Concatenation is such a sequence.
LEMMA JoinedIs ==
  ASSUME NEW S, NEW a \in Seq(S), NEW b \in Seq(S) PROVE Joined(a, b, S, a \o b)
BY DEF Joined

\* A statement that is named has a number.
LEMMA HeldNat ==
  ASSUME TypeOK, NEW s \in HeldNow PROVE s \in Nat /\ s # 0
<1>1. frames \in [Tasks -> Seq(FrameSet)] /\ slot \in [Slots -> Nat] /\ handle \in [Tasks -> Nat]
  BY DEF TypeOK
<1>2. \A v \in Tasks : \A i \in 1 .. Len(frames[v]) : frames[v][i].stmt \in Nat
  <2> SUFFICES ASSUME NEW v \in Tasks, NEW i \in 1 .. Len(frames[v]) PROVE frames[v][i].stmt \in Nat
    OBVIOUS
  <2>1. frames[v] \in Seq(FrameSet)
    BY <1>1
  <2>2. frames[v][i] \in FrameSet
    BY <2>1
  <2> QED BY <2>2 DEF FrameSet
<1>3. IsNamed(frames, slot, handle, s)
  <2>1. s \in Held(frames, slot, handle)
    BY DEF HeldNow
  <2> QED BY <1>1, <2>1, HeldIs
<1>4. \A x \in Slots : slot[x] \in Nat
  BY <1>1
<1>5. \A v \in Tasks : handle[v] \in Nat
  BY <1>1
<1> QED BY <1>2, <1>3, <1>4, <1>5 DEF IsNamed

\* Whoever has a place is somebody.
LEMMA Somebody ==
  /\ \A x, y : <<x, y>> # Nobody
  /\ \A x \in Tasks : \A n : \A y \in 1 .. n : <<x, y>> \in Tos
<1>1. \A x, y : <<x, y>> # Nobody
  BY DEF Nobody
<1>2. ASSUME NEW x \in Tasks, NEW n, NEW y \in 1 .. n PROVE <<x, y>> \in Tos
  <2>1. y \in Nat
    OBVIOUS
  <2> QED BY <2>1 DEF Tos
<1> QED BY <1>1, <1>2

\* The requests after such a step: those before it, the one sent, the Closes.
LEMMA QueueAfter ==
  ASSUME TypeOK, StmtInv, NEW t, NEW d, NEW req, Moves(t, d, req), ~lost
  PROVE  /\ queue' \in Seq(Asking) /\ Len(queue) \in Nat /\ Len(queue') \in Nat
         /\ \A i \in 1 .. Len(queue) :
              /\ i \in 1 .. Len(queue')
              /\ queue'[i] = IF IsFor(queue[i], t, d) THEN [queue[i] EXCEPT !.to = Nobody] ELSE queue[i]
         /\ \A i \in 1 .. Len(queue') :
              \/ i \in 1 .. Len(queue)
              \/ i = Len(queue) + 1 /\ req = <<queue'[i]>>
              \/ i > Len(queue) /\ \E s \in HeldNow \ HeldNow' : queue'[i] = Request("close", s, Nobody, 0)
         /\ \A s \in HeldNow \ HeldNow' : \E i \in 1 .. Len(queue') :
              queue'[i] = Request("close", s, Nobody, 0)
         /\ \A i, j \in 1 .. Len(queue') :
              i > Len(queue) /\ j > Len(queue) /\ queue'[i].op # "close" /\ queue'[j].op # "close" => i = j
         /\ req # <<>> => \E i \in 1 .. Len(queue') : i = Len(queue) + 1 /\ req = <<queue'[i]>>
<1> DEFINE ss == HeldNow \ HeldNow'
           u  == Unaddress(queue, t, d)
           c  == CloseAll(ss)
<1>1. queue \in Seq(Asking) /\ Asking \in {Asking, Telling} /\ frames \in [Tasks -> Seq(FrameSet)]
      /\ slot \in [Slots -> Nat] /\ handle \in [Tasks -> Nat] /\ nextId \in Nat \ {0}
  BY DEF TypeOK
<1>2. u \in Seq(Asking) /\ Len(u) = Len(queue) /\ Len(queue) \in Nat
      /\ \A i \in 1 .. Len(queue) :
           u[i] = IF IsFor(queue[i], t, d) THEN [queue[i] EXCEPT !.to = Nobody] ELSE queue[i]
  <2>1. Unaddressed(queue, Asking, t, d, u)
    BY <1>1, AskingIs
  <2> HIDE DEF u
  <2> QED BY <2>1 DEF Unaddressed
<1>3. HeldNow \subseteq 1 .. nextId - 1
  <2> SUFFICES ASSUME NEW s \in HeldNow PROVE s \in 1 .. nextId - 1
    OBVIOUS
  <2>1. s \in Nat /\ s # 0
    BY HeldNat
  <2>2. s < nextId
    BY DEF StmtInv, HeldInv
  <2> QED BY <1>1, <2>1, <2>2
<1>4. IsFiniteSet(ss) /\ ss \in SUBSET Nat
  <2>1. IsFiniteSet(1 .. nextId - 1)
    BY <1>1, FS_Interval
  <2>2. ss \subseteq 1 .. nextId - 1
    BY <1>3
  <2> HIDE DEF ss
  <2>3. IsFiniteSet(ss)
    BY <2>1, <2>2, FS_Subset
  <2>4. 1 .. nextId - 1 \subseteq Nat
    BY <1>1
  <2> QED BY <2>2, <2>3, <2>4
<1> HIDE DEF ss
<1>5. /\ c \in Seq(Asking)
      /\ \A i \in 1 .. Len(c) : \E s \in ss : c[i] = Request("close", s, Nobody, 0)
      /\ \A s \in ss : \E i \in 1 .. Len(c) : c[i] = Request("close", s, Nobody, 0)
  BY <1>4, CloseAllIs
<1>6. queue' = u \o req \o c
  BY DEF Moves, Goes, ss
<1>7. req \in Seq(Asking) /\ Len(req) \in {0, 1} /\ (Len(req) = 1 => req = <<req[1]>>) /\ (req # <<>> => Len(req) = 1)
  <2>1. CASE req = <<>>
    BY <2>1
  <2>2. CASE \E r \in Asking : req = <<r>>
    BY <2>2
  <2> QED BY <2>1, <2>2 DEF Moves
<1> HIDE DEF u, c
<1>8. Len(u) \in Nat /\ Len(c) \in Nat /\ Len(req) \in Nat
  BY <1>2, <1>5, <1>7
<1>9. PICK v : v = u \o req /\ Joined(u, req, Asking, v)
  BY <1>2, <1>7, JoinedIs
<1>10. Joined(v, c, Asking, queue')
  <2>1. v \in Seq(Asking)
    BY <1>9 DEF Joined
  <2> QED BY <1>5, <1>6, <1>9, <2>1, JoinedIs
<1>11. queue' \in Seq(Asking) /\ Len(queue') = Len(queue) + Len(req) + Len(c)
  BY <1>2, <1>9, <1>10 DEF Joined
<1>12. /\ \A i \in 1 .. Len(queue) : i \in 1 .. Len(queue') /\ queue'[i] = u[i]
       /\ \A i \in 1 .. Len(req) : queue'[Len(queue) + i] = req[i] /\ Len(queue) + i \in 1 .. Len(queue')
       /\ \A i \in 1 .. Len(c) : /\ queue'[Len(queue) + Len(req) + i] = c[i]
                                 /\ Len(queue) + Len(req) + i \in 1 .. Len(queue')
  <2>1. Len(v) = Len(queue) + Len(req)
    BY <1>2, <1>9 DEF Joined
  <2>2. \A i \in 1 .. Len(queue) : i \in 1 .. Len(v) /\ i \in 1 .. Len(queue') /\ i \in 1 .. Len(u)
    BY <1>2, <1>8, <1>11, <2>1
  <2>3. \A i \in 1 .. Len(req) : Len(queue) + i \in 1 .. Len(v) /\ Len(queue) + i \in 1 .. Len(queue')
    BY <1>2, <1>8, <1>11, <2>1
  <2>4. \A i \in 1 .. Len(c) : Len(queue) + Len(req) + i \in 1 .. Len(queue')
    BY <1>2, <1>8, <1>11, <2>1
  <2>5. \A i \in 1 .. Len(queue) : queue'[i] = u[i]
    BY <1>9, <1>10, <2>2 DEF Joined
  <2>6. \A i \in 1 .. Len(req) : queue'[Len(queue) + i] = req[i]
    BY <1>2, <1>9, <1>10, <2>3 DEF Joined
  <2>7. \A i \in 1 .. Len(c) : queue'[Len(queue) + Len(req) + i] = c[i]
    BY <1>10, <2>1 DEF Joined
  <2> QED BY <2>2, <2>3, <2>4, <2>5, <2>6, <2>7
<1>13. \A i \in 1 .. Len(queue') :
              \/ i \in 1 .. Len(queue)
              \/ i = Len(queue) + 1 /\ req = <<queue'[i]>>
              \/ i > Len(queue) /\ \E s \in ss : queue'[i] = Request("close", s, Nobody, 0)
  <2> SUFFICES ASSUME NEW i \in 1 .. Len(queue'), i \notin 1 .. Len(queue),
                      ~(i = Len(queue) + 1 /\ req = <<queue'[i]>>)
               PROVE  i > Len(queue) /\ \E s \in ss : queue'[i] = Request("close", s, Nobody, 0)
    OBVIOUS
  <2>1. i > Len(queue) + Len(req)
    <3>1. CASE req = <<>>
      BY <1>2, <1>11, <3>1
    <3>2. CASE req # <<>>
      <4>1. Len(req) = 1 /\ req = <<req[1]>> /\ 1 \in 1 .. Len(req)
        BY <1>7, <3>2
      <4>2. queue'[Len(queue) + 1] = req[1]
        BY <1>12, <4>1
      <4>3. i # Len(queue) + 1
        BY <4>1, <4>2
      <4> QED BY <1>2, <1>8, <1>11, <4>1, <4>3
    <3> QED BY <3>1, <3>2
  <2>2. i - (Len(queue) + Len(req)) \in 1 .. Len(c)
    BY <1>2, <1>8, <1>11, <2>1
  <2>3. PICK k \in 1 .. Len(c) : i = Len(queue) + Len(req) + k
    BY <1>2, <1>8, <2>2
  <2>4. queue'[i] = c[k]
    BY <1>12, <2>3
  <2> QED BY <1>2, <1>5, <1>8, <2>1, <2>4
<1>14. \A s \in ss : \E i \in 1 .. Len(queue') : queue'[i] = Request("close", s, Nobody, 0)
  <2> SUFFICES ASSUME NEW s \in ss PROVE \E i \in 1 .. Len(queue') : queue'[i] = Request("close", s, Nobody, 0)
    OBVIOUS
  <2>1. PICK i \in 1 .. Len(c) : c[i] = Request("close", s, Nobody, 0)
    BY <1>5
  <2> QED BY <1>12, <2>1
<1>15. req # <<>> => \E i \in 1 .. Len(queue') : i = Len(queue) + 1 /\ req = <<queue'[i]>>
  <2> SUFFICES ASSUME req # <<>> PROVE \E i \in 1 .. Len(queue') : i = Len(queue) + 1 /\ req = <<queue'[i]>>
    OBVIOUS
  <2>1. 1 \in 1 .. Len(req) /\ req = <<req[1]>>
    BY <1>7
  <2> QED BY <1>12, <2>1
<1>16. \A s : Request("close", s, Nobody, 0).op = "close"
  BY DEF Request
<1>17. \A i \in 1 .. Len(queue') : i > Len(queue) /\ queue'[i].op # "close" => i = Len(queue) + 1
  BY <1>2, <1>13, <1>16
<1> HIDE DEF HeldNow
<1> QED BY <1>2, <1>11, <1>12, <1>13, <1>14, <1>15, <1>17 DEF ss

\* What such a step does besides.
LEMMA MovesAlso ==
  ASSUME NEW t, NEW d, NEW req, Moves(t, d, req)
  PROVE  /\ t \in Tasks /\ d \in Nat \ {0} /\ (lost => queue' = <<>>)
         /\ lost' = lost /\ prepared' = prepared /\ version' = version
         /\ \A u \in Tasks : u # t => frames'[u] = frames[u]
BY DEF Moves, Goes

\* The messages after such a step are those before it.
LEMMA WireAfter ==
  ASSUME TypeOK, NEW t, NEW d, NEW req, Moves(t, d, req)
  PROVE  /\ wire' \in Seq(Telling) /\ Len(wire') = Len(wire) /\ Len(wire) \in Nat
         /\ \A i \in 1 .. Len(wire) :
              /\ wire[i] \in Telling
              /\ wire'[i] = IF IsFor(wire[i], t, d) THEN [wire[i] EXCEPT !.to = Nobody] ELSE wire[i]
<1>1. wire \in Seq(Telling) /\ wire' = Unaddress(wire, t, d)
  BY DEF TypeOK, Moves, Goes
<1>2. Unaddressed(wire, Telling, t, d, wire')
  BY <1>1, TellingIs
<1> QED BY <1>1, <1>2 DEF Unaddressed

\* Types and call stacks are kept.
LEMMA MovesType ==
  ASSUME TypeOK, StackInv, StmtInv, NEW t, NEW d, NEW req, Moves(t, d, req)
  PROVE  TypeOK' /\ StackInv'
<1>1. wire' \in Seq(Telling) /\ (lost => wire' = <<>>)
  <2>1. wire' \in Seq(Telling) /\ Len(wire') = Len(wire)
    BY WireAfter
  <2>2. wire = <<>> => wire' = <<>>
    BY <2>1
  <2> QED BY <2>1, <2>2 DEF TypeOK
<1>2. queue' \in Seq(Asking) /\ (lost => queue' = <<>>)
  <2>1. CASE lost
    BY <2>1 DEF Moves, Goes
  <2>2. CASE ~lost
    BY <2>2, QueueAfter
  <2> QED BY <2>1, <2>2
<1>3. TypeOK'
  BY <1>1, <1>2 DEF TypeOK, Moves, GoTypes, Goes
<1>4. StackInv'
  <2> SUFFICES ASSUME NEW u \in Tasks PROVE StackOk(frames'[u])
    BY DEF StackInv
  <2> QED BY DEF StackInv, Moves, GoTypes, Goes
<1> QED BY <1>3, <1>4

\* Whoever is still to be told something is still there.
LEMMA KeptAt ==
  ASSUME TypeOK, NEW t, NEW d, NEW req, Moves(t, d, req), NEW to \in Tos,
         to # Nobody, IsAt(to), to[1] = t => to[2] < d
  PROVE  IsAt(to)' /\ Kept(At(to), At(to)') /\ to[1] \in Tasks /\ to[2] \in Nat
<1>1. to[1] \in Tasks /\ to[2] \in Nat /\ to[2] \in 1 .. Len(frames[to[1]])
  BY DEF Tos, IsAt
<1>2. CASE to[1] = t
  BY <1>1, <1>2 DEF Moves, Keeps, At, IsAt
<1>3. CASE to[1] # t
  BY <1>1, <1>3 DEF Moves, Goes, At, IsAt, Kept
<1> QED BY <1>1, <1>2, <1>3

\* What is for somebody after such a step was so before it.
LEMMA StillFor ==
  ASSUME NEW S, NEW q, NEW r, NEW t \in Tasks, NEW d \in Nat, q.to \in Tos, r.to # Nobody,
         r = IF IsFor(q, t, d) THEN [q EXCEPT !.to = Nobody] ELSE q
  PROVE  r = q /\ (q.to[1] = t => q.to[2] < d)
<1>1. ~IsFor(q, t, d)
  <2>1. ASSUME IsFor(q, t, d) PROVE FALSE
    BY <2>1 DEF IsFor, Tos
  <2> QED BY <2>1
<1>2. r = q /\ q.to \in Tasks \X Nat
  BY <1>1 DEF Tos
<1> QED BY <1>1, <1>2 DEF IsFor

\* A message that may come for f may come for what f goes on as.
LEMMA KeptTalk ==
  ASSUME NEW f, NEW g, Kept(f, g), NEW m \in Kinds, Expects(f, m)
  PROVE  /\ Expects(g, m) /\ g.fn = f.fn /\ g.stale = f.stale
         /\ g.pc = "wait" /\ g.fn = "prepare" => g = f
         /\ g = f \/ (f.pc \in {"types", "called"} /\ g.chan <= f.chan /\ g.stmt = f.stmt /\ g.pc \in {"types", "wait"})
<1>1. ~Unsent(f)
  BY DEF Unsent, Expects
<1> QED BY <1>1 DEF Kept

\* A message that is for somebody after such a step, and whom it is for.
LEMMA WireStill ==
  ASSUME TypeOK, TalkInv, NEW t, NEW d, NEW req, Moves(t, d, req),
         NEW i \in 1 .. Len(wire), wire'[i].to # Nobody
  PROVE  /\ wire'[i] = wire[i] /\ wire[i].m \in Kinds /\ wire[i].to \in Tos
         /\ IsAt(wire[i].to) /\ Expects(At(wire[i].to), wire[i].m)
         /\ IsAt(wire[i].to)' /\ Kept(At(wire[i].to), At(wire[i].to)')
<1>1. wire[i] \in Telling /\ t \in Tasks /\ d \in Nat
      /\ wire'[i] = IF IsFor(wire[i], t, d) THEN [wire[i] EXCEPT !.to = Nobody] ELSE wire[i]
  BY WireAfter DEF Moves, Goes
<1>2. wire[i].to \in Tos /\ wire[i].m \in Kinds
  BY <1>1 DEF Telling
<1>3. wire'[i] = wire[i] /\ (wire[i].to[1] = t => wire[i].to[2] < d)
  BY <1>1, <1>2, StillFor
<1>4. IsAt(wire[i].to) /\ Expects(At(wire[i].to), wire[i].m)
  BY <1>3 DEF TalkInv
<1>5. PICK a : a = wire[i].to
  OBVIOUS
<1>6. IsAt(a)' /\ Kept(At(a), At(a)')
  BY <1>2, <1>3, <1>4, <1>5, KeptAt
<1>7. IsAt(wire[i].to)' /\ At(a)' = At(wire[i].to)'
  <2>1. a = wire'[i].to
    BY <1>3, <1>5
  <2> QED BY <1>5, <1>6, <2>1, <1>3 DEF IsAt, At
<1> QED BY <1>2, <1>3, <1>4, <1>5, <1>6, <1>7

\* The request of a call that has asked nothing meets no other and no answer.
LEMMA UnsentAlone ==
  ASSUME TypeOK, TalkInv, NEW to \in Tos, to # Nobody, Unsent(At(to))
  PROVE  /\ \A j \in 1 .. Len(wire) : wire[j].to # to
         /\ \A j \in 1 .. Len(queue) : queue[j].to # to
<1>1. \A m : ~Expects(At(to), m)
  BY DEF Unsent, Expects
<1>2. \A q : ~Asked(q, At(to))
  BY DEF Unsent, Asked
<1>3. ASSUME NEW j \in 1 .. Len(wire), wire[j].to = to PROVE FALSE
  BY <1>1, <1>3 DEF TalkInv
<1>4. ASSUME NEW j \in 1 .. Len(queue), queue[j].to = to PROVE FALSE
  BY <1>2, <1>4 DEF TalkInv
<1> QED BY <1>3, <1>4

\* A request that was sent before such a step, and whom it is for.
LEMMA QueueStill ==
  ASSUME TypeOK, StmtInv, TalkInv, NEW t, NEW d, NEW req, Moves(t, d, req), ~lost,
         NEW i \in 1 .. Len(queue), queue'[i].to # Nobody
  PROVE  /\ queue'[i] = queue[i] /\ queue[i].to \in Tos
         /\ IsAt(queue[i].to)' /\ At(queue[i].to)' = At(queue[i].to)
         /\ Asked(queue[i], At(queue[i].to)')
<1>1. /\ queue \in Seq(Asking) /\ t \in Tasks /\ d \in Nat
      /\ queue'[i] = IF IsFor(queue[i], t, d) THEN [queue[i] EXCEPT !.to = Nobody] ELSE queue[i]
  <2>1. t \in Tasks /\ d \in Nat
    BY MovesAlso
  <2>2. /\ i \in 1 .. Len(queue')
        /\ queue'[i] = IF IsFor(queue[i], t, d) THEN [queue[i] EXCEPT !.to = Nobody] ELSE queue[i]
    BY QueueAfter
  <2> QED BY <2>1, <2>2 DEF TypeOK
<1>2. queue[i].to \in Tos
  <2>1. queue[i] \in Asking
    BY <1>1
  <2> QED BY <2>1 DEF Asking
<1>3. queue'[i] = queue[i] /\ (queue[i].to[1] = t => queue[i].to[2] < d)
  BY <1>1, <1>2, StillFor
<1>4. IsAt(queue[i].to) /\ Asked(queue[i], At(queue[i].to))
  BY <1>3 DEF TalkInv
<1>5. PICK a : a = queue[i].to
  OBVIOUS
<1>6. IsAt(a)' /\ Kept(At(a), At(a)')
  BY <1>2, <1>3, <1>4, <1>5, KeptAt
<1>7. At(a)' = At(a)
  BY <1>4, <1>5, <1>6 DEF Kept, Asked, Unsent
<1>8. a = queue'[i].to
  BY <1>3, <1>5
<1> QED BY <1>2, <1>3, <1>4, <1>5, <1>6, <1>7, <1>8 DEF IsAt, At

\* Such a step keeps the conversations apart.
LEMMA MovesTalk ==
  ASSUME TypeOK, StmtInv, TalkInv, NEW t, NEW d, NEW req, Moves(t, d, req)
  PROVE  TalkInv'
<1>0. Len(wire') = Len(wire) /\ Len(wire) \in Nat
  BY WireAfter
<1>1. \A i \in 1 .. Len(wire') : wire'[i].to # Nobody =>
        IsAt(wire[i].to)' /\ Expects(At(wire[i].to)', wire'[i].m)
  BY <1>0, WireStill, KeptTalk
<1>2. ASSUME NEW i \in 1 .. Len(wire'), NEW j \in 1 .. Len(wire'), i < j,
             wire'[i].to = wire'[j].to, wire'[i].to # Nobody
      PROVE  \/ Stage(wire'[i].m) < Stage(wire'[j].m)
             \/ wire'[i].m = "row" /\ wire'[j].m = "row" /\ At(wire[i].to)'.fn # "type"
  <2>1. wire'[i] = wire[i] /\ wire'[j] = wire[j] /\ At(wire[i].to)'.fn = At(wire[i].to).fn
    BY <1>0, <1>2, WireStill, KeptTalk
  <2> QED BY <1>0, <1>2, <2>1 DEF TalkInv
<1>3. ASSUME NEW j \in 1 .. Len(wire'), wire'[j].to # Nobody, wire'[j].m = "ready",
             At(wire[j].to)'.pc = "wait", At(wire[j].to)'.fn = "prepare"
      PROVE  \E i \in 1 .. j - 1 : wire'[i].to = wire'[j].to
  <2>1. wire'[j] = wire[j] /\ At(wire[j].to)' = At(wire[j].to)
    BY <1>0, <1>3, WireStill, KeptTalk
  <2>2. PICK i \in 1 .. j - 1 : wire[i].to = wire[j].to
    BY <1>0, <1>3, <2>1 DEF TalkInv
  <2>3. i \in 1 .. Len(wire)
    BY <1>0, <2>2
  <2>4. wire'[i] = IF IsFor(wire[i], t, d) THEN [wire[i] EXCEPT !.to = Nobody] ELSE wire[i]
    BY <2>3, WireAfter
  <2>5. wire'[j] = IF IsFor(wire[j], t, d) THEN [wire[j] EXCEPT !.to = Nobody] ELSE wire[j]
    BY <1>0, WireAfter
  <2>6. wire[j] \in Telling /\ wire[i] \in Telling
    BY <1>0, <2>3, WireAfter
  <2>7. ~IsFor(wire[j], t, d)
    BY <1>3, <2>5, <2>6 DEF Telling
  <2>8. ~IsFor(wire[i], t, d)
    BY <2>2, <2>7 DEF IsFor
  <2> QED BY <2>1, <2>2, <2>4, <2>8
<1>4. ASSUME NEW i \in 1 .. Len(queue'), queue'[i].to # Nobody
      PROVE  /\ IsAt(queue[i].to)' /\ Asked(queue'[i], At(queue[i].to)')
             /\ \A j \in 1 .. Len(wire') : wire'[j].to # queue'[i].to
             /\ \A j \in 1 .. Len(queue') : queue'[j].to = queue'[i].to => j = i
  <2>0. ~lost /\ i \in 1 .. Len(queue')
    <3>1. ASSUME lost PROVE FALSE
      <4>1. queue' = <<>>
        BY <3>1, MovesAlso
      <4>2. Len(queue') = 0
        BY <4>1
      <4> QED BY <1>4, <4>2
    <3> QED BY <1>4, <3>1
  <2>1. /\ Len(queue) \in Nat /\ Len(queue') \in Nat
        /\ \A k \in 1 .. Len(queue') : k \in 1 .. Len(queue) \/ (k = Len(queue) + 1 /\ req = <<queue'[k]>>) \/ queue'[k].to = Nobody
    <3>1. /\ Len(queue) \in Nat /\ Len(queue') \in Nat
          /\ \A k \in 1 .. Len(queue') :
               \/ k \in 1 .. Len(queue)
               \/ k = Len(queue) + 1 /\ req = <<queue'[k]>>
               \/ k > Len(queue) /\ \E s \in HeldNow \ HeldNow' : queue'[k] = Request("close", s, Nobody, 0)
      BY <2>0, QueueAfter
    <3>2. \A s : Request("close", s, Nobody, 0).to = Nobody
      BY DEF Request
    <3> QED BY <3>1, <3>2
  <2>2. \A k \in 1 .. Len(queue) : k \in 1 .. Len(queue') /\ (queue'[k].to # Nobody => queue'[k] = queue[k])
    BY <2>0, QueueAfter, QueueStill
  <2>3. \A k \in 1 .. Len(wire) : wire'[k].to # Nobody => wire'[k] = wire[k]
    BY WireStill
  <2>4. ASSUME NEW k \in 1 .. Len(queue'), k = Len(queue) + 1, req = <<queue'[k]>>
        PROVE  /\ IsAt(queue[k].to)' /\ Asked(queue'[k], At(queue[k].to)')
               /\ queue'[k].to # Nobody
               /\ \A j \in 1 .. Len(wire) : wire[j].to # queue'[k].to
               /\ \A j \in 1 .. Len(queue) : queue[j].to # queue'[k].to
    <3>1. PICK r \in Asking : r = queue'[k] /\ Sends(t, d, r)
      BY <2>4 DEF Moves
    <3>2. PICK e \in 1 .. Len(frames[t]) :
            /\ e < d /\ e \in 1 .. Len(frames'[t]) /\ r.to = <<t, e>>
            /\ Unsent(frames[t][e]) /\ Asked(r, frames'[t][e])
      BY <3>1 DEF Sends
    <3>3. r.to \in Tos /\ r.to # Nobody /\ At(r.to) = frames[t][e] /\ At(r.to)' = frames'[t][e]
          /\ At(queue[k].to)' = frames'[t][e] /\ IsAt(queue[k].to)'
      BY <3>1, <3>2 DEF Asking, At, IsAt, Nobody
    <3>4. PICK a \in Tos : a = r.to
      BY <3>3
    <3>5. Unsent(At(a)) /\ a # Nobody
      BY <3>2, <3>3, <3>4
    <3>6. /\ \A j \in 1 .. Len(wire) : wire[j].to # a
          /\ \A j \in 1 .. Len(queue) : queue[j].to # a
      BY <3>5, UnsentAlone
    <3> QED BY <3>1, <3>2, <3>3, <3>4, <3>6
  <2>5. CASE i \in 1 .. Len(queue)
    <3>1. queue'[i] = queue[i] /\ IsAt(queue[i].to)' /\ Asked(queue'[i], At(queue[i].to)')
      BY <1>4, <2>0, <2>5, QueueStill
    <3>2. \A j \in 1 .. Len(wire) : wire[j].to # queue[i].to
      BY <1>4, <2>5, <3>1 DEF TalkInv
    <3>3. \A j \in 1 .. Len(queue) : queue[j].to = queue[i].to => j = i
      BY <1>4, <2>5, <3>1 DEF TalkInv
    <3>4. \A j \in 1 .. Len(wire') : wire'[j].to # queue'[i].to
      BY <1>0, <1>4, <2>3, <3>1, <3>2
    <3>5. ASSUME NEW j \in 1 .. Len(queue'), queue'[j].to = queue'[i].to PROVE j = i
      <4>1. CASE j \in 1 .. Len(queue)
        BY <1>4, <2>2, <3>1, <3>3, <3>5, <4>1
      <4>2. CASE j = Len(queue) + 1 /\ req = <<queue'[j]>>
        BY <2>4, <2>5, <3>1, <3>5, <4>2
      <4> QED BY <1>4, <2>1, <3>5, <4>1, <4>2
    <3> QED BY <3>1, <3>4, <3>5
  <2>6. CASE i = Len(queue) + 1 /\ req = <<queue'[i]>>
    <3>1. /\ IsAt(queue[i].to)' /\ Asked(queue'[i], At(queue[i].to)')
          /\ \A j \in 1 .. Len(wire) : wire[j].to # queue'[i].to
          /\ \A j \in 1 .. Len(queue) : queue[j].to # queue'[i].to
      BY <2>4, <2>6
    <3>2. \A j \in 1 .. Len(wire') : wire'[j].to # queue'[i].to
      BY <1>0, <1>4, <2>3, <3>1
    <3>3. ASSUME NEW j \in 1 .. Len(queue'), queue'[j].to = queue'[i].to PROVE j = i
      <4>1. CASE j \in 1 .. Len(queue)
        BY <1>4, <2>2, <3>1, <3>3, <4>1
      <4>2. CASE j = Len(queue) + 1
        BY <2>6, <4>2
      <4> QED BY <1>4, <2>1, <3>3, <4>1, <4>2
    <3> QED BY <3>1, <3>2, <3>3
  <2> QED BY <1>4, <2>1, <2>5, <2>6
<1> QED BY <1>1, <1>2, <1>3, <1>4 DEF TalkInv

\* A prepare after such a step was there before, with its name.
Older(u, t, d, e) ==
  /\ e \in 1 .. Len(frames[u]) /\ frames[u][e].fn = "prepare" /\ frames[u][e].stmt = frames'[u][e].stmt
  /\ frames'[u][e].pc \in {"types", "again"} => frames[u][e].pc = frames'[u][e].pc
  /\ u = t => Stays(t, d, e)

\* Or it has just made up a name.
Newer(u, t, d, e) ==
  /\ u = t /\ e = Len(frames'[t]) /\ e < d /\ e \in 1 .. Len(frames[t]) /\ Unsent(frames[t][e])
  /\ frames'[t][e].pc = "wait" /\ frames'[t][e].stmt = nextId /\ nextId' = nextId + 1

\* A prepare after such a step is one before it that goes on, or has just made up
\* its name.
LEMMA PreparesAfter ==
  ASSUME NEW t, NEW d, NEW req, Moves(t, d, req), NEW u \in Tasks, NEW e \in 1 .. Len(frames'[u]),
         frames'[u][e].fn = "prepare", frames'[u][e].stmt # 0
  PROVE  Older(u, t, d, e) \/ Newer(u, t, d, e)
<1>1. CASE u # t
  <2>1. frames'[u] = frames[u]
    BY <1>1, MovesAlso
  <2> QED BY <1>1, <2>1 DEF Older
<1>2. CASE u = t
  <2>1. Names(t, d, req)
    BY DEF Moves
  <2>2. CASE Stays(t, d, e)
    BY <1>2, <2>2 DEF Older, Stays
  <2>3. CASE ~Stays(t, d, e)
    BY <1>2, <2>1, <2>3 DEF Names, Newer
  <2> QED BY <2>2, <2>3
<1> QED BY <1>1, <1>2

\* What was known of the name of a prepare that is gone.
LEMMA LeftName ==
  ASSUME StmtInv, TypeOK, NEW t \in Tasks, NEW d, NEW e, Leaves(t, d, e)
  PROVE  /\ frames[t][e].stmt < nextId /\ frames[t][e].stmt \in Nat /\ frames[t][e].stmt # 0
         /\ frames[t][e].stmt \notin HeldNow \cup orphans
         /\ Made(frames[t][e].stmt) /\ ~Closing(frames[t][e].stmt)
         /\ frames[t][e].pc = "types" /\ ~lost => frames[t][e].stmt \in prepared
         /\ frames[t][e].pc = "again" => frames[t][e].stmt \notin prepared
<1>1. e \in 1 .. Len(frames[t]) /\ frames[t][e].fn = "prepare" /\ frames[t][e].stmt # 0
  BY DEF Leaves
<1>2. frames[t][e].stmt \in Nat
  <2>1. frames[t] \in Seq(FrameSet)
    BY DEF TypeOK
  <2>2. frames[t][e] \in FrameSet
    BY <1>1, <2>1
  <2> QED BY <2>2 DEF FrameSet
<1>3. Made(frames[t][e].stmt)
  BY <1>1 DEF Made
<1>4. ~Closing(frames[t][e].stmt)
  BY <1>3 DEF StmtInv, QueueInv, Closing
<1> QED BY <1>1, <1>2, <1>3, <1>4 DEF StmtInv, MakingInv

\* What was known of a statement that is named after such a step.
LEMMA HeldAfter ==
  ASSUME StmtInv, TypeOK, NEW t, NEW d, NEW req, Moves(t, d, req), NEW s \in HeldNow'
  PROVE  /\ s < nextId /\ ~Closing(s) /\ (~lost => s \in prepared)
         /\ \/ s \in HeldNow
            \/ \E e \in 1 .. Len(frames[t]) : Leaves(t, d, e) /\ frames[t][e].stmt = s
<1>1. CASE s \in HeldNow
  BY <1>1 DEF StmtInv, HeldInv
<1>2. CASE \E e \in 1 .. Len(frames[t]) :
             Leaves(t, d, e) /\ frames[t][e].pc = "types" /\ frames[t][e].stmt = s
  BY <1>2, LeftName, MovesAlso
<1>3. Names(t, d, req)
  BY DEF Moves
<1> QED BY <1>1, <1>2, <1>3 DEF Names

\* And of one that was given up.
LEMMA OrphansAfter ==
  ASSUME StmtInv, TypeOK, NEW t, NEW d, NEW req, Moves(t, d, req), NEW s \in orphans'
  PROVE  /\ s < nextId
         /\ \/ s \in orphans
            \/ \E e \in 1 .. Len(frames[t]) : Leaves(t, d, e) /\ frames[t][e].stmt = s
<1>1. CASE s \in orphans
  BY <1>1 DEF StmtInv, ServerInv
<1>2. CASE \E e \in 1 .. Len(frames[t]) : Leaves(t, d, e) /\ frames[t][e].stmt = s
  BY <1>2, LeftName, MovesAlso
<1>3. Names(t, d, req)
  BY DEF Moves
<1> QED BY <1>1, <1>2, <1>3 DEF Names

\* What is being closed after such a step.
LEMMA ClosingAfter ==
  ASSUME StmtInv, TypeOK, NEW t, NEW d, NEW req, Moves(t, d, req), NEW s
  PROVE  /\ lost => ~Closing(s)'
         /\ ~lost => (Closing(s)' <=> Closing(s) \/ s \in HeldNow \ HeldNow')
<1>1. ASSUME lost, NEW i \in 1 .. Len(queue') PROVE FALSE
  <2>1. queue' = <<>>
    BY <1>1, MovesAlso
  <2>2. Len(queue') = 0
    BY <2>1
  <2> QED BY <1>1, <2>2
<1>2. ASSUME ~lost, NEW i \in 1 .. Len(queue'), queue'[i].op = "close", queue'[i].stmt = s,
             s \notin HeldNow \ HeldNow'
      PROVE  Closing(s)
  <2>1. CASE i \in 1 .. Len(queue)
    <3>1. queue'[i] = IF IsFor(queue[i], t, d) THEN [queue[i] EXCEPT !.to = Nobody] ELSE queue[i]
      BY <1>2, <2>1, QueueAfter
    <3>2. queue[i] \in Asking
      BY <2>1 DEF TypeOK
    <3>3. queue[i].op = "close" /\ queue[i].stmt = s
      BY <1>2, <3>1, <3>2 DEF Asking
    <3> QED BY <2>1, <3>3 DEF Closing
  <2>2. CASE req = <<queue'[i]>>
    <3>1. PICK r \in Asking : r = queue'[i] /\ Sends(t, d, r)
      BY <2>2 DEF Moves
    <3> QED BY <1>2, <3>1 DEF Sends, Asked
  <2>3. CASE \E x \in HeldNow \ HeldNow' : queue'[i] = Request("close", x, Nobody, 0)
    BY <1>2, <2>3 DEF Request
  <2> QED BY <1>2, <2>1, <2>2, <2>3, QueueAfter
<1>3. ASSUME ~lost, NEW i \in 1 .. Len(queue), queue[i].op = "close", queue[i].stmt = s
      PROVE  Closing(s)'
  <2>1. i \in 1 .. Len(queue')
        /\ queue'[i] = IF IsFor(queue[i], t, d) THEN [queue[i] EXCEPT !.to = Nobody] ELSE queue[i]
    BY <1>3, QueueAfter
  <2>2. queue[i] \in Asking
    BY <1>3 DEF TypeOK
  <2>3. queue'[i].op = "close" /\ queue'[i].stmt = s
    BY <1>3, <2>1, <2>2 DEF Asking
  <2> QED BY <2>1, <2>3 DEF Closing
<1>4. ASSUME ~lost, s \in HeldNow \ HeldNow' PROVE Closing(s)'
  <2>1. PICK i \in 1 .. Len(queue') : queue'[i] = Request("close", s, Nobody, 0)
    BY <1>4, QueueAfter
  <2> QED BY <2>1 DEF Closing, Request
<1> QED BY <1>1, <1>2, <1>3, <1>4 DEF Closing

\* A name that is not in use before such a step is the new one or not in use.
LEMMA MadeAfter ==
  ASSUME NEW t, NEW d, NEW req, Moves(t, d, req), NEW s, s # 0, Made(s)'
  PROVE  Made(s) \/ (s = nextId /\ nextId' = nextId + 1)
<1>0. PICK u \in Tasks : \E e \in 1 .. Len(frames'[u]) : frames'[u][e].fn = "prepare" /\ frames'[u][e].stmt = s
  BY DEF Made
<1>1. PICK e \in 1 .. Len(frames'[u]) : frames'[u][e].fn = "prepare" /\ frames'[u][e].stmt = s
  BY <1>0
<1>2. CASE Older(u, t, d, e)
  BY <1>1, <1>2 DEF Older, Made
<1>3. CASE Newer(u, t, d, e)
  BY <1>1, <1>3 DEF Newer
<1> QED BY <1>1, <1>2, <1>3, PreparesAfter

\* Such a step keeps what is known of the statements, part by part.
LEMMA MovesMade ==
  ASSUME TypeOK, StmtInv, NEW t, NEW d, NEW req, Moves(t, d, req) PROVE MadeInv'
<1> SUFFICES ASSUME NEW u \in Tasks, NEW v \in Tasks,
                    NEW a \in 1 .. Len(frames'[u]), NEW b \in 1 .. Len(frames'[v]),
                    frames'[u][a].fn = "prepare", frames'[v][b].fn = "prepare",
                    frames'[u][a].stmt # 0, frames'[u][a].stmt = frames'[v][b].stmt
             PROVE  u = v /\ a = b
  BY DEF MadeInv
<1>1. Older(u, t, d, a) \/ Newer(u, t, d, a)
  BY PreparesAfter
<1>2. Older(v, t, d, b) \/ Newer(v, t, d, b)
  BY PreparesAfter
<1>3. ASSUME NEW x \in Tasks, NEW c, Older(x, t, d, c), frames'[x][c].stmt # 0
      PROVE  frames'[x][c].stmt < nextId /\ nextId \in Nat
  BY <1>3 DEF Older, StmtInv, MakingInv, TypeOK
<1>4. CASE Older(u, t, d, a) /\ Older(v, t, d, b)
  BY <1>4 DEF Older, StmtInv, MadeInv
<1>5. CASE Newer(u, t, d, a) /\ Newer(v, t, d, b)
  BY <1>5 DEF Newer
<1>6. CASE Older(u, t, d, a) /\ Newer(v, t, d, b)
  BY <1>3, <1>6 DEF Newer
<1>7. CASE Newer(u, t, d, a) /\ Older(v, t, d, b)
  BY <1>3, <1>7 DEF Newer
<1> QED BY <1>1, <1>2, <1>4, <1>5, <1>6, <1>7

\* A name that goes on is not that of a prepare that is gone.
LEMMA OlderApart ==
  ASSUME StmtInv, NEW t \in Tasks, NEW d, NEW u \in Tasks, NEW e, Older(u, t, d, e), frames'[u][e].stmt # 0,
         NEW c, Leaves(t, d, c)
  PROVE  frames[t][c].stmt # frames'[u][e].stmt
<1>1. MadeInv
  BY DEF StmtInv
<1>2. c \in 1 .. Len(frames[t]) /\ frames[t][c].fn = "prepare" /\ frames[t][c].stmt # 0 /\ ~Stays(t, d, c)
  BY DEF Leaves
<1>3. ASSUME frames[t][c].stmt = frames'[u][e].stmt PROVE u = t /\ e = c
  BY <1>1, <1>2, <1>3 DEF Older, MadeInv
<1> QED BY <1>2, <1>3 DEF Older

\* Such a step keeps what is known of names made up.
LEMMA MovesMaking ==
  ASSUME TypeOK, StmtInv, TalkInv, NEW t, NEW d, NEW req, Moves(t, d, req) PROVE MakingInv'
<1> SUFFICES ASSUME NEW u \in Tasks, NEW e \in 1 .. Len(frames'[u]),
                    frames'[u][e].fn = "prepare", frames'[u][e].stmt # 0
             PROVE  LET f == frames'[u][e] IN
                    /\ f.stmt < nextId' /\ f.stmt \notin HeldNow' \cup orphans'
                    /\ f.pc = "types" /\ ~lost' => f.stmt \in prepared'
                    /\ f.pc = "again" => f.stmt \notin prepared'
                    /\ \A i \in 1 .. Len(wire') : wire'[i].to = <<u, e>> =>
                         /\ wire'[i].m = "described" => f.stmt \in prepared'
                         /\ wire'[i].m \in {"undefined", "error"} => f.stmt \notin prepared'
  BY DEF MakingInv
<1>0. /\ lost' = lost /\ prepared' = prepared /\ t \in Tasks /\ nextId \in Nat
      /\ nextId' \in {nextId, nextId + 1} /\ Len(wire') = Len(wire)
  <2>1. nextId' \in {nextId, nextId + 1}
    BY DEF Moves, GoTypes
  <2> QED BY <2>1, MovesAlso, WireAfter DEF TypeOK
<1>1. \A i \in 1 .. Len(wire) : wire'[i].to = <<u, e>> => wire'[i] = wire[i]
  <2>1. \A i \in 1 .. Len(wire) : wire'[i].to # Nobody => wire'[i] = wire[i]
    BY WireStill
  <2> QED BY <2>1, Somebody
<1>2. CASE Older(u, t, d, e)
  <2>1. /\ e \in 1 .. Len(frames[u]) /\ frames[u][e].fn = "prepare" /\ frames[u][e].stmt = frames'[u][e].stmt
        /\ frames'[u][e].pc \in {"types", "again"} => frames[u][e].pc = frames'[u][e].pc
    BY <1>2 DEF Older
  <2>2. PICK s : s = frames[u][e].stmt
    OBVIOUS
  <2>3. /\ s < nextId /\ s \notin HeldNow \cup orphans
        /\ frames[u][e].pc = "types" /\ ~lost => s \in prepared
        /\ frames[u][e].pc = "again" => s \notin prepared
        /\ \A i \in 1 .. Len(wire) : wire[i].to = <<u, e>> =>
             /\ wire[i].m = "described" => s \in prepared
             /\ wire[i].m \in {"undefined", "error"} => s \notin prepared
    BY <2>1, <2>2 DEF StmtInv, MakingInv
  <2>4. \A c \in 1 .. Len(frames[t]) : Leaves(t, d, c) => frames[t][c].stmt # s
    BY <1>0, <1>2, <2>1, <2>2, OlderApart
  <2>5. s \notin HeldNow'
    BY <2>3, <2>4, HeldAfter
  <2>6. s \notin orphans'
    BY <2>3, <2>4, OrphansAfter
  <2>7. s < nextId'
    <3>1. s \in Nat
      <4>1. frames[u] \in Seq(FrameSet)
        BY DEF TypeOK
      <4>2. frames[u][e] \in FrameSet
        BY <2>1, <4>1
      <4> QED BY <2>2, <4>2 DEF FrameSet
    <3> QED BY <1>0, <2>3, <3>1
  <2> QED BY <1>0, <1>1, <2>1, <2>2, <2>3, <2>5, <2>6, <2>7
<1>3. CASE Newer(u, t, d, e)
  <2>1. /\ u = t /\ e \in 1 .. Len(frames[t]) /\ Unsent(frames[t][e])
        /\ frames'[u][e].pc = "wait" /\ frames'[u][e].stmt = nextId /\ nextId' = nextId + 1
    BY <1>3 DEF Newer
  <2>2. nextId \notin HeldNow'
    BY <1>0, HeldAfter
  <2>3. nextId \notin orphans'
    BY <1>0, OrphansAfter
  <2>4. ASSUME NEW i \in 1 .. Len(wire'), wire'[i].to = <<u, e>> PROVE FALSE
    <3>1. wire[i].to = <<t, e>>
      BY <1>0, <1>1, <2>1, <2>4
    <3>2. PICK a \in Tos : a = <<t, e>>
      BY <1>0, <2>1, Somebody
    <3>3. a # Nobody /\ Unsent(At(a))
      BY <2>1, <3>2, Somebody DEF At
    <3> QED BY <1>0, <2>4, <3>1, <3>2, <3>3, UnsentAlone
  <2> QED BY <1>0, <2>1, <2>2, <2>3, <2>4
<1> QED BY <1>2, <1>3, PreparesAfter

\* It keeps what is named at the server.
LEMMA MovesHeld ==
  ASSUME TypeOK, StmtInv, NEW t, NEW d, NEW req, Moves(t, d, req) PROVE HeldInv'
<1> SUFFICES ASSUME NEW s \in HeldNow'
             PROVE  s < nextId' /\ ~Closing(s)' /\ (~lost' => s \in prepared')
  BY DEF HeldInv
<1>0. lost' = lost /\ prepared' = prepared
  BY MovesAlso
<1>1. s < nextId /\ ~Closing(s) /\ (~lost => s \in prepared)
  BY HeldAfter
<1>2. ~Closing(s)'
  BY <1>0, <1>1, ClosingAfter
<1>3. s < nextId'
  <2>1. nextId' \in {nextId, nextId + 1} /\ nextId \in Nat
    BY DEF Moves, GoTypes, TypeOK
  <2>2. s \in Nat
    BY HeldAfter, LeftName, HeldNat, MovesAlso
  <2> QED BY <1>1, <2>1, <2>2
<1> QED BY <1>0, <1>1, <1>2, <1>3

\* The next name is none the server knows.
LEMMA NextIsNew ==
  ASSUME TypeOK, StmtInv, ~lost PROVE nextId \notin prepared /\ nextId # 0 /\ nextId \in Nat
<1>1. nextId # 0 /\ nextId \in Nat /\ ~(nextId < nextId)
  BY DEF TypeOK
<1>2. nextId \notin HeldNow \cup orphans
  BY <1>1 DEF StmtInv, HeldInv, ServerInv
<1>3. ~Made(nextId)
  BY <1>1 DEF StmtInv, MakingInv, Made
<1>4. ~Closing(nextId)
  BY <1>1 DEF StmtInv, QueueInv, Closing
<1> QED BY <1>1, <1>2, <1>3, <1>4 DEF StmtInv, ServerInv

\* What is no longer named is closed, and made by nobody.
LEMMA ClosedNames ==
  ASSUME TypeOK, StmtInv, NEW t, NEW d, NEW req, Moves(t, d, req), NEW s, s # 0,
         s < nextId, ~Made(s)
  PROVE  ~Made(s)'
<1>1. nextId \in Nat
  BY DEF TypeOK
<1> QED BY <1>1, MadeAfter

\* The parse that a call waits for is given up with it.
LEMMA ParseLeft ==
  ASSUME TypeOK, StmtInv, TalkInv, NEW t, NEW d, NEW req, Moves(t, d, req), ~lost,
         NEW i \in 1 .. Len(queue), queue[i].op = "parse", queue'[i].to = Nobody
  PROVE  queue[i].stmt \in orphans'
<1>1. /\ queue[i] \in Asking
      /\ queue'[i] = IF IsFor(queue[i], t, d) THEN [queue[i] EXCEPT !.to = Nobody] ELSE queue[i]
  <2>1. queue[i] \in Asking
    BY DEF TypeOK
  <2>2. queue'[i] = IF IsFor(queue[i], t, d) THEN [queue[i] EXCEPT !.to = Nobody] ELSE queue[i]
    BY QueueAfter
  <2> QED BY <2>1, <2>2
<1>2. orphans \subseteq orphans' /\ Names(t, d, req)
  BY DEF Moves, Names
<1>3. CASE queue[i].to = Nobody
  BY <1>2, <1>3 DEF StmtInv, QueueInv
<1>4. CASE queue[i].to # Nobody
  <2>1. IsFor(queue[i], t, d)
    BY <1>1, <1>4
  <2>2. queue[i].to \in Tasks \X Nat
    BY <1>1, <1>4 DEF Asking, Tos
  <2>3. PICK c : c = queue[i].to[2] /\ c >= d /\ queue[i].to[1] = t /\ c \in Nat
    BY <2>1, <2>2 DEF IsFor
  <2>4. IsAt(queue[i].to) /\ Asked(queue[i], At(queue[i].to))
    BY <1>4 DEF TalkInv
  <2>5. c \in 1 .. Len(frames[t]) /\ Asked(queue[i], frames[t][c])
    BY <1>4, <2>3, <2>4 DEF IsAt, At
  <2>6. frames[t][c].fn = "prepare" /\ frames[t][c].stmt = queue[i].stmt /\ frames[t][c].pc = "wait"
    BY <2>5 DEF Asked
  <2>7. queue[i].stmt # 0
    BY DEF StmtInv, QueueInv
  <2>8. ~Stays(t, d, c)
    <3>1. d \in Nat
      BY MovesAlso
    <3> QED BY <2>3, <3>1 DEF Stays
  <2>9. Leaves(t, d, c)
    BY <2>5, <2>6, <2>7, <2>8 DEF Leaves
  <2> QED BY <1>2, <2>5, <2>6, <2>9 DEF Names
<1> QED BY <1>3, <1>4

\* It keeps the requests in an order in which each finds its statement.
LEMMA MovesQueue ==
  ASSUME TypeOK, StmtInv, TalkInv, NEW t, NEW d, NEW req, Moves(t, d, req) PROVE QueueInv'
<1> SUFFICES ASSUME NEW i \in 1 .. Len(queue')
             PROVE  LET q == queue'[i] IN
                    /\ q.op = "close" => q.to = Nobody /\ q.stmt < nextId' /\ q.stmt # 0 /\ ~Made(queue[i].stmt)'
                    /\ q.op = "query" =>
                         /\ q.stmt \in prepared'
                         /\ \A j \in 1 .. i - 1 : queue'[j].op = "close" => queue'[j].stmt # q.stmt
                    /\ q.op = "parse" =>
                         /\ q.stmt \notin prepared' /\ q.stmt < nextId' /\ q.stmt # 0
                         /\ q.to = Nobody => q.stmt \in orphans'
                         /\ \A j \in 1 .. Len(queue') :
                              queue'[j].op = "parse" /\ queue'[j].stmt = q.stmt => j = i
  BY DEF QueueInv
<1>0. ~lost
  <2>1. ASSUME lost PROVE FALSE
    <3>1. queue' = <<>>
      BY <2>1, MovesAlso
    <3>2. Len(queue') = 0
      BY <3>1
    <3> QED BY <3>2
  <2> QED BY <2>1
<1>1. /\ prepared' = prepared /\ nextId \in Nat /\ nextId' \in {nextId, nextId + 1}
      /\ Len(queue) \in Nat /\ Len(queue') \in Nat
  BY <1>0, MovesAlso, QueueAfter DEF TypeOK, Moves, GoTypes
<1>2. \A k \in 1 .. Len(queue) :
        /\ k \in 1 .. Len(queue') /\ queue[k] \in Asking /\ queue[k].stmt \in Nat
        /\ queue'[k].op = queue[k].op /\ queue'[k].stmt = queue[k].stmt
        /\ queue'[k].to = queue[k].to \/ queue'[k].to = Nobody
  <2> SUFFICES ASSUME NEW k \in 1 .. Len(queue)
               PROVE  /\ k \in 1 .. Len(queue') /\ queue[k] \in Asking /\ queue[k].stmt \in Nat
                      /\ queue'[k].op = queue[k].op /\ queue'[k].stmt = queue[k].stmt
                      /\ queue'[k].to = queue[k].to \/ queue'[k].to = Nobody
    OBVIOUS
  <2>1. queue[k] \in Asking
    BY DEF TypeOK
  <2>2. k \in 1 .. Len(queue')
        /\ queue'[k] = IF IsFor(queue[k], t, d) THEN [queue[k] EXCEPT !.to = Nobody] ELSE queue[k]
    BY <1>0, QueueAfter
  <2> QED BY <2>1, <2>2 DEF Asking
<1>3. \A k \in 1 .. Len(queue') : k \notin 1 .. Len(queue) =>
        \/ k = Len(queue) + 1 /\ Sends(t, d, queue'[k])
        \/ queue'[k].op = "close" /\ queue'[k].to = Nobody /\ queue'[k].stmt \in HeldNow \ HeldNow'
  <2> SUFFICES ASSUME NEW k \in 1 .. Len(queue'), k \notin 1 .. Len(queue)
               PROVE \/ k = Len(queue) + 1 /\ Sends(t, d, queue'[k])
                     \/ queue'[k].op = "close" /\ queue'[k].to = Nobody /\ queue'[k].stmt \in HeldNow \ HeldNow'
    OBVIOUS
  <2>1. CASE k = Len(queue) + 1 /\ req = <<queue'[k]>>
    BY <2>1 DEF Moves
  <2>2. CASE \E s \in HeldNow \ HeldNow' : queue'[k] = Request("close", s, Nobody, 0)
    BY <2>2 DEF Request
  <2> QED BY <1>0, <2>1, <2>2, QueueAfter
<1>4. CASE i \in 1 .. Len(queue)
  <2>1. CASE queue[i].op = "close"
    <3>1. queue[i].to = Nobody /\ queue[i].stmt < nextId /\ queue[i].stmt # 0 /\ ~Made(queue[i].stmt)
      BY <1>4, <2>1 DEF StmtInv, QueueInv
    <3>2. PICK s \in Nat : s = queue[i].stmt
      BY <1>2, <1>4
    <3>3. ~Made(s)'
      BY <3>1, <3>2, ClosedNames
    <3> QED BY <1>1, <1>2, <1>4, <2>1, <3>1, <3>2, <3>3 DEF Made
  <2>2. CASE queue[i].op = "query"
    <3>1. queue[i].stmt \in prepared /\ \A j \in 1 .. i - 1 : queue[j].op = "close" => queue[j].stmt # queue[i].stmt
      BY <1>4, <2>2 DEF StmtInv, QueueInv
    <3>2. \A j \in 1 .. i - 1 : j \in 1 .. Len(queue)
      BY <1>1, <1>4
    <3> QED BY <1>1, <1>2, <1>4, <2>2, <3>1, <3>2
  <2>3. CASE queue[i].op = "parse"
    <3>1. /\ queue[i].stmt \notin prepared /\ queue[i].stmt < nextId /\ queue[i].stmt # 0
          /\ \A j \in 1 .. Len(queue) : queue[j].op = "parse" /\ queue[j].stmt = queue[i].stmt => j = i
      BY <1>4, <2>3 DEF StmtInv, QueueInv
    <3>2. queue'[i].to = Nobody => queue[i].stmt \in orphans'
      BY <1>0, <1>4, <2>3, ParseLeft
    <3>3. ASSUME NEW j \in 1 .. Len(queue'), queue'[j].op = "parse", queue'[j].stmt = queue[i].stmt
          PROVE  j = i
      <4>1. CASE j \in 1 .. Len(queue)
        BY <1>2, <3>1, <3>3, <4>1
      <4>2. CASE j \notin 1 .. Len(queue)
        BY <1>1, <1>3, <3>1, <3>3, <4>2 DEF Sends
      <4> QED BY <4>1, <4>2
    <3> QED BY <1>1, <1>2, <1>4, <2>3, <3>1, <3>2, <3>3
  <2>4. CASE queue[i].op \notin {"close", "query", "parse"}
    BY <1>2, <1>4, <2>4
  <2> QED BY <2>1, <2>2, <2>3, <2>4
<1>5. CASE i \notin 1 .. Len(queue) /\ Sends(t, d, queue'[i])
  <2>1. /\ queue'[i].op = "parse" => queue'[i].stmt = nextId /\ nextId' = nextId + 1
        /\ queue'[i].op = "query" => queue'[i].stmt \in HeldNow
        /\ queue'[i].op # "close" /\ queue'[i].to # Nobody
    BY <1>5, Somebody DEF Sends, Asked
  <2>2. CASE queue'[i].op = "query"
    <3>1. queue'[i].stmt \in prepared /\ ~Closing(queue'[i].stmt)
      BY <1>0, <2>1, <2>2 DEF StmtInv, HeldInv
    <3>2. i = Len(queue) + 1
      BY <1>3, <1>5, <2>1
    <3>3. \A j \in 1 .. i - 1 : j \in 1 .. Len(queue)
      BY <1>1, <3>2
    <3>4. \A j \in 1 .. i - 1 : queue'[j].op = "close" => queue'[j].stmt # queue'[i].stmt
      BY <1>2, <3>1, <3>3 DEF Closing
    <3> QED BY <1>1, <2>1, <2>2, <3>1, <3>4
  <2>3. CASE queue'[i].op = "parse"
    <3>1. nextId \notin prepared /\ nextId # 0
      BY <1>0, NextIsNew
    <3>2. ASSUME NEW j \in 1 .. Len(queue'), queue'[j].op = "parse", queue'[j].stmt = nextId
          PROVE  j = i
      <4>1. CASE j \in 1 .. Len(queue)
        <5>1. queue[j].stmt < nextId
          BY <1>2, <3>2, <4>1 DEF StmtInv, QueueInv
        <5> QED BY <1>1, <1>2, <3>2, <4>1, <5>1
      <4>2. CASE j \notin 1 .. Len(queue)
        BY <1>3, <1>5, <2>1, <3>2, <4>2
      <4> QED BY <4>1, <4>2
    <3> QED BY <1>1, <2>1, <2>3, <3>1, <3>2
  <2> QED BY <2>1, <2>2, <2>3
<1>6. CASE queue'[i].op = "close" /\ queue'[i].to = Nobody /\ queue'[i].stmt \in HeldNow \ HeldNow'
  <2>1. PICK s \in HeldNow : s = queue'[i].stmt
    BY <1>6
  <2>2. s \in Nat /\ s # 0 /\ s < nextId
    BY HeldNat DEF StmtInv, HeldInv
  <2>3. ~Made(s)
    BY <2>2 DEF StmtInv, MakingInv, Made
  <2>4. ~Made(s)'
    BY <2>2, <2>3, ClosedNames
  <2> QED BY <1>1, <1>6, <2>1, <2>2, <2>4 DEF Made
<1> QED BY <1>3, <1>4, <1>5, <1>6

\* It forgets no statement of the server.
LEMMA MovesServer ==
  ASSUME TypeOK, StmtInv, NEW t, NEW d, NEW req, Moves(t, d, req) PROVE ServerInv'
<1>0. /\ lost' = lost /\ prepared' = prepared /\ t \in Tasks /\ nextId \in Nat
      /\ nextId' \in {nextId, nextId + 1}
  BY MovesAlso DEF TypeOK, Moves, GoTypes
<1>1. ASSUME NEW s \in orphans' PROVE s < nextId' /\ s \in Nat
  <2>1. s < nextId
    BY OrphansAfter
  <2>2. s \in Nat
    BY <1>0, OrphansAfter, LeftName DEF StmtInv, ServerInv
  <2> QED BY <1>0, <2>1, <2>2
<1>2. ASSUME ~lost, NEW s \in prepared
      PROVE  s # 0 /\ (s \in HeldNow' \cup orphans' \/ Made(s)' \/ Closing(s)')
  <2>0. Names(t, d, req) /\ s # 0
    BY <1>2 DEF Moves, StmtInv, ServerInv
  <2>1. CASE s \in HeldNow
    BY <2>0, <1>2, <2>1, ClosingAfter
  <2>2. CASE s \in orphans
    BY <2>0, <2>2 DEF Names
  <2>3. CASE Closing(s)
    BY <1>2, <2>0, <2>3, ClosingAfter
  <2>4. CASE Made(s)
    <3>1. PICK u \in Tasks : \E e \in 1 .. Len(frames[u]) : frames[u][e].fn = "prepare" /\ frames[u][e].stmt = s
      BY <2>4 DEF Made
    <3>2. PICK e \in 1 .. Len(frames[u]) : frames[u][e].fn = "prepare" /\ frames[u][e].stmt = s
      BY <3>1
    <3>3. CASE u # t
      <4>1. frames'[u] = frames[u]
        BY <3>3, MovesAlso
      <4> QED BY <2>0, <3>2, <4>1 DEF Made
    <3>4. CASE u = t /\ Stays(t, d, e)
      BY <2>0, <3>2, <3>4 DEF Stays, Made
    <3>5. CASE u = t /\ ~Stays(t, d, e)
      <4>1. Leaves(t, d, e)
        BY <2>0, <3>2, <3>5 DEF Leaves
      <4>2. frames[t][e].pc # "again"
        BY <1>0, <1>2, <3>2, <3>5, <4>1, LeftName
      <4> QED BY <2>0, <3>2, <3>5, <4>1, <4>2 DEF Names
    <3> QED BY <3>3, <3>4, <3>5
  <2> QED BY <1>2, <2>1, <2>2, <2>3, <2>4 DEF StmtInv, ServerInv
<1> QED BY <1>0, <1>1, <1>2 DEF ServerInv

\* So the statements are as they should be after such a step.
LEMMA MovesStmt ==
  ASSUME TypeOK, StmtInv, TalkInv, NEW t, NEW d, NEW req, Moves(t, d, req) PROVE StmtInv'
BY MovesMade, MovesMaking, MovesHeld, MovesQueue, MovesServer DEF StmtInv

\* What is read after a clear_type_cache stays apart from what was read before.
LEMMA MovesFresh ==
  ASSUME TypeOK, TalkInv, FreshInv, NEW t, NEW d, NEW req, Moves(t, d, req), FreshAfterClear',
         \A e \in 1 .. Len(frames'[t]) : ~frames'[t][e].stale => frames'[t][e].ver \in {0, version}
  PROVE  FreshInv'
<1>0. /\ version' = version /\ Len(wire') = Len(wire)
      /\ \A u \in Tasks : u # t => frames'[u] = frames[u]
  BY MovesAlso, WireAfter
<1>1. ASSUME NEW u \in Tasks, NEW e \in 1 .. Len(frames'[u]), ~frames'[u][e].stale
      PROVE  frames'[u][e].ver \in {0, version}
  BY <1>0, <1>1 DEF FreshInv
<1>2. ASSUME NEW i \in 1 .. Len(wire), wire'[i].to # Nobody, ~At(wire[i].to)'.stale
      PROVE  wire'[i].ver \in {0, version}
  <2>1. wire'[i] = wire[i] /\ At(wire[i].to)'.stale = At(wire[i].to).stale
    BY <1>2, WireStill, KeptTalk
  <2> QED BY <1>2, <2>1 DEF FreshInv
<1> QED BY <1>0, <1>1, <1>2 DEF FreshInv

\* The room in the channels stays that of the messages to come.
LEMMA MovesChan ==
  ASSUME TypeOK, TypeOK', TalkInv, ChanInv, NEW t, NEW d, NEW req, Moves(t, d, req),
         \A e \in 1 .. Len(frames'[t]) :
           frames'[t][e].pc = "wait" \/ Unsent(frames'[t][e]) => frames'[t][e].chan = 0
  PROVE  ChanInv'
<1>0. /\ Len(wire') = Len(wire)
      /\ \A u \in Tasks : u # t => frames'[u] = frames[u]
  BY MovesAlso, WireAfter
<1>1. ASSUME NEW u \in Tasks, NEW e \in 1 .. Len(frames'[u]), frames'[u][e].pc = "wait" \/ Unsent(frames'[u][e])
      PROVE  frames'[u][e].chan = 0
  BY <1>0, <1>1 DEF ChanInv
<1>2. ASSUME NEW i \in 1 .. Len(wire), wire'[i].to # Nobody, At(wire[i].to)'.pc \notin {"again", "failed"}
      PROVE  /\ wire'[i].m = "complete" => At(wire[i].to)'.chan = 0
             /\ wire'[i].m = "ready" => At(wire[i].to)'.chan <= 1
             /\ wire'[i].m = "row" => At(wire[i].to)'.fn # "typed"
  <2> DEFINE f == At(wire[i].to)
             g == At(wire[i].to)'
  <2>1. wire'[i] = wire[i] /\ wire[i].m \in Kinds /\ wire[i].to \in Tos /\ IsAt(wire[i].to) /\ IsAt(wire[i].to)'
        /\ Expects(f, wire[i].m) /\ Kept(f, g)
    BY <1>2, WireStill
  <2>2. f \in FrameSet /\ g \in FrameSet
    <3>1. wire[i].to[1] \in Tasks /\ wire[i].to[2] \in 1 .. Len(frames[wire[i].to[1]])
          /\ wire[i].to[2] \in 1 .. Len(frames'[wire[i].to[1]])
      BY <1>2, <2>1 DEF Tos, IsAt
    <3>2. frames[wire[i].to[1]] \in Seq(FrameSet) /\ frames'[wire[i].to[1]] \in Seq(FrameSet)
      BY <3>1 DEF TypeOK
    <3>3. /\ frames[wire[i].to[1]][wire[i].to[2]] \in FrameSet
          /\ frames'[wire[i].to[1]][wire[i].to[2]] \in FrameSet
      BY <3>1, <3>2
    <3>4. f = frames[wire[i].to[1]][wire[i].to[2]]
      BY DEF At
    <3>5. g = frames'[wire[i].to[1]][wire[i].to[2]]
      BY <2>1 DEF At
    <3> QED BY <3>3, <3>4, <3>5
  <2>3. f.chan \in Nat /\ g.chan \in Nat
    BY <2>2 DEF FrameSet
  <2>4. /\ g.fn = f.fn
        /\ g = f \/ (f.pc \in {"types", "called"} /\ g.chan <= f.chan)
    BY <2>1, KeptTalk
  <2>5. f.pc \notin {"again", "failed"}
    BY <1>2, <2>4
  <2>6. /\ wire[i].m = "complete" => f.chan = 0
        /\ wire[i].m = "ready" => f.chan <= 1
        /\ wire[i].m = "row" => f.fn # "typed"
    BY <1>2, <2>1, <2>5 DEF ChanInv
  <2> QED BY <2>1, <2>3, <2>4, <2>6
<1> QED BY <1>0, <1>1, <1>2 DEF ChanInv

\* A call after such a step is as it was, or made now, or has read nothing and
\* has room for what it is to be told.
FramesOk(t) ==
  \A e \in 1 .. Len(frames'[t]) : LET g == frames'[t][e] IN
    \/ g.ver = 0 /\ g.chan = 0
    \/ /\ e \in 1 .. Len(frames[t])
       /\ \/ g = frames[t][e]
          \/ /\ g.ver = frames[t][e].ver /\ g.stale = frames[t][e].stale
             /\ \/ Unsent(frames[t][e]) /\ g.chan = frames[t][e].chan
                \/ g.chan = 0
                \/ g.pc # "wait" /\ ~Unsent(g)

\* Such a step keeps the invariant.
LEMMA MovesKeep ==
  ASSUME IInv, NEW t, NEW d, NEW req, Moves(t, d, req), FramesOk(t), FreshAfterClear'
  PROVE  IInv' /\ (ChanInv => ChanInv')
<1>1. TypeOK' /\ StackInv'
  BY MovesType DEF IInv
<1>2. TalkInv' /\ StmtInv'
  BY MovesTalk, MovesStmt DEF IInv
<1>3. FreshInv'
  <2>1. t \in Tasks
    BY MovesAlso
  <2>2. \A e \in 1 .. Len(frames'[t]) : ~frames'[t][e].stale => frames'[t][e].ver \in {0, version}
    BY <2>1 DEF FramesOk, IInv, FreshInv
  <2> QED BY <2>2, MovesFresh DEF IInv
<1>4. ASSUME ChanInv PROVE ChanInv'
  <2>1. t \in Tasks
    BY MovesAlso
  <2>2. \A e \in 1 .. Len(frames'[t]) :
          frames'[t][e].pc = "wait" \/ Unsent(frames'[t][e]) => frames'[t][e].chan = 0
    BY <1>4, <2>1 DEF FramesOk, ChanInv
  <2> QED BY <1>1, <1>4, <2>2, MovesChan DEF IInv
<1> QED BY <1>1, <1>2, <1>3, <1>4 DEF IInv

-----------------------------------------------------------------------------
(***************************************************************************)
(* The stack of a task, and what its steps make of it.                     *)
(***************************************************************************)

\* The frame on top.
LEMMA TopIs ==
  ASSUME TypeOK, StackInv, NEW t \in Tasks, frames[t] # <<>>
  PROVE  /\ frames[t] \in Seq(FrameSet) /\ Depth(t) \in Nat /\ Depth(t) >= 1 /\ Depth(t) = Len(frames[t])
         /\ Depth(t) \in 1 .. Len(frames[t]) /\ Top(t) = frames[t][Depth(t)] /\ Top(t) \in FrameSet
         /\ FrameOk(Top(t)) /\ StackOk(frames[t])
<1>1. frames[t] \in Seq(FrameSet)
  BY DEF TypeOK
<1>2. Depth(t) = Len(frames[t]) /\ Len(frames[t]) \in Nat /\ Len(frames[t]) >= 1
  BY <1>1 DEF Depth
<1>3. Depth(t) \in 1 .. Len(frames[t])
  BY <1>2
<1>4. Top(t) = frames[t][Depth(t)] /\ Top(t) \in FrameSet
  BY <1>1, <1>3 DEF Top
<1>5. StackOk(frames[t])
  BY DEF StackInv
<1> QED BY <1>1, <1>2, <1>3, <1>4, <1>5 DEF StackOk

\* The stack with another frame on top.
LEMMA WithTopIs ==
  ASSUME TypeOK, StackInv, NEW t \in Tasks, frames[t] # <<>>, NEW f \in FrameSet
  PROVE  /\ WithTop(t, f) \in Seq(FrameSet) /\ Len(WithTop(t, f)) = Depth(t)
         /\ WithTop(t, f)[Depth(t)] = f
         /\ \A e \in 1 .. Len(frames[t]) : e # Depth(t) => WithTop(t, f)[e] = frames[t][e]
BY TopIs DEF WithTop

\* The stack with one frame more.
LEMMA PushedIs ==
  ASSUME NEW fs \in Seq(FrameSet), NEW g \in FrameSet
  PROVE  /\ Append(fs, g) \in Seq(FrameSet) /\ Len(fs) \in Nat /\ Len(Append(fs, g)) = Len(fs) + 1
         /\ Append(fs, g)[Len(fs) + 1] = g
         /\ \A e \in 1 .. Len(fs) : Append(fs, g)[e] = fs[e]
         /\ \A e \in 1 .. Len(fs) + 1 : e \in 1 .. Len(fs) \/ e = Len(fs) + 1
OBVIOUS

\* The stack without its top.
LEMMA PoppedIs ==
  ASSUME TypeOK, StackInv, NEW t \in Tasks, frames[t] # <<>>
  PROVE  /\ Popped(t) \in Seq(FrameSet) /\ Len(Popped(t)) = Depth(t) - 1
         /\ \A e \in 1 .. Depth(t) - 1 : Popped(t)[e] = frames[t][e] /\ e \in 1 .. Len(frames[t])
<1>1. frames[t] \in Seq(FrameSet) /\ Depth(t) = Len(frames[t]) /\ Depth(t) \in Nat /\ Depth(t) >= 1
  BY TopIs
<1>2. Popped(t) = SubSeq(frames[t], 1, Len(frames[t]) - 1)
  BY <1>1 DEF Popped
<1>3. SubSeq(frames[t], 1, Len(frames[t]) - 1) \in Seq(FrameSet)
      /\ Len(SubSeq(frames[t], 1, Len(frames[t]) - 1)) = Len(frames[t]) - 1
  BY <1>1
<1>4. \A e \in 1 .. Len(frames[t]) - 1 : SubSeq(frames[t], 1, Len(frames[t]) - 1)[e] = frames[t][e]
  BY <1>1
<1> QED BY <1>1, <1>2, <1>3, <1>4

\* A statement a call, the cache or the application names is held.
LEMMA NamedIsHeld ==
  ASSUME TypeOK
  PROVE  /\ \A t \in Tasks : \A e \in 1 .. Len(frames[t]) :
              frames[t][e].fn # "prepare" => frames[t][e].stmt \in HeldNow \cup {0}
         /\ \A x \in Slots : slot[x] \in HeldNow \cup {0}
         /\ \A t \in Tasks : handle[t] \in HeldNow \cup {0}
<1>1. frames \in [Tasks -> Seq(FrameSet)]
  BY DEF TypeOK
<1>2. \A s : s \in HeldNow <=> IsNamed(frames, slot, handle, s)
  <2> SUFFICES ASSUME NEW s PROVE s \in HeldNow <=> IsNamed(frames, slot, handle, s)
    OBVIOUS
  <2>1. s \in Held(frames, slot, handle) <=> IsNamed(frames, slot, handle, s)
    BY <1>1, HeldIs
  <2> QED BY <2>1 DEF HeldNow
<1> QED BY <1>2 DEF IsNamed

\* What is held after a step that names only these.
LEMMA HeldStep ==
  ASSUME TypeOK, NEW t \in Tasks, frames' \in [Tasks -> Seq(FrameSet)], NEW X,
         \A u \in Tasks : u # t => frames'[u] = frames[u],
         \A e \in 1 .. Len(frames'[t]) :
           frames'[t][e].fn # "prepare" => frames'[t][e].stmt \in HeldNow \cup X \cup {0},
         \A x \in Slots : slot'[x] \in HeldNow \cup X \cup {0},
         \A u \in Tasks : handle'[u] \in HeldNow \cup X \cup {0}
  PROVE  HeldNow' \subseteq HeldNow \cup X
<1> SUFFICES ASSUME NEW s \in HeldNow' PROVE s \in HeldNow \cup X
  OBVIOUS
<1>1. IsNamed(frames', slot', handle', s)
  <2>1. s \in Held(frames', slot', handle')
    BY DEF HeldNow
  <2> QED BY <2>1, HeldIs
<1>2. \A u \in Tasks : \A e \in 1 .. Len(frames'[u]) :
        frames'[u][e].fn # "prepare" => frames'[u][e].stmt \in HeldNow \cup X \cup {0}
  BY NamedIsHeld
<1> QED BY <1>1, <1>2 DEF IsNamed

-----------------------------------------------------------------------------
(***************************************************************************)
(* The steps of a task, one by one.                                        *)
(***************************************************************************)

\* What Go leaves.
LEMMA GoIs ==
  ASSUME TypeOK, NEW t \in Tasks, NEW fs, NEW d \in Nat \ {0}, NEW sl, NEW hd, NEW req,
         Go(t, fs, d, sl, hd, req), UNCHANGED <<lost, serverVars>>
  PROVE  /\ Goes(t, d, req) /\ frames'[t] = fs /\ slot' = sl /\ handle' = hd
         /\ fs \in Seq(FrameSet) => frames' \in [Tasks -> Seq(FrameSet)]
<1>1. frames' = [frames EXCEPT ![t] = fs] /\ slot' = sl /\ handle' = hd
  BY DEF Go
<1>2. frames'[t] = fs /\ \A u \in Tasks : u # t => frames'[u] = frames[u]
  BY <1>1 DEF TypeOK
<1>3. Held(frames, slot, handle) \ Held([frames EXCEPT ![t] = fs], sl, hd) = HeldNow \ HeldNow'
  BY <1>1 DEF HeldNow
<1>4. Goes(t, d, req)
  BY <1>2, <1>3 DEF Go, Goes, serverVars
<1> QED BY <1>1, <1>2, <1>4 DEF TypeOK

\* A prepare that goes on with its name.
SameName(f, g) ==
  /\ f.fn = "prepare" /\ g.fn = "prepare" /\ g.stmt = f.stmt
  /\ g.pc \in {"types", "again"} => f.pc = g.pc

\* A step by which no name is made up, given to a Statement or given up.
LEMMA QuietMoves ==
  ASSUME IInv, NEW t \in Tasks, NEW fs \in Seq(FrameSet), NEW d \in Nat \ {0}, NEW sl \in [Slots -> Nat],
         NEW hd \in [Tasks -> Nat], NEW req, Go(t, fs, d, sl, hd, req),
         UNCHANGED <<lost, serverVars, nextId, orphans>>, types' \in [Types -> Nat], StackOk(fs),
         \A e \in 1 .. Len(frames[t]) : e < d => e \in 1 .. Len(fs) /\ Kept(frames[t][e], fs[e]),
         \A e \in 1 .. Len(frames[t]) : frames[t][e].fn = "prepare" /\ frames[t][e].stmt # 0 =>
           e < d /\ e \in 1 .. Len(fs) /\ SameName(frames[t][e], fs[e]),
         \A e \in 1 .. Len(fs) : LET g == fs[e] IN
           /\ g.fn = "prepare" => g.stmt = 0 \/ (e < d /\ e \in 1 .. Len(frames[t]) /\ SameName(frames[t][e], g))
           /\ g.fn # "prepare" => g.stmt \in HeldNow \cup {0},
         \A x \in Slots : sl[x] \in HeldNow \cup {0},
         \A u \in Tasks : hd[u] \in HeldNow \cup {0},
         req = <<>> \/ \E r \in Asking : req = <<r>> /\ Sends(t, d, r)
  PROVE  Moves(t, d, req)
<1>1. /\ Goes(t, d, req) /\ frames'[t] = fs /\ slot' = sl /\ handle' = hd
      /\ frames' \in [Tasks -> Seq(FrameSet)]
  BY GoIs DEF IInv
<1>2. GoTypes(t)
  BY <1>1 DEF GoTypes
<1>3. Keeps(t, d)
  BY <1>1 DEF Keeps
<1>4. HeldNow' \subseteq HeldNow
  <2>1. \A u \in Tasks : u # t => frames'[u] = frames[u]
    BY <1>1 DEF Goes
  <2>2. HeldNow' \subseteq HeldNow \cup {}
    <3> DEFINE held == HeldNow \cup {} \cup {0}
    <3>1. TypeOK
      BY DEF IInv
    <3>2. \A e \in 1 .. Len(frames'[t]) : frames'[t][e].fn # "prepare" => frames'[t][e].stmt \in held
      BY <1>1
    <3>3. (\A x \in Slots : slot'[x] \in held) /\ \A u \in Tasks : handle'[u] \in held
      BY <1>1
    <3> QED BY <1>1, <2>1, <3>1, <3>2, <3>3, HeldStep
  <2> QED BY <2>2
<1>5. \A e \in 1 .. Len(frames[t]) : ~Leaves(t, d, e)
  BY <1>1 DEF Leaves, Stays, SameName
<1>6. \A e \in 1 .. Len(frames'[t]) : frames'[t][e].fn = "prepare" /\ frames'[t][e].stmt # 0 => Stays(t, d, e)
  BY <1>1 DEF Stays, SameName
<1>7. Names(t, d, req)
  BY <1>4, <1>5, <1>6 DEF Names
<1> QED BY <1>1, <1>2, <1>3, <1>7 DEF Moves

\* A call of the application that begins.
LEMMA BeginKeeps ==
  ASSUME IInv, NEW t \in Tasks, frames[t] = <<>>, NEW f \in FrameSet, Stay(t, <<f>>),
         UNCHANGED <<lost, serverVars, nextId, orphans, cacheVars>>,
         f.fn \in {"prepare", "execute", "typed"}, f.pc = "send", f.ver = 0, f.chan = 0,
         FrameOk(f), f.stmt \in HeldNow \cup {0}
  PROVE  IInv' /\ (ChanInv => ChanInv')
<1> DEFINE fs == <<f>>
<1>1. fs \in Seq(FrameSet) /\ Len(fs) = 1 /\ fs[1] = f /\ Len(frames[t]) = 0
  OBVIOUS
<1>2. Go(t, fs, 2, slot, handle, <<>>)
  BY <1>1 DEF Stay
<1>3. slot \in [Slots -> Nat] /\ handle \in [Tasks -> Nat] /\ types' \in [Types -> Nat]
  BY DEF IInv, TypeOK, cacheVars
<1>4. StackOk(fs)
  BY <1>1 DEF StackOk, Lookups
<1>5. f.fn = "prepare" => f.stmt = 0
  BY DEF FrameOk
<1>6. Moves(t, 2, <<>>)
  <2>1. /\ \A x \in Slots : slot[x] \in HeldNow \cup {0}
        /\ \A u \in Tasks : handle[u] \in HeldNow \cup {0}
    BY NamedIsHeld DEF IInv
  <2>2. \A e \in 1 .. Len(fs) : LET g == fs[e] IN
           /\ g.fn = "prepare" => g.stmt = 0 \/ (e < 2 /\ e \in 1 .. Len(frames[t]) /\ SameName(frames[t][e], g))
           /\ g.fn # "prepare" => g.stmt \in HeldNow \cup {0}
    BY <1>1, <1>5
  <2>3. /\ \A e \in 1 .. Len(frames[t]) : e < 2 => e \in 1 .. Len(fs) /\ Kept(frames[t][e], fs[e])
        /\ \A e \in 1 .. Len(frames[t]) : frames[t][e].fn = "prepare" /\ frames[t][e].stmt # 0 =>
             e < 2 /\ e \in 1 .. Len(fs) /\ SameName(frames[t][e], fs[e])
    BY <1>1
  <2>4. UNCHANGED <<lost, serverVars, nextId, orphans>> /\ 2 \in Nat \ {0}
    OBVIOUS
  <2> HIDE DEF fs
  <2> QED BY <1>1, <1>2, <1>3, <1>4, <2>1, <2>2, <2>3, <2>4, QuietMoves
<1>7. frames'[t] = fs
  <2>1. UNCHANGED <<lost, serverVars>> /\ 2 \in Nat \ {0}
    OBVIOUS
  <2> HIDE DEF fs
  <2> QED BY <1>2, <2>1, GoIs DEF IInv
<1>8. FramesOk(t)
  BY <1>1, <1>7 DEF FramesOk
<1>9. FreshAfterClear'
  BY DEF IInv, FreshInv, FreshAfterClear, cacheVars, serverVars
<1> QED BY <1>6, <1>8, <1>9, MovesKeep

\* Client::prepare, a query with a Statement and query_typed begin.
LEMMA StepBegin ==
  ASSUME IInv, NEW t \in Tasks, Prepare(t) \/ Execute(t) \/ QueryTyped(t)
  PROVE  IInv' /\ (ChanInv => ChanInv')
<1>1. CASE Prepare(t)
  <2>1. PICK q \in UserQueries : Stay(t, <<[Frame("prepare", "user", "send") EXCEPT !.todo = q]>>)
    BY <1>1 DEF Prepare
  <2>2. q \in Seq(Types)
    BY StatementsAssumption
  <2> DEFINE f == [Frame("prepare", "user", "send") EXCEPT !.todo = q]
  <2>3. /\ f \in FrameSet /\ f.fn = "prepare" /\ f.pc = "send" /\ f.ver = 0 /\ f.chan = 0 /\ f.stmt = 0
    BY <2>2 DEF Frame, FrameSet, Fns, Args, Pcs
  <2>4. FrameOk(f)
    BY <2>3 DEF FrameOk, Lookups
  <2>5. frames[t] = <<>> /\ Stay(t, <<f>>) /\ UNCHANGED <<lost, serverVars, nextId, orphans, cacheVars>>
    BY <1>1, <2>1 DEF Prepare
  <2> HIDE DEF f
  <2> QED BY <2>3, <2>4, <2>5, BeginKeeps
<1>2. CASE QueryTyped(t)
  <2>1. PICK q \in UserQueries : Stay(t, <<[Frame("typed", "user", "send") EXCEPT !.todo = q]>>)
    BY <1>2 DEF QueryTyped
  <2>2. q \in Seq(Types)
    BY StatementsAssumption
  <2> DEFINE f == [Frame("typed", "user", "send") EXCEPT !.todo = q]
  <2>3. /\ f \in FrameSet /\ f.fn = "typed" /\ f.pc = "send" /\ f.ver = 0 /\ f.chan = 0 /\ f.stmt = 0
    BY <2>2 DEF Frame, FrameSet, Fns, Args, Pcs
  <2>4. FrameOk(f)
    BY <2>3 DEF FrameOk, Lookups
  <2>5. frames[t] = <<>> /\ Stay(t, <<f>>) /\ UNCHANGED <<lost, serverVars, nextId, orphans, cacheVars>>
    BY <1>2, <2>1 DEF QueryTyped
  <2> HIDE DEF f
  <2> QED BY <2>3, <2>4, <2>5, BeginKeeps
<1>3. CASE Execute(t)
  <2> DEFINE f == [Frame("execute", "user", "send") EXCEPT !.stmt = handle[t]]
  <2>2. handle[t] \in Nat /\ handle[t] # 0 /\ handle[t] \in HeldNow
    BY <1>3, NamedIsHeld DEF IInv, TypeOK, Execute
  <2>6. <<>> \in Seq(Types)
    OBVIOUS
  <2>3. /\ f \in FrameSet /\ f.fn = "execute" /\ f.pc = "send" /\ f.ver = 0 /\ f.chan = 0 /\ f.stmt = handle[t]
    BY <2>2, <2>6 DEF Frame, FrameSet, Fns, Args, Pcs
  <2>4. FrameOk(f)
    BY <2>2, <2>3 DEF FrameOk, Lookups
  <2>5. frames[t] = <<>> /\ Stay(t, <<f>>) /\ UNCHANGED <<lost, serverVars, nextId, orphans, cacheVars>>
    BY <1>3 DEF Execute
  <2> HIDE DEF f
  <2> QED BY <2>2, <2>3, <2>4, <2>5, BeginKeeps
<1> QED BY <1>1, <1>2, <1>3

\* A call fails with all its callers.
LEMMA FailKeeps ==
  ASSUME IInv, NEW t \in Tasks, Fail(t), UNCHANGED <<lost, serverVars, nextId, cacheVars>>
  PROVE  IInv' /\ (ChanInv => ChanInv')
<1>1. Go(t, <<>>, 1, slot, handle, <<>>)
  BY DEF Fail
<1>2. UNCHANGED <<lost, serverVars>> /\ 1 \in Nat \ {0} /\ <<>> \in Seq(FrameSet)
  OBVIOUS
<1>3. /\ Goes(t, 1, <<>>) /\ frames'[t] = <<>> /\ slot' = slot /\ handle' = handle
      /\ frames' \in [Tasks -> Seq(FrameSet)]
  BY <1>1, <1>2, GoIs DEF IInv
<1>4. \A e : e \notin 1 .. Len(frames'[t])
  BY <1>3
<1>5. \A e \in 1 .. Len(frames[t]) : ~(e < 1)
  OBVIOUS
<1>6. GoTypes(t)
  <2>1. StackOk(frames'[t])
    BY <1>3, <1>4 DEF StackOk
  <2>2. slot \in [Slots -> Nat] /\ handle \in [Tasks -> Nat] /\ types' \in [Types -> Nat] /\ nextId' = nextId
    BY DEF IInv, TypeOK, cacheVars
  <2> QED BY <1>3, <2>1, <2>2 DEF GoTypes
<1>7. HeldNow' \subseteq HeldNow
  <2>1. /\ \A x \in Slots : slot'[x] \in HeldNow \cup {} \cup {0}
        /\ \A u \in Tasks : handle'[u] \in HeldNow \cup {} \cup {0}
    BY <1>3, NamedIsHeld DEF IInv
  <2>2. \A u \in Tasks : u # t => frames'[u] = frames[u]
    BY <1>3 DEF Goes
  <2>3. HeldNow' \subseteq HeldNow \cup {}
    BY <1>3, <1>4, <2>1, <2>2, HeldStep DEF IInv
  <2> QED BY <2>3
<1>8. /\ \A e \in 1 .. Len(frames[t]) : Leaves(t, 1, e) => frames[t][e].stmt \in orphans'
      /\ orphans \subseteq orphans'
      /\ \A s \in orphans' : s \in orphans \/
           \E e \in 1 .. Len(frames[t]) : Leaves(t, 1, e) /\ frames[t][e].stmt = s
  <2>1. orphans' = orphans \cup
       {frames[t][i].stmt : i \in {j \in 1 .. Len(frames[t]) :
                              frames[t][j].fn = "prepare" /\ frames[t][j].stmt # 0}}
    BY DEF Fail, Depth
  <2>2. \A e \in 1 .. Len(frames[t]) :
          Leaves(t, 1, e) <=> frames[t][e].fn = "prepare" /\ frames[t][e].stmt # 0
    BY <1>4 DEF Leaves, Stays
  <2> QED BY <2>1, <2>2
<1>9. Moves(t, 1, <<>>)
  <2>1. Keeps(t, 1)
    BY <1>5 DEF Keeps
  <2>2. Names(t, 1, <<>>)
    BY <1>4, <1>7, <1>8 DEF Names
  <2> QED BY <1>3, <1>6, <2>1, <2>2 DEF Moves
<1>10. FramesOk(t)
  BY <1>4 DEF FramesOk
<1>11. FreshAfterClear'
  BY DEF IInv, FreshInv, FreshAfterClear, cacheVars, serverVars
<1> QED BY <1>9, <1>10, <1>11, MovesKeep

\* A future is dropped, or an error reaches the application.
LEMMA StepFail ==
  ASSUME IInv, NEW t \in Tasks, Cancel(t) \/ Return_Err(t)
  PROVE  IInv' /\ (ChanInv => ChanInv')
<1>1. Fail(t) /\ UNCHANGED <<lost, serverVars, nextId, cacheVars>>
  BY DEF Cancel, Return_Err
<1> QED BY <1>1, FailKeeps

\* The application drops its Statement.
LEMMA StepDrop ==
  ASSUME IInv, NEW t \in Tasks, DropStatement(t)
  PROVE  IInv' /\ (ChanInv => ChanInv')
<1> DEFINE fs == frames[t]
           hd == [handle EXCEPT ![t] = 0]
<1>1. /\ TypeOK /\ StackInv /\ fs \in Seq(FrameSet) /\ Len(fs) \in Nat /\ Depth(t) = Len(fs)
      /\ hd \in [Tasks -> Nat] /\ slot \in [Slots -> Nat] /\ StackOk(fs)
  BY DEF IInv, TypeOK, StackInv, Depth
<1>2. Go(t, fs, Len(fs) + 1, slot, hd, <<>>) /\ UNCHANGED <<lost, serverVars, nextId, orphans, cacheVars>>
  BY <1>1 DEF DropStatement
<1>3. /\ \A x \in Slots : slot[x] \in HeldNow \cup {0}
      /\ \A u \in Tasks : hd[u] \in HeldNow \cup {0}
      /\ \A e \in 1 .. Len(fs) : fs[e].fn # "prepare" => fs[e].stmt \in HeldNow \cup {0}
  BY <1>1, NamedIsHeld DEF TypeOK
<1>4. /\ Len(fs) + 1 \in Nat \ {0} /\ \A e \in 1 .. Len(fs) : e < Len(fs) + 1 /\ Kept(fs[e], fs[e])
      /\ \A e \in 1 .. Len(fs) : fs[e].fn = "prepare" => SameName(fs[e], fs[e])
  BY <1>1 DEF Kept, SameName
<1>5. UNCHANGED <<lost, serverVars, nextId, orphans>> /\ types' \in [Types -> Nat]
  BY <1>1, <1>2 DEF cacheVars, TypeOK
<1>6. frames'[t] = fs
  BY <1>1, <1>2, GoIs, <1>4, <1>5
<1>7. Moves(t, Len(fs) + 1, <<>>)
  <2> HIDE DEF hd
  <2> QED BY <1>1, <1>2, <1>3, <1>4, <1>5, QuietMoves
<1>8. FramesOk(t)
  BY <1>6 DEF FramesOk
<1>9. FreshAfterClear'
  BY <1>2 DEF IInv, FreshInv, FreshAfterClear, cacheVars, serverVars
<1> QED BY <1>7, <1>8, <1>9, MovesKeep

\* The stack with g for its top frame, which may call h.
Extends(t, g, fs) ==
  /\ g \in FrameSet /\ FrameOk(g) /\ g.fn = Top(t).fn
  /\ \/ fs = WithTop(t, g)
     \/ \E h \in FrameSet :
          /\ fs = Append(WithTop(t, g), h) /\ Calls(g, h) /\ FrameOk(h)
          /\ h.stmt = 0 /\ h.ver = 0 /\ h.chan = 0

\* A step of the top frame f, which goes on as g and may call h; no name is
\* made up, given to a Statement or given up.
GoesOn(t, g, fs) ==
  LET f == Top(t) IN
  /\ Extends(t, g, fs) /\ Kept(f, g)
  /\ f.fn = "prepare" => SameName(f, g)
  /\ g.fn # "prepare" => g.stmt \in HeldNow \cup {0}
  /\ g = f \/ (g.ver = f.ver /\ g.stale = f.stale
               /\ \/ Unsent(f) /\ g.chan = f.chan
                  \/ g.chan = 0
                  \/ g.pc # "wait" /\ ~Unsent(g))

\* The stack after such a step.
LEMMA ExtendsIs ==
  ASSUME TypeOK, StackInv, NEW t \in Tasks, frames[t] # <<>>, NEW g, NEW fs, Extends(t, g, fs)
  PROVE  /\ fs \in Seq(FrameSet) /\ Len(fs) \in {Depth(t), Depth(t) + 1}
         /\ fs[Depth(t)] = g
         /\ \A e \in 1 .. Len(frames[t]) : e # Depth(t) => fs[e] = frames[t][e]
         /\ \A e \in 1 .. Len(fs) : \/ e \in 1 .. Len(frames[t])
                                    \/ /\ e = Depth(t) + 1 /\ Calls(g, fs[e]) /\ FrameOk(fs[e])
                                       /\ fs[e].stmt = 0 /\ fs[e].ver = 0 /\ fs[e].chan = 0
         /\ StackOk(fs)
<1> USE DEF Extends
<1>1. /\ frames[t] \in Seq(FrameSet) /\ Depth(t) \in Nat /\ Depth(t) >= 1 /\ Depth(t) = Len(frames[t])
      /\ Depth(t) \in 1 .. Len(frames[t]) /\ Top(t) = frames[t][Depth(t)] /\ Top(t) \in FrameSet
      /\ StackOk(frames[t])
  BY TopIs
<1>2. /\ WithTop(t, g) \in Seq(FrameSet) /\ Len(WithTop(t, g)) = Depth(t)
      /\ WithTop(t, g)[Depth(t)] = g
      /\ \A e \in 1 .. Len(frames[t]) : e # Depth(t) => WithTop(t, g)[e] = frames[t][e]
  BY WithTopIs
<1>3. /\ fs \in Seq(FrameSet) /\ Len(fs) \in {Depth(t), Depth(t) + 1}
      /\ fs[Depth(t)] = g
      /\ \A e \in 1 .. Len(frames[t]) : e # Depth(t) => fs[e] = frames[t][e]
      /\ \A e \in 1 .. Len(fs) : \/ e \in 1 .. Len(frames[t])
                                 \/ /\ e = Depth(t) + 1 /\ Calls(g, fs[e]) /\ FrameOk(fs[e])
                                    /\ fs[e].stmt = 0 /\ fs[e].ver = 0 /\ fs[e].chan = 0
  <2>1. CASE fs = WithTop(t, g)
    BY <1>1, <1>2, <2>1
  <2>2. ASSUME NEW h \in FrameSet, fs = Append(WithTop(t, g), h), Calls(g, h), FrameOk(h),
               h.stmt = 0, h.ver = 0, h.chan = 0
        PROVE  <1>3!:
    <3>1. /\ fs \in Seq(FrameSet) /\ Len(fs) = Depth(t) + 1 /\ fs[Depth(t) + 1] = h
          /\ \A e \in 1 .. Depth(t) : fs[e] = WithTop(t, g)[e]
          /\ \A e \in 1 .. Depth(t) + 1 : e \in 1 .. Depth(t) \/ e = Depth(t) + 1
      BY <1>2, <2>2, PushedIs
    <3> QED BY <1>1, <1>2, <2>2, <3>1
  <2> QED BY <2>1, <2>2
<1>4. StackOk(fs)
  <2>1. \A e \in 1 .. Len(fs) : FrameOk(fs[e])
    BY <1>1, <1>3 DEF StackOk
  <2>2. fs[1].fn \notin Lookups
    BY <1>1, <1>3 DEF StackOk
  <2>3. ASSUME NEW e \in 1 .. Len(fs), e < Len(fs) PROVE Calls(fs[e], fs[e + 1])
    <3>1. CASE e = Depth(t)
      BY <1>1, <1>3, <2>3, <3>1
    <3>2. CASE e # Depth(t)
      <4>1. e \in 1 .. Len(frames[t]) /\ e < Len(frames[t]) /\ fs[e] = frames[t][e]
            /\ e + 1 \in 1 .. Len(frames[t])
        BY <1>1, <1>3, <2>3, <3>2
      <4>2. Calls(frames[t][e], frames[t][e + 1])
        BY <1>1, <4>1 DEF StackOk
      <4>3. fs[e + 1].fn = frames[t][e + 1].fn
        BY <1>1, <1>3, <4>1
      <4> QED BY <4>1, <4>2, <4>3 DEF Calls
    <3> QED BY <3>1, <3>2
  <2> QED BY <2>1, <2>2, <2>3 DEF StackOk
<1> QED BY <1>3, <1>4

\* Such a step keeps the invariant.
LEMMA GoesOnKeeps ==
  ASSUME IInv, NEW t \in Tasks, frames[t] # <<>>, NEW g, NEW fs, GoesOn(t, g, fs),
         NEW d \in Nat, d > Depth(t), NEW req, Go(t, fs, d, slot, handle, req),
         UNCHANGED <<lost, serverVars, nextId, orphans, cacheVars>>,
         req = <<>> \/ \E r \in Asking : req = <<r>> /\ Sends(t, d, r)
  PROVE  IInv' /\ (ChanInv => ChanInv')
<1> USE DEF IInv
<1>1. /\ fs \in Seq(FrameSet) /\ Len(fs) \in {Depth(t), Depth(t) + 1}
      /\ fs[Depth(t)] = g
      /\ \A e \in 1 .. Len(frames[t]) : e # Depth(t) => fs[e] = frames[t][e]
      /\ \A e \in 1 .. Len(fs) : \/ e \in 1 .. Len(frames[t])
                                 \/ /\ e = Depth(t) + 1 /\ Calls(g, fs[e]) /\ FrameOk(fs[e])
                                    /\ fs[e].stmt = 0 /\ fs[e].ver = 0 /\ fs[e].chan = 0
      /\ StackOk(fs)
  BY ExtendsIs DEF GoesOn
<1>2. /\ Depth(t) \in Nat /\ Depth(t) >= 1 /\ Depth(t) = Len(frames[t])
      /\ Depth(t) \in 1 .. Len(frames[t]) /\ Top(t) = frames[t][Depth(t)]
  BY TopIs
<1>3. /\ d \in Nat \ {0} /\ UNCHANGED <<lost, serverVars>> /\ UNCHANGED <<lost, serverVars, nextId, orphans>>
      /\ types' \in [Types -> Nat] /\ slot \in [Slots -> Nat] /\ handle \in [Tasks -> Nat]
  BY <1>2 DEF TypeOK, cacheVars
<1>4. frames'[t] = fs
  BY <1>3, GoIs
<1>5. /\ \A x \in Slots : slot[x] \in HeldNow \cup {0}
      /\ \A u \in Tasks : handle[u] \in HeldNow \cup {0}
      /\ \A e \in 1 .. Len(frames[t]) : frames[t][e].fn # "prepare" => frames[t][e].stmt \in HeldNow \cup {0}
  BY NamedIsHeld
<1>6. \A e \in 1 .. Len(frames[t]) : e < d => e \in 1 .. Len(fs) /\ Kept(frames[t][e], fs[e])
  BY <1>1, <1>2 DEF Kept, GoesOn, Extends
<1>7. \A e \in 1 .. Len(frames[t]) : frames[t][e].fn = "prepare" =>
        e < d /\ e \in 1 .. Len(fs) /\ SameName(frames[t][e], fs[e])
  BY <1>1, <1>2 DEF SameName, GoesOn, Extends
<1>8. \A e \in 1 .. Len(fs) :
        /\ fs[e].fn = "prepare" => fs[e].stmt = 0 \/ (e < d /\ e \in 1 .. Len(frames[t]) /\ SameName(frames[t][e], fs[e]))
        /\ fs[e].fn # "prepare" => fs[e].stmt \in HeldNow \cup {0}
  BY <1>1, <1>2, <1>5 DEF SameName, GoesOn, Extends
<1>9. Moves(t, d, req)
  BY <1>1, <1>3, <1>5, <1>6, <1>7, <1>8, QuietMoves
<1>10. FramesOk(t)
  <2>1. ASSUME NEW e \in 1 .. Len(fs)
        PROVE  \/ fs[e].ver = 0 /\ fs[e].chan = 0
               \/ e \in 1 .. Len(frames[t]) /\ fs[e] = frames[t][e]
               \/ e = Depth(t)
    BY <1>1
  <2>2. \/ g = Top(t)
        \/ (g.ver = Top(t).ver /\ g.stale = Top(t).stale
               /\ \/ Unsent(Top(t)) /\ g.chan = Top(t).chan
                  \/ g.chan = 0
                  \/ g.pc # "wait" /\ ~Unsent(g))
    BY DEF GoesOn, Extends
  <2> QED BY <1>1, <1>2, <1>4, <2>1, <2>2 DEF FramesOk
<1>11. FreshAfterClear'
  BY DEF FreshInv, FreshAfterClear, cacheVars, serverVars
<1> QED BY <1>9, <1>10, <1>11, MovesKeep

\* A frame made now.
LEMMA FrameIs ==
  ASSUME NEW fn \in Fns, NEW arg \in Args, NEW pc \in Pcs
  PROVE  /\ Frame(fn, arg, pc) \in FrameSet /\ Frame(fn, arg, pc).fn = fn /\ Frame(fn, arg, pc).arg = arg
         /\ Frame(fn, arg, pc).pc = pc /\ Frame(fn, arg, pc).stmt = 0 /\ Frame(fn, arg, pc).chan = 0
         /\ Frame(fn, arg, pc).ver = 0
<1>1. <<>> \in Seq(Types)
  OBVIOUS
<1> QED BY <1>1 DEF Frame, FrameSet

\* Without a request, Go is a Stay.
LEMMA StayKeeps ==
  ASSUME IInv, NEW t \in Tasks, frames[t] # <<>>, NEW g, NEW fs, GoesOn(t, g, fs), Stay(t, fs),
         UNCHANGED <<lost, serverVars, nextId, orphans, cacheVars>>
  PROVE  IInv' /\ (ChanInv => ChanInv')
<1>1. fs \in Seq(FrameSet) /\ Len(fs) \in {Depth(t), Depth(t) + 1}
  BY ExtendsIs DEF IInv, GoesOn
<1>2. Depth(t) \in Nat
  BY TopIs DEF IInv
<1>3. Len(fs) + 1 \in Nat /\ Len(fs) + 1 > Depth(t)
  BY <1>1, <1>2
<1>4. Go(t, fs, Len(fs) + 1, slot, handle, <<>>)
  BY DEF Stay
<1> QED BY <1>3, <1>4, GoesOnKeeps

\* A call looks at its next type.
LEMMA StepGetType ==
  ASSUME IInv, NEW t \in Tasks, GetType(t)
  PROVE  IInv' /\ (ChanInv => ChanInv')
<1> DEFINE g == [Top(t) EXCEPT !.todo = Tail(@)]
           o == Head(Top(t).todo)
           h == Frame("type", o, "stmt")
<1>1. /\ frames[t] # <<>> /\ Top(t).pc = "types" /\ Top(t).todo # <<>>
      /\ UNCHANGED <<lost, serverVars, nextId, orphans, cacheVars>>
      /\ Stay(t, WithTop(t, g)) \/ Stay(t, Append(WithTop(t, g), h))
  BY DEF GetType
<1>2. Top(t) \in FrameSet /\ FrameOk(Top(t)) /\ Depth(t) \in 1 .. Len(frames[t]) /\ Top(t) = frames[t][Depth(t)]
  BY <1>1, TopIs DEF IInv
<1>3. Top(t).todo \in Seq(Types) /\ o \in Types /\ Tail(Top(t).todo) \in Seq(Types)
  BY <1>1, <1>2 DEF FrameSet
<1>4. /\ g \in FrameSet /\ g.fn = Top(t).fn /\ g.pc = "types" /\ g.stmt = Top(t).stmt /\ g.arg = Top(t).arg
      /\ g.chan = Top(t).chan /\ g.ver = Top(t).ver /\ g.stale = Top(t).stale
  BY <1>1, <1>2, <1>3 DEF FrameSet
<1>5. h \in FrameSet /\ h.fn = "type" /\ h.arg = o /\ h.pc = "stmt" /\ h.stmt = 0 /\ h.chan = 0 /\ h.ver = 0
  BY <1>3, FrameIs DEF Fns, Lookups, Args, Pcs
<1>6. /\ g.fn # "prepare" => g.stmt \in HeldNow \cup {0}
  BY <1>2, <1>4, NamedIsHeld DEF IInv
<1> HIDE DEF g, h, o
<1>7. FrameOk(g) /\ FrameOk(h) /\ Calls(g, h)
  BY <1>1, <1>2, <1>3, <1>4, <1>5 DEF FrameOk, Calls, Lookups
<1>8. Kept(Top(t), g)
  <2>1. Top(t).chan \in Nat
    BY <1>2 DEF FrameSet
  <2> QED BY <1>1, <1>4, <2>1 DEF Kept, Expects
<1>9. GoesOn(t, g, WithTop(t, g)) /\ GoesOn(t, g, Append(WithTop(t, g), h))
  <2>1. Top(t).fn = "prepare" => SameName(Top(t), g)
    BY <1>1, <1>4 DEF SameName
  <2>2. ~Unsent(g) /\ g.pc # "wait"
    BY <1>4 DEF Unsent
  <2> QED BY <1>4, <1>5, <1>6, <1>7, <1>8, <2>1, <2>2 DEF GoesOn, Extends
<1> QED BY <1>1, <1>9, StayKeeps

\* A lookup takes the cached Statement, or prepares its own.
LEMMA StepGetStatement ==
  ASSUME IInv, NEW t \in Tasks, GetStatement(t)
  PROVE  IInv' /\ (ChanInv => ChanInv')
<1> DEFINE f == Top(t)
           x == SlotOf(f)
           g1 == [f EXCEPT !.stmt = slot[x], !.pc = "send"]
           g2 == [f EXCEPT !.pc = "called"]
           h == Frame("prepare", x, "send")
<1>1. /\ frames[t] # <<>> /\ f.pc = "stmt"
      /\ UNCHANGED <<lost, serverVars, nextId, orphans, cacheVars>>
      /\ \/ slot[x] # 0 /\ Stay(t, WithTop(t, g1))
         \/ Stay(t, Append(WithTop(t, g2), h))
  BY DEF GetStatement
<1>2. f \in FrameSet /\ FrameOk(f) /\ Depth(t) \in 1 .. Len(frames[t]) /\ f = frames[t][Depth(t)]
  BY <1>1, TopIs DEF IInv
<1>3. x \in Slots /\ slot[x] \in Nat /\ slot[x] \in HeldNow \cup {0}
  BY NamedIsHeld DEF SlotOf, Slots, IInv, TypeOK
<1>4. /\ g1 \in FrameSet /\ g1.fn = f.fn /\ g1.pc = "send" /\ g1.stmt = slot[x] /\ g1.arg = f.arg
      /\ g1.chan = f.chan /\ g1.ver = f.ver /\ g1.stale = f.stale
  BY <1>2, <1>3 DEF FrameSet, Pcs
<1>5. /\ g2 \in FrameSet /\ g2.fn = f.fn /\ g2.pc = "called" /\ g2.stmt = f.stmt /\ g2.arg = f.arg
      /\ g2.chan = f.chan /\ g2.ver = f.ver /\ g2.stale = f.stale
  BY <1>2, <1>3 DEF FrameSet, Pcs
<1>6. h \in FrameSet /\ h.fn = "prepare" /\ h.arg = x /\ h.pc = "send" /\ h.stmt = 0 /\ h.chan = 0 /\ h.ver = 0
  BY <1>3, FrameIs DEF Fns, Args, Pcs
<1>7. f.fn \in Lookups /\ f.stmt = 0 /\ f.fn # "prepare" /\ Unsent(f)
  BY <1>1, <1>2 DEF FrameOk, Lookups, Unsent
<1> HIDE DEF f, g1, g2, h, x
<1>8. /\ slot[x] # 0 => FrameOk(g1)
      /\ FrameOk(g2) /\ FrameOk(h) /\ Calls(g2, h) /\ Kept(f, g1) /\ Kept(f, g2)
  BY <1>1, <1>2, <1>3, <1>4, <1>5, <1>6, <1>7 DEF FrameOk, Calls, Lookups, Kept
<1>9. /\ slot[x] # 0 => GoesOn(t, g1, WithTop(t, g1))
      /\ GoesOn(t, g2, Append(WithTop(t, g2), h))
  BY <1>3, <1>4, <1>5, <1>6, <1>7, <1>8 DEF GoesOn, Extends, f
<1> QED BY <1>1, <1>9, StayKeeps

\* query_typed has its columns.
LEMMA StepReadRows ==
  ASSUME IInv, NEW t \in Tasks, ReadRows(t)
  PROVE  IInv' /\ (ChanInv => ChanInv')
<1> DEFINE f == Top(t)
           g == [f EXCEPT !.pc = "wait", !.arg = "rows", !.chan = 0]
<1>1. /\ frames[t] # <<>> /\ f.fn = "typed" /\ f.pc = "types"
      /\ UNCHANGED <<lost, serverVars, nextId, orphans, cacheVars>>
      /\ Stay(t, WithTop(t, g))
  BY DEF ReadRows
<1>2. f \in FrameSet /\ FrameOk(f) /\ Depth(t) \in 1 .. Len(frames[t]) /\ f = frames[t][Depth(t)]
  BY <1>1, TopIs DEF IInv
<1>3. /\ g \in FrameSet /\ g.fn = "typed" /\ g.pc = "wait" /\ g.stmt = f.stmt /\ g.arg = "rows"
      /\ g.chan = 0 /\ g.ver = f.ver /\ g.stale = f.stale
  BY <1>1, <1>2 DEF FrameSet, Pcs, Args
<1>4. g.stmt \in HeldNow \cup {0}
  BY <1>1, <1>2, <1>3, NamedIsHeld DEF IInv
<1>5. f.chan \in Nat
  BY <1>2 DEF FrameSet
<1> HIDE DEF f, g
<1>6. FrameOk(g) /\ Kept(f, g)
  BY <1>1, <1>3, <1>5 DEF FrameOk, Lookups, Kept, Expects, Answers
<1>7. GoesOn(t, g, WithTop(t, g))
  BY <1>1, <1>3, <1>4, <1>6 DEF GoesOn, Extends, f
<1> QED BY <1>1, <1>7, StayKeeps

\* A query is sent with a Statement, or a query_typed without.
LEMMA SendQuery ==
  ASSUME IInv, NEW t \in Tasks, frames[t] # <<>>, Top(t).pc = "send", Top(t).fn # "prepare", ~lost,
         Go(t, WithTop(t, [Top(t) EXCEPT !.pc = "wait"]), Depth(t) + 1, slot, handle,
            <<Request(IF Top(t).fn = "typed" THEN "typed" ELSE "query", Top(t).stmt, <<t, Depth(t)>>, RowsOf(Top(t)))>>),
         UNCHANGED <<lost, serverVars, nextId, orphans, cacheVars>>
  PROVE  IInv' /\ (ChanInv => ChanInv')
<1> DEFINE f == Top(t)
           g == [f EXCEPT !.pc = "wait"]
           r == Request(IF f.fn = "typed" THEN "typed" ELSE "query", f.stmt, <<t, Depth(t)>>, RowsOf(f))
           d == Depth(t) + 1
<1>1. /\ f \in FrameSet /\ FrameOk(f) /\ Depth(t) \in 1 .. Len(frames[t]) /\ f = frames[t][Depth(t)]
      /\ Depth(t) \in Nat /\ Depth(t) >= 1 /\ Depth(t) = Len(frames[t])
  BY TopIs DEF IInv
<1>2. /\ g \in FrameSet /\ g.fn = f.fn /\ g.pc = "wait" /\ g.stmt = f.stmt /\ g.arg = f.arg
      /\ g.chan = f.chan /\ g.ver = f.ver /\ g.stale = f.stale
  BY <1>1 DEF FrameSet, Pcs
<1>3. f.stmt \in HeldNow \cup {0} /\ f.stmt \in Nat
  BY <1>1, NamedIsHeld DEF IInv, FrameSet
<1>4. RowsOf(f) \in Nat /\ (f.fn = "typed" => RowsOf(f) = TypedRows) /\ (f.fn = "type" => RowsOf(f) = 1)
  <2>1. CASE f.fn = "fields"
    <3>1. f.arg \in Types
      BY <1>1, <2>1 DEF FrameOk, Lookups
    <3>2. PartsOf[f.arg] \in Seq(Types)
      BY <3>1, StatementsAssumption
    <3> QED BY <2>1, <3>2 DEF RowsOf
  <2>2. CASE f.fn # "fields"
    BY <2>2, StatementsAssumption DEF RowsOf
  <2> QED BY <2>1, <2>2
<1>5. /\ r.op = (IF f.fn = "typed" THEN "typed" ELSE "query") /\ r.stmt = f.stmt /\ r.to = <<t, Depth(t)>>
      /\ r.rows = RowsOf(f) /\ r \in Asking
  <2>1. <<t, Depth(t)>> \in Tos
    BY <1>1 DEF Tos
  <2> QED BY <1>3, <1>4, <2>1 DEF Request, Asking
<1>6. /\ UNCHANGED <<lost, serverVars>> /\ d \in Nat \ {0} /\ d \in Nat /\ d > Depth(t)
  BY <1>1
<1>7. Go(t, WithTop(t, g), d, slot, handle, <<r>>)
  OBVIOUS
<1> HIDE DEF f, g, r, d
<1>8. frames'[t] = WithTop(t, g)
  BY <1>6, <1>7, GoIs DEF IInv
<1>9. WithTop(t, g)[Depth(t)] = g /\ Len(WithTop(t, g)) = Depth(t)
  BY <1>2, WithTopIs DEF IInv
<1>10. f.pc = "send" /\ f.fn # "prepare"
  BY DEF f
<1>11. Unsent(f) /\ Asked(r, g) /\ FrameOk(g) /\ (r.op = "query" => r.stmt \in HeldNow)
  <2>1. Unsent(f)
    BY <1>10 DEF Unsent
  <2>2. Asked(r, g)
    BY <1>2, <1>4, <1>5, <1>10 DEF Asked
  <2>3. FrameOk(g)
    BY <1>1, <1>2, <1>10 DEF FrameOk, Lookups
  <2>4. ASSUME r.op = "query" PROVE f.stmt # 0
    <3>1. f.fn \in Lookups \cup {"execute"}
      BY <1>1, <1>5, <1>10, <2>4 DEF FrameSet, Fns
    <3> QED BY <1>1, <1>10, <3>1 DEF FrameOk
  <2> QED BY <1>3, <1>5, <2>1, <2>2, <2>3, <2>4
<1>12. Sends(t, d, r)
  <2>1. r.op # "parse"
    BY <1>5
  <2>2. Depth(t) < d /\ Depth(t) \in 1 .. Len(frames'[t]) /\ Unsent(frames[t][Depth(t)])
        /\ Asked(r, frames'[t][Depth(t)])
    BY <1>1, <1>6, <1>8, <1>9, <1>11
  <2> QED BY <1>1, <1>5, <1>11, <2>1, <2>2 DEF Sends
<1>13. GoesOn(t, g, WithTop(t, g))
  <2>1. Kept(f, g)
    BY <1>11 DEF Kept
  <2> QED BY <1>2, <1>3, <1>10, <1>11, <2>1 DEF GoesOn, Extends, f
<1>14. <<r>> = <<>> \/ \E q \in Asking : <<r>> = <<q>> /\ Sends(t, d, q)
  BY <1>5, <1>12
<1> QED BY <1>6, <1>7, <1>13, <1>14, GoesOnKeeps

\* A name is made up and Parse is sent.
LEMMA SendParse ==
  ASSUME IInv, NEW t \in Tasks, frames[t] # <<>>, Top(t).pc = "send", Top(t).fn = "prepare", ~lost,
         Go(t, WithTop(t, [Top(t) EXCEPT !.stmt = nextId, !.pc = "wait"]), Depth(t) + 1, slot, handle,
            <<Request("parse", nextId, <<t, Depth(t)>>, 0)>>),
         nextId' = nextId + 1, UNCHANGED <<lost, serverVars, orphans, cacheVars>>
  PROVE  IInv' /\ (ChanInv => ChanInv')
<1> DEFINE f == Top(t)
           g == [f EXCEPT !.stmt = nextId, !.pc = "wait"]
           r == Request("parse", nextId, <<t, Depth(t)>>, 0)
           d == Depth(t) + 1
<1>1. /\ f \in FrameSet /\ FrameOk(f) /\ Depth(t) \in 1 .. Len(frames[t]) /\ f = frames[t][Depth(t)]
      /\ Depth(t) \in Nat /\ Depth(t) >= 1 /\ Depth(t) = Len(frames[t]) /\ StackOk(frames[t])
  BY TopIs DEF IInv
<1>2. nextId \in Nat /\ nextId # 0 /\ handle \in [Tasks -> Nat] /\ slot \in [Slots -> Nat]
      /\ types' \in [Types -> Nat]
  BY DEF IInv, TypeOK, cacheVars
<1>3. /\ g \in FrameSet /\ g.fn = "prepare" /\ g.pc = "wait" /\ g.stmt = nextId /\ g.arg = f.arg
      /\ g.chan = f.chan /\ g.ver = f.ver /\ g.stale = f.stale
  BY <1>1, <1>2 DEF FrameSet, Pcs
<1>4. r.op = "parse" /\ r.stmt = nextId /\ r.to = <<t, Depth(t)>> /\ r \in Asking
  <2>1. <<t, Depth(t)>> \in Tos
    BY <1>1 DEF Tos
  <2> QED BY <1>2, <2>1 DEF Request, Asking
<1>5. UNCHANGED <<lost, serverVars>> /\ d \in Nat \ {0} /\ d \in Nat /\ d > Depth(t)
  BY <1>1
<1>6. Go(t, WithTop(t, g), d, slot, handle, <<r>>)
  OBVIOUS
<1>7. f.pc = "send" /\ f.fn = "prepare"
  OBVIOUS
<1> HIDE DEF f, g, r, d
<1>8. /\ WithTop(t, g) \in Seq(FrameSet) /\ Len(WithTop(t, g)) = Depth(t) /\ WithTop(t, g)[Depth(t)] = g
      /\ \A e \in 1 .. Len(frames[t]) : e # Depth(t) => WithTop(t, g)[e] = frames[t][e]
  BY <1>3, WithTopIs DEF IInv
<1>9. /\ Goes(t, d, <<r>>) /\ frames'[t] = WithTop(t, g) /\ slot' = slot /\ handle' = handle
      /\ frames' \in [Tasks -> Seq(FrameSet)]
  BY <1>5, <1>6, <1>8, GoIs DEF IInv
<1>10. f.stmt = 0 /\ Unsent(f) /\ FrameOk(g) /\ Asked(r, g) /\ Kept(f, g)
  BY <1>1, <1>2, <1>3, <1>4, <1>7 DEF FrameOk, Lookups, Unsent, Asked, Kept
<1>11. StackOk(WithTop(t, g))
  <2>1. \A e \in 1 .. Len(frames[t]) : WithTop(t, g)[e].fn = frames[t][e].fn
    BY <1>1, <1>3, <1>7, <1>8
  <2>2. \A e \in 1 .. Len(frames[t]) : FrameOk(WithTop(t, g)[e])
    BY <1>1, <1>8, <1>10 DEF StackOk
  <2>3. \A e \in 1 .. Len(frames[t]) : e < Len(frames[t]) => Calls(WithTop(t, g)[e], WithTop(t, g)[e + 1])
    <3> SUFFICES ASSUME NEW e \in 1 .. Len(frames[t]), e < Len(frames[t])
                 PROVE  Calls(WithTop(t, g)[e], WithTop(t, g)[e + 1])
      OBVIOUS
    <3>1. Calls(frames[t][e], frames[t][e + 1]) /\ e # Depth(t) /\ e + 1 \in 1 .. Len(frames[t])
      BY <1>1 DEF StackOk
    <3> QED BY <1>8, <2>1, <3>1 DEF Calls
  <2> QED BY <1>1, <1>8, <2>1, <2>2, <2>3 DEF StackOk
<1>12. GoTypes(t)
  BY <1>2, <1>9, <1>11 DEF GoTypes
<1>13. Keeps(t, d)
  BY <1>1, <1>8, <1>9, <1>10 DEF Keeps, Kept
<1>14. HeldNow' \subseteq HeldNow
  <2>1. /\ \A x \in Slots : slot'[x] \in HeldNow \cup {} \cup {0}
        /\ \A u \in Tasks : handle'[u] \in HeldNow \cup {} \cup {0}
        /\ \A e \in 1 .. Len(frames[t]) : frames[t][e].fn # "prepare" => frames[t][e].stmt \in HeldNow \cup {} \cup {0}
    BY <1>9, NamedIsHeld DEF IInv
  <2>2. \A u \in Tasks : u # t => frames'[u] = frames[u]
    BY <1>9 DEF Goes
  <2>3. \A e \in 1 .. Len(frames'[t]) :
          frames'[t][e].fn # "prepare" => frames'[t][e].stmt \in HeldNow \cup {} \cup {0}
    BY <1>1, <1>3, <1>8, <1>9, <2>1
  <2>4. HeldNow' \subseteq HeldNow \cup {}
    BY <1>9, <2>1, <2>2, <2>3, HeldStep DEF IInv
  <2> QED BY <2>4
<1>15. /\ \A e \in 1 .. Len(frames[t]) : ~Leaves(t, d, e)
       /\ \A e \in 1 .. Len(frames'[t]) : e # Depth(t) /\ frames'[t][e].fn = "prepare" => Stays(t, d, e)
  BY <1>1, <1>5, <1>8, <1>9, <1>10 DEF Leaves, Stays
<1>16. Names(t, d, <<r>>)
  BY <1>1, <1>3, <1>5, <1>8, <1>9, <1>10, <1>14, <1>15 DEF Names
<1>17. Sends(t, d, r)
  <2>1. Depth(t) < d /\ Depth(t) \in 1 .. Len(frames'[t]) /\ Unsent(frames[t][Depth(t)])
        /\ Asked(r, frames'[t][Depth(t)])
    BY <1>1, <1>5, <1>8, <1>9, <1>10
  <2> QED BY <1>1, <1>4, <2>1 DEF Sends
<1>18. Moves(t, d, <<r>>)
  BY <1>4, <1>9, <1>12, <1>13, <1>16, <1>17 DEF Moves
<1>19. FramesOk(t)
  BY <1>1, <1>3, <1>8, <1>9, <1>10 DEF FramesOk
<1>20. FreshAfterClear'
  BY DEF IInv, FreshInv, FreshAfterClear, cacheVars, serverVars
<1> QED BY <1>18, <1>19, <1>20, MovesKeep

\* A call sends its request, or finds the Connection gone.
LEMMA StepSend ==
  ASSUME IInv, NEW t \in Tasks, Send(t)
  PROVE  IInv' /\ (ChanInv => ChanInv')
<1>1. frames[t] # <<>> /\ Top(t).pc = "send" /\ UNCHANGED <<lost, serverVars, cacheVars>>
  BY DEF Send
<1>2. CASE lost /\ Fail(t) /\ UNCHANGED nextId
  BY <1>1, <1>2, FailKeeps
<1>3. CASE ~lost /\ Top(t).fn = "prepare"
  <2>1. /\ nextId' = nextId + 1 /\ UNCHANGED orphans
        /\ Go(t, WithTop(t, [Top(t) EXCEPT !.stmt = nextId, !.pc = "wait"]), Depth(t) + 1,
              slot, handle, <<Request("parse", nextId, <<t, Depth(t)>>, 0)>>)
    BY <1>3 DEF Send
  <2> QED BY <1>1, <1>3, <2>1, SendParse
<1>4. CASE ~lost /\ Top(t).fn # "prepare"
  <2>1. /\ UNCHANGED <<nextId, orphans>>
        /\ Go(t, WithTop(t, [Top(t) EXCEPT !.pc = "wait"]), Depth(t) + 1, slot, handle,
              <<Request(IF Top(t).fn = "typed" THEN "typed" ELSE "query", Top(t).stmt, <<t, Depth(t)>>, RowsOf(Top(t)))>>)
    BY <1>4 DEF Send
  <2> QED BY <1>1, <1>4, <2>1, SendQuery
<1> QED BY <1>2, <1>3, <1>4 DEF Send

\* Call stacks of which only frames in the same function differ.
LEMMA SameFns ==
  ASSUME NEW fs \in Seq(FrameSet), NEW gs \in Seq(FrameSet), StackOk(fs), Len(gs) <= Len(fs),
         \A e \in 1 .. Len(gs) : FrameOk(gs[e]) /\ gs[e].fn = fs[e].fn,
         \A e \in 1 .. Len(gs) : e < Len(gs) => gs[e] = fs[e]
  PROVE  StackOk(gs)
<1>1. Len(gs) \in Nat /\ Len(fs) \in Nat
  OBVIOUS
<1>2. gs # <<>> => fs # <<>> /\ 1 \in 1 .. Len(gs)
  BY <1>1
<1>3. ASSUME NEW e \in 1 .. Len(gs), e < Len(gs) PROVE Calls(gs[e], gs[e + 1])
  <2>1. e \in 1 .. Len(fs) /\ e < Len(fs) /\ e + 1 \in 1 .. Len(gs)
    BY <1>1, <1>3
  <2>2. Calls(fs[e], fs[e + 1]) /\ gs[e] = fs[e] /\ gs[e + 1].fn = fs[e + 1].fn
    BY <1>3, <2>1 DEF StackOk
  <2> QED BY <2>2 DEF Calls
<1> QED BY <1>2, <1>3 DEF StackOk

\* The place below the top.
LEMMA BelowTop ==
  ASSUME NEW n \in Nat, n >= 1, n # 1
  PROVE  n - 1 \in 1 .. n - 1 /\ n - 1 \in 1 .. n /\ n - 1 < n /\ n - 1 + 1 = n /\ ~(n < n) /\ n \notin 1 .. n - 1
OBVIOUS

\* A stack with one frame changed.
LEMMA SetIs ==
  ASSUME NEW p \in Seq(FrameSet), NEW k \in 1 .. Len(p), NEW g \in FrameSet
  PROVE  /\ [p EXCEPT ![k] = g] \in Seq(FrameSet) /\ Len([p EXCEPT ![k] = g]) = Len(p)
         /\ [p EXCEPT ![k] = g][k] = g
         /\ \A e \in 1 .. Len(p) : e # k => [p EXCEPT ![k] = g][e] = p[e]
OBVIOUS

\* The stack without its top, whose new top goes on as g.
LEMMA PopSetIs ==
  ASSUME TypeOK, StackInv, NEW t \in Tasks, frames[t] # <<>>, Depth(t) # 1, NEW g \in FrameSet,
         FrameOk(g), g.fn = frames[t][Depth(t) - 1].fn
  PROVE  /\ [Popped(t) EXCEPT ![Depth(t) - 1] = g] \in Seq(FrameSet)
         /\ Len([Popped(t) EXCEPT ![Depth(t) - 1] = g]) = Depth(t) - 1
         /\ [Popped(t) EXCEPT ![Depth(t) - 1] = g][Depth(t) - 1] = g
         /\ \A e \in 1 .. Depth(t) - 1 : e # Depth(t) - 1 =>
              [Popped(t) EXCEPT ![Depth(t) - 1] = g][e] = frames[t][e]
         /\ StackOk([Popped(t) EXCEPT ![Depth(t) - 1] = g])
<1> DEFINE fs == [Popped(t) EXCEPT ![Depth(t) - 1] = g]
<1>1. /\ frames[t] \in Seq(FrameSet) /\ Depth(t) \in Nat /\ Depth(t) >= 1 /\ Depth(t) = Len(frames[t])
      /\ StackOk(frames[t])
  BY TopIs
<1>2. /\ Popped(t) \in Seq(FrameSet) /\ Len(Popped(t)) = Depth(t) - 1
      /\ \A e \in 1 .. Depth(t) - 1 : Popped(t)[e] = frames[t][e] /\ e \in 1 .. Len(frames[t])
  BY PoppedIs
<1>3. /\ fs \in Seq(FrameSet) /\ Len(fs) = Depth(t) - 1 /\ fs[Depth(t) - 1] = g
      /\ \A e \in 1 .. Depth(t) - 1 : e # Depth(t) - 1 => fs[e] = frames[t][e]
  <2>1. Depth(t) - 1 \in 1 .. Len(Popped(t))
    BY <1>1, <1>2, BelowTop
  <2>2. /\ fs \in Seq(FrameSet) /\ Len(fs) = Len(Popped(t)) /\ fs[Depth(t) - 1] = g
        /\ \A e \in 1 .. Len(Popped(t)) : e # Depth(t) - 1 => fs[e] = Popped(t)[e]
    BY <1>2, <2>1, SetIs
  <2> HIDE DEF fs
  <2> QED BY <1>2, <2>2
<1> HIDE DEF fs
<1>4. StackOk(fs)
  <2>1. \A e \in 1 .. Len(fs) : FrameOk(fs[e]) /\ fs[e].fn = frames[t][e].fn
    BY <1>1, <1>2, <1>3 DEF StackOk
  <2>2. \A e \in 1 .. Len(fs) : e < Len(fs) => fs[e] = frames[t][e]
    BY <1>1, <1>3
  <2>3. Len(fs) <= Len(frames[t])
    BY <1>1, <1>3
  <2> QED BY <1>1, <1>3, <2>1, <2>2, <2>3, SameFns
<1> QED BY <1>3, <1>4 DEF fs

\* The query for older servers is prepared in place of the one refused.
LEMMA StepFallback ==
  ASSUME IInv, NEW t \in Tasks, Fallback(t)
  PROVE  IInv' /\ (ChanInv => ChanInv')
<1> DEFINE h == Frame("prepare", "fallback", "send")
           fs == WithTop(t, h)
           d == Depth(t)
<1>1. /\ frames[t] # <<>> /\ Top(t).pc = "again" /\ Go(t, fs, d, slot, handle, <<>>)
      /\ UNCHANGED <<lost, serverVars, nextId, orphans, cacheVars>>
  BY DEF Fallback
<1>2. /\ frames[t] \in Seq(FrameSet) /\ d \in Nat /\ d >= 1 /\ d = Len(frames[t])
      /\ d \in 1 .. Len(frames[t]) /\ Top(t) = frames[t][d] /\ Top(t) \in FrameSet
      /\ FrameOk(Top(t)) /\ StackOk(frames[t])
  BY <1>1, TopIs DEF IInv
<1>3. h \in FrameSet /\ h.fn = "prepare" /\ h.pc = "send" /\ h.stmt = 0 /\ h.chan = 0 /\ h.ver = 0
  BY FrameIs DEF Fns, Args, Pcs
<1> HIDE DEF h
<1>4. FrameOk(h) /\ frames[t][d].fn = "prepare" /\ frames[t][d].pc = "again"
  BY <1>1, <1>2, <1>3 DEF FrameOk, Lookups
<1>5. /\ fs \in Seq(FrameSet) /\ Len(fs) = d /\ fs[d] = h
      /\ \A e \in 1 .. Len(frames[t]) : e # d => fs[e] = frames[t][e]
  BY <1>1, <1>3, WithTopIs DEF IInv
<1> HIDE DEF fs, d
<1>6. StackOk(fs)
  <2>1. \A e \in 1 .. Len(fs) : FrameOk(fs[e]) /\ fs[e].fn = frames[t][e].fn
    BY <1>2, <1>3, <1>4, <1>5 DEF StackOk
  <2>2. \A e \in 1 .. Len(fs) : e < Len(fs) => fs[e] = frames[t][e]
    BY <1>2, <1>5
  <2>3. Len(fs) <= Len(frames[t])
    BY <1>2, <1>5
  <2> QED BY <1>2, <1>5, <2>1, <2>2, <2>3, SameFns
<1>7. /\ Goes(t, d, <<>>) /\ frames'[t] = fs /\ slot' = slot /\ handle' = handle
      /\ frames' \in [Tasks -> Seq(FrameSet)]
  <2>1. UNCHANGED <<lost, serverVars>> /\ d \in Nat \ {0}
    BY <1>1, <1>2
  <2> QED BY <1>1, <1>5, <2>1, GoIs DEF IInv
<1>8. GoTypes(t)
  BY <1>1, <1>6, <1>7 DEF GoTypes, IInv, TypeOK, cacheVars
<1>9. Keeps(t, d)
  BY <1>2, <1>5, <1>7 DEF Keeps, Kept
<1>10. HeldNow' \subseteq HeldNow
  <2>1. /\ \A x \in Slots : slot'[x] \in HeldNow \cup {} \cup {0}
        /\ \A u \in Tasks : handle'[u] \in HeldNow \cup {} \cup {0}
        /\ \A e \in 1 .. Len(frames[t]) : frames[t][e].fn # "prepare" => frames[t][e].stmt \in HeldNow \cup {} \cup {0}
    BY <1>7, NamedIsHeld DEF IInv
  <2>2. \A u \in Tasks : u # t => frames'[u] = frames[u]
    BY <1>7 DEF Goes
  <2>3. \A e \in 1 .. Len(frames'[t]) :
          frames'[t][e].fn # "prepare" => frames'[t][e].stmt \in HeldNow \cup {} \cup {0}
    BY <1>2, <1>3, <1>5, <1>7, <2>1
  <2>4. HeldNow' \subseteq HeldNow \cup {}
    BY <1>7, <2>1, <2>2, <2>3, HeldStep DEF IInv
  <2> QED BY <2>4
<1>11. Names(t, d, <<>>)
  <2>1. \A e \in 1 .. Len(frames[t]) : Leaves(t, d, e) => frames[t][e].pc = "again"
    BY <1>2, <1>4, <1>5, <1>7 DEF Leaves, Stays
  <2>2. \A e \in 1 .. Len(frames'[t]) : frames'[t][e].fn = "prepare" /\ frames'[t][e].stmt # 0 => Stays(t, d, e)
    BY <1>2, <1>3, <1>5, <1>7 DEF Stays
  <2> QED BY <1>1, <1>10, <2>1, <2>2 DEF Names
<1>12. Moves(t, d, <<>>)
  BY <1>7, <1>8, <1>9, <1>11 DEF Moves
<1>13. FramesOk(t)
  BY <1>2, <1>3, <1>5, <1>7 DEF FramesOk
<1>14. FreshAfterClear'
  BY <1>1 DEF IInv, FreshInv, FreshAfterClear, cacheVars, serverVars
<1> QED BY <1>12, <1>13, <1>14, MovesKeep

\* get_type caches the type and returns.
LEMMA StepReturnType ==
  ASSUME IInv, NEW t \in Tasks, frames[t] # <<>>, Top(t).pc = "types", ReturnType(t),
         UNCHANGED <<lost, serverVars, nextId, orphans>>
  PROVE  IInv' /\ (ChanInv => ChanInv')
<1> DEFINE fs == Popped(t)
           d == Len(fs) + 1
<1> USE DEF IInv
<1>1. /\ frames[t] \in Seq(FrameSet) /\ Depth(t) \in Nat /\ Depth(t) >= 1 /\ Depth(t) = Len(frames[t])
      /\ Depth(t) \in 1 .. Len(frames[t]) /\ Top(t) = frames[t][Depth(t)] /\ Top(t) \in FrameSet
      /\ FrameOk(Top(t)) /\ StackOk(frames[t])
  BY TopIs
<1>2. /\ fs \in Seq(FrameSet) /\ Len(fs) = Depth(t) - 1
      /\ \A e \in 1 .. Depth(t) - 1 : fs[e] = frames[t][e] /\ e \in 1 .. Len(frames[t])
  BY PoppedIs
<1> HIDE DEF fs
<1>3. d = Depth(t) /\ d \in Nat \ {0}
  BY <1>1, <1>2
<1>4. Top(t).fn = "type" /\ Top(t).arg \in Types /\ Top(t).ver \in Nat
  BY <1>1 DEF ReturnType, FrameOk, Lookups, FrameSet
<1>5. Go(t, fs, d, slot, handle, <<>>)
  BY DEF ReturnType, Stay, fs
<1>6. StackOk(fs)
  <2>1. \A e \in 1 .. Len(fs) : FrameOk(fs[e]) /\ fs[e].fn = frames[t][e].fn
    BY <1>1, <1>2 DEF StackOk
  <2>2. \A e \in 1 .. Len(fs) : e < Len(fs) => fs[e] = frames[t][e]
    BY <1>1, <1>2
  <2>3. Len(fs) <= Len(frames[t])
    BY <1>1, <1>2
  <2> QED BY <1>1, <1>2, <2>1, <2>2, <2>3, SameFns
<1>7. /\ \A x \in Slots : slot[x] \in HeldNow \cup {0}
      /\ \A u \in Tasks : handle[u] \in HeldNow \cup {0}
      /\ \A e \in 1 .. Len(frames[t]) : frames[t][e].fn # "prepare" => frames[t][e].stmt \in HeldNow \cup {0}
  BY NamedIsHeld
<1>8. /\ UNCHANGED <<lost, serverVars>>
      /\ types' \in [Types -> Nat] /\ slot \in [Slots -> Nat] /\ handle \in [Tasks -> Nat]
  BY <1>4 DEF TypeOK, ReturnType
<1>9. Moves(t, d, <<>>)
  <2>1. \A e \in 1 .. Len(frames[t]) : e < d => e \in 1 .. Len(fs) /\ Kept(frames[t][e], fs[e])
    BY <1>1, <1>2, <1>3 DEF Kept
  <2>2. \A e \in 1 .. Len(frames[t]) : frames[t][e].fn = "prepare" =>
          e < d /\ e \in 1 .. Len(fs) /\ SameName(frames[t][e], fs[e])
    BY <1>1, <1>2, <1>3, <1>4 DEF SameName
  <2>3. \A e \in 1 .. Len(fs) :
          /\ fs[e].fn = "prepare" => fs[e].stmt = 0 \/ (e < d /\ e \in 1 .. Len(frames[t]) /\ SameName(frames[t][e], fs[e]))
          /\ fs[e].fn # "prepare" => fs[e].stmt \in HeldNow \cup {0}
    BY <1>1, <1>2, <1>3, <1>7 DEF SameName
  <2> QED BY <1>2, <1>3, <1>5, <1>6, <1>7, <1>8, <2>1, <2>2, <2>3, QuietMoves
<1>10. frames'[t] = fs
  BY <1>3, <1>5, <1>8, GoIs
<1>11. FramesOk(t)
  BY <1>1, <1>2, <1>10 DEF FramesOk
<1>12. FreshAfterClear'
  <2>1. ~Top(t).stale => Top(t).ver \in {0, version}
    BY <1>1 DEF FreshInv
  <2>2. /\ types' = [types EXCEPT ![Top(t).arg] = Top(t).ver] /\ types \in [Types -> Nat]
        /\ late' = IF Top(t).stale THEN late \cup {Top(t).arg} ELSE late \ {Top(t).arg}
        /\ version' = version
    BY DEF ReturnType, serverVars, TypeOK
  <2> QED BY <1>4, <2>1, <2>2 DEF FreshInv, FreshAfterClear
<1> QED BY <1>9, <1>11, <1>12, MovesKeep

\* prepare gives its Statement to the application.
LEMMA ReturnPrepareOut ==
  ASSUME IInv, NEW t \in Tasks, frames[t] # <<>>, Top(t).pc = "types", Top(t).fn = "prepare", Depth(t) = 1,
         Go(t, <<>>, 1, slot, [handle EXCEPT ![t] = Top(t).stmt], <<>>),
         UNCHANGED <<lost, serverVars, nextId, orphans, cacheVars>>
  PROVE  IInv' /\ (ChanInv => ChanInv')
<1> DEFINE s == Top(t).stmt
           hd == [handle EXCEPT ![t] = s]
<1> USE DEF IInv
<1>1. /\ 1 = Len(frames[t]) /\ Top(t) = frames[t][1] /\ Top(t) \in FrameSet /\ FrameOk(Top(t))
  BY TopIs
<1>2. s \in Nat /\ s # 0
  BY <1>1 DEF FrameSet, FrameOk
<1>3. hd \in [Tasks -> Nat] /\ hd[t] = s /\ \A u \in Tasks : u # t => hd[u] = handle[u]
  BY <1>2 DEF TypeOK
<1>4. Go(t, <<>>, 1, slot, hd, <<>>)
  OBVIOUS
<1> HIDE DEF s, hd
<1>5. UNCHANGED <<lost, serverVars>> /\ 1 \in Nat \ {0} /\ <<>> \in Seq(FrameSet)
  OBVIOUS
<1>6. /\ Goes(t, 1, <<>>) /\ frames'[t] = <<>> /\ slot' = slot /\ handle' = hd
      /\ frames' \in [Tasks -> Seq(FrameSet)]
  BY <1>4, <1>5, GoIs
<1>7. \A e : e \notin 1 .. Len(frames'[t])
  BY <1>6
<1>8. GoTypes(t)
  <2>1. StackOk(frames'[t])
    BY <1>6, <1>7 DEF StackOk
  <2>2. slot \in [Slots -> Nat] /\ types' \in [Types -> Nat] /\ nextId' = nextId
    BY DEF TypeOK, cacheVars
  <2> QED BY <1>3, <1>6, <2>1, <2>2 DEF GoTypes
<1>9. HeldNow' \subseteq HeldNow \cup {s}
  <2>1. /\ \A x \in Slots : slot'[x] \in HeldNow \cup {s} \cup {0}
        /\ \A u \in Tasks : handle'[u] \in HeldNow \cup {s} \cup {0}
    BY <1>3, <1>6, NamedIsHeld
  <2>2. \A u \in Tasks : u # t => frames'[u] = frames[u]
    BY <1>6 DEF Goes
  <2> QED BY <1>6, <1>7, <2>1, <2>2, HeldStep
<1>10. s \in HeldNow'
  <2>1. IsNamed(frames', slot', handle', s)
    BY <1>2, <1>3, <1>6 DEF IsNamed
  <2>2. s \in Held(frames', slot', handle')
    BY <1>6, <2>1, HeldIs
  <2> QED BY <2>2 DEF HeldNow
<1>11. Leaves(t, 1, 1) /\ frames[t][1].pc = "types" /\ frames[t][1].stmt = s /\ 1 \in 1 .. Len(frames[t])
  BY <1>1, <1>2 DEF Leaves, Stays, s
<1>12. \A e \in 1 .. Len(frames[t]) : e = 1
  <2>1. Len(frames[t]) = 1
    BY <1>1
  <2>2. \A e \in 1 .. 1 : e = 1
    OBVIOUS
  <2> QED BY <2>1, <2>2
<1>13. Names(t, 1, <<>>)
  BY <1>7, <1>9, <1>10, <1>11, <1>12 DEF Names
<1>14. Moves(t, 1, <<>>)
  <2>1. Keeps(t, 1)
    BY <1>12 DEF Keeps
  <2> QED BY <1>6, <1>8, <1>13, <2>1 DEF Moves
<1>15. FramesOk(t)
  BY <1>7 DEF FramesOk
<1>16. FreshAfterClear'
  BY DEF FreshInv, FreshAfterClear, cacheVars, serverVars
<1> QED BY <1>14, <1>15, <1>16, MovesKeep

\* prepare gives its Statement to the lookup that needs it, and to the cache.
LEMMA ReturnPrepareIn ==
  ASSUME IInv, NEW t \in Tasks, frames[t] # <<>>, Top(t).pc = "types", Top(t).fn = "prepare", Depth(t) # 1,
         NEW c, c = frames[t][Depth(t) - 1],
         Go(t, [Popped(t) EXCEPT ![Depth(t) - 1] = [c EXCEPT !.stmt = Top(t).stmt, !.pc = "send"]],
            Depth(t), [slot EXCEPT ![SlotOf(c)] = Top(t).stmt], handle, <<>>),
         UNCHANGED <<lost, serverVars, nextId, orphans, cacheVars>>
  PROVE  IInv' /\ (ChanInv => ChanInv')
<1> DEFINE s == Top(t).stmt
           d == Depth(t)
           g == [c EXCEPT !.stmt = s, !.pc = "send"]
           fs == [Popped(t) EXCEPT ![d - 1] = g]
           sl == [slot EXCEPT ![SlotOf(c)] = s]
<1> USE DEF IInv
<1>1. /\ frames[t] \in Seq(FrameSet) /\ d \in Nat /\ d >= 1 /\ d = Len(frames[t])
      /\ d \in 1 .. Len(frames[t]) /\ Top(t) = frames[t][d] /\ Top(t) \in FrameSet
      /\ FrameOk(Top(t)) /\ StackOk(frames[t])
  BY TopIs
<1>2. s \in Nat /\ s # 0 /\ d - 1 \in 1 .. Len(frames[t]) /\ d - 1 + 1 = d /\ d - 1 < d
  <2>1. s \in Nat /\ s # 0
    BY <1>1 DEF FrameSet, FrameOk
  <2>2. d - 1 \in 1 .. d /\ d - 1 + 1 = d /\ d - 1 < d
    BY <1>1, BelowTop
  <2> QED BY <1>1, <2>1, <2>2
<1>3. c \in FrameSet /\ FrameOk(c) /\ c.pc = "called" /\ c.stmt = 0 /\ c.fn \in Lookups
  <2>1. Calls(frames[t][d - 1], frames[t][d - 1 + 1]) /\ FrameOk(frames[t][d - 1])
    <3> HIDE DEF d
    <3>1. d - 1 < Len(frames[t])
      BY <1>1, <1>2
    <3> QED BY <1>1, <1>2, <3>1 DEF StackOk
  <2>2. frames[t][d - 1 + 1] = Top(t)
    BY <1>1, <1>2 DEF Top
  <2>3. c.pc = "called" /\ c.stmt = 0
    BY <2>1, <2>2 DEF Calls
  <2>4. c \in FrameSet /\ FrameOk(c)
    <3>1. c = frames[t][d - 1]
      OBVIOUS
    <3> HIDE DEF d
    <3>2. frames[t][d - 1] \in FrameSet
      BY <1>1, <1>2
    <3> QED BY <2>1, <3>1, <3>2
  <2>5. c.fn \in Lookups
    BY <2>3, <2>4 DEF FrameOk
  <2> QED BY <2>3, <2>4, <2>5
<1>4. /\ g \in FrameSet /\ g.fn = c.fn /\ g.pc = "send" /\ g.stmt = s /\ g.arg = c.arg
      /\ g.chan = c.chan /\ g.ver = c.ver /\ g.stale = c.stale
  BY <1>2, <1>3 DEF FrameSet, Pcs
<1>5. sl \in [Slots -> Nat] /\ \A x \in Slots : sl[x] \in {s, slot[x]}
  <2>1. SlotOf(c) \in Slots
    BY DEF SlotOf, Slots
  <2> QED BY <1>2, <2>1 DEF TypeOK
<1>6. Go(t, fs, d, sl, handle, <<>>)
  OBVIOUS
<1> HIDE DEF s, sl, g
<1>7. FrameOk(g) /\ Kept(c, g) /\ Unsent(c) /\ g.fn # "prepare"
  BY <1>2, <1>3, <1>4 DEF FrameOk, Lookups, Kept, Unsent
<1>8. /\ fs \in Seq(FrameSet) /\ Len(fs) = d - 1 /\ fs[d - 1] = g
      /\ \A e \in 1 .. d - 1 : e # d - 1 => fs[e] = frames[t][e]
      /\ StackOk(fs)
  BY <1>4, <1>7, PopSetIs
<1> HIDE DEF fs, d
<1>9. /\ Goes(t, d, <<>>) /\ frames'[t] = fs /\ slot' = sl /\ handle' = handle
      /\ frames' \in [Tasks -> Seq(FrameSet)]
  <2>1. UNCHANGED <<lost, serverVars>> /\ d \in Nat \ {0}
    BY <1>1
  <2> QED BY <1>6, <1>8, <2>1, GoIs
<1>10. GoTypes(t)
  <2>2. handle \in [Tasks -> Nat] /\ types' \in [Types -> Nat] /\ nextId' = nextId
    BY DEF TypeOK, cacheVars
  <2> QED BY <1>5, <1>8, <1>9, <2>2 DEF GoTypes
<1>11. \A e \in 1 .. Len(frames[t]) : e = d \/ e = d - 1 \/ (e \in 1 .. d - 1 /\ e < d)
  BY <1>1
<1>12. d - 1 < d /\ d - 1 \in 1 .. Len(fs) /\ ~(d < d) /\ Len(fs) = d - 1 /\ d \notin 1 .. Len(fs)
  BY <1>1, <1>2, <1>8
<1>13. Keeps(t, d)
  <2>1. ASSUME NEW e \in 1 .. Len(frames[t]), e < d PROVE e \in 1 .. Len(fs) /\ Kept(frames[t][e], fs[e])
    <3>1. CASE e = d - 1
      BY <1>7, <1>8, <1>12, <3>1 DEF d
    <3>2. CASE e # d - 1
      BY <1>8, <1>11, <1>12, <2>1, <3>2 DEF Kept
    <3> QED BY <3>1, <3>2
  <2> QED BY <1>9, <2>1 DEF Keeps
<1>14. HeldNow' \subseteq HeldNow \cup {s}
  <2>1. /\ \A x \in Slots : slot'[x] \in HeldNow \cup {s} \cup {0}
        /\ \A u \in Tasks : handle'[u] \in HeldNow \cup {s} \cup {0}
        /\ \A e \in 1 .. Len(frames[t]) : frames[t][e].fn # "prepare" => frames[t][e].stmt \in HeldNow \cup {0}
    BY <1>5, <1>9, NamedIsHeld
  <2>2. \A u \in Tasks : u # t => frames'[u] = frames[u]
    BY <1>9 DEF Goes
  <2>3. \A e \in 1 .. Len(frames'[t]) :
          frames'[t][e].fn # "prepare" => frames'[t][e].stmt \in HeldNow \cup {s} \cup {0}
    <3> SUFFICES ASSUME NEW e \in 1 .. Len(fs), fs[e].fn # "prepare" PROVE fs[e].stmt \in HeldNow \cup {s} \cup {0}
      BY <1>9
    <3>1. e \in 1 .. Len(frames[t]) /\ (e = d - 1 \/ fs[e] = frames[t][e])
      BY <1>1, <1>8
    <3> QED BY <1>4, <1>8, <2>1, <3>1
  <2> QED BY <1>9, <2>1, <2>2, <2>3, HeldStep
<1>15. s \in HeldNow'
  <2>1. IsNamed(frames', slot', handle', s)
    BY <1>2, <1>4, <1>7, <1>8, <1>9, <1>12 DEF IsNamed
  <2>2. s \in Held(frames', slot', handle')
    BY <1>9, <2>1, HeldIs
  <2> QED BY <2>2 DEF HeldNow
<1>16. Leaves(t, d, d) /\ frames[t][d].pc = "types" /\ frames[t][d].stmt = s /\ d \in 1 .. Len(frames[t])
  BY <1>1, <1>2, <1>12 DEF Leaves, Stays, s
<1>17. /\ \A e \in 1 .. Len(frames[t]) : Leaves(t, d, e) => e = d
       /\ \A e \in 1 .. Len(frames'[t]) : frames'[t][e].fn = "prepare" => Stays(t, d, e)
  <2>1. frames[t][d - 1].fn # "prepare"
    BY <1>3 DEF d, Lookups
  <2>2. ASSUME NEW e \in 1 .. Len(fs), e # d - 1
        PROVE  e \in 1 .. Len(frames[t]) /\ e < d /\ fs[e] = frames[t][e] /\ e # d
    BY <1>1, <1>8, <2>2
  <2>3. \A e \in 1 .. Len(fs) : fs[e].fn = "prepare" => Stays(t, d, e)
    BY <1>7, <1>8, <1>9, <2>2 DEF Stays
  <2>4. ASSUME NEW e \in 1 .. Len(frames[t]), Leaves(t, d, e) PROVE e = d
    <3>1. e # d - 1
      BY <2>1, <2>4 DEF Leaves
    <3>2. e = d \/ e \in 1 .. Len(fs)
      BY <1>1, <1>8
    <3> QED BY <1>9, <2>2, <2>3, <2>4, <3>1, <3>2 DEF Leaves
  <2> QED BY <1>9, <2>3, <2>4
<1>18. Names(t, d, <<>>)
  BY <1>14, <1>15, <1>16, <1>17 DEF Names
<1>19. Moves(t, d, <<>>)
  BY <1>9, <1>10, <1>13, <1>18 DEF Moves
<1>20. FramesOk(t)
  <2>1. ASSUME NEW e \in 1 .. Len(fs)
        PROVE  e \in 1 .. Len(frames[t]) /\ (fs[e] = frames[t][e] \/ (e = d - 1 /\ fs[e] = g /\ frames[t][e] = c))
    BY <1>1, <1>8 DEF d
  <2> QED BY <1>4, <1>7, <1>9, <2>1 DEF FramesOk
<1>21. FreshAfterClear'
  BY DEF FreshInv, FreshAfterClear, cacheVars, serverVars
<1> QED BY <1>19, <1>20, <1>21, MovesKeep

\* The rows are read: the application has them, or get_type goes on.
LEMMA StepReturnRows ==
  ASSUME IInv, NEW t \in Tasks, frames[t] # <<>>, Top(t).pc = "types", ReturnRows(t),
         UNCHANGED <<lost, serverVars, nextId, orphans>>
  PROVE  IInv' /\ (ChanInv => ChanInv')
<1> DEFINE d == Depth(t)
           c == frames[t][d - 1]
           g == [c EXCEPT !.pc = "types"]
           fs == IF d = 1 THEN <<>> ELSE [Popped(t) EXCEPT ![d - 1] = g]
<1> USE DEF IInv
<1>1. /\ frames[t] \in Seq(FrameSet) /\ d \in Nat /\ d >= 1 /\ d = Len(frames[t])
      /\ d \in 1 .. Len(frames[t]) /\ Top(t) = frames[t][d] /\ Top(t) \in FrameSet
      /\ FrameOk(Top(t)) /\ StackOk(frames[t])
  BY TopIs
<1>2. Top(t).fn \in {"enum", "fields", "execute", "typed"}
  BY DEF ReturnRows
<1>3. ASSUME d # 1
      PROVE  /\ d - 1 \in 1 .. Len(frames[t]) /\ d - 1 < d /\ d - 1 \in 1 .. d - 1
             /\ c \in FrameSet /\ FrameOk(c) /\ c.pc = "called" /\ c.stmt # 0 /\ c.fn = "type"
             /\ g \in FrameSet /\ g.fn = c.fn /\ g.pc = "types" /\ g.stmt = c.stmt /\ g.arg = c.arg
             /\ g.chan = c.chan /\ g.ver = c.ver /\ g.stale = c.stale
             /\ FrameOk(g) /\ Kept(c, g) /\ ~Unsent(g)
  <2>1. d - 1 \in 1 .. d /\ d - 1 \in 1 .. d - 1 /\ d - 1 + 1 = d /\ d - 1 < d
    BY <1>1, <1>3, BelowTop
  <2>2. c \in FrameSet
    BY <1>1, <2>1
  <2>3. Calls(c, Top(t)) /\ FrameOk(c)
    <3> HIDE DEF d
    <3>1. d - 1 < Len(frames[t]) /\ d - 1 \in 1 .. Len(frames[t])
      BY <1>1, <2>1
    <3>2. Calls(frames[t][d - 1], frames[t][d - 1 + 1])
      BY <1>1, <3>1 DEF StackOk
    <3> QED BY <1>1, <2>1, <3>1, <3>2 DEF StackOk
  <2>4. c.pc = "called" /\ c.stmt # 0 /\ c.fn = "type"
    BY <1>2, <2>3 DEF Calls
  <2>5. /\ g \in FrameSet /\ g.fn = c.fn /\ g.pc = "types" /\ g.stmt = c.stmt /\ g.arg = c.arg
        /\ g.chan = c.chan /\ g.ver = c.ver /\ g.stale = c.stale
    BY <2>2 DEF FrameSet, Pcs
  <2>6. c.chan \in Nat
    BY <2>2 DEF FrameSet
  <2> HIDE DEF c, g
  <2>7. FrameOk(g) /\ Kept(c, g) /\ ~Unsent(g)
    BY <2>3, <2>4, <2>5, <2>6 DEF FrameOk, Lookups, Kept, Expects, Unsent
  <2> QED BY <1>1, <2>1, <2>2, <2>3, <2>4, <2>5, <2>7
<1>4. /\ fs \in Seq(FrameSet) /\ Len(fs) = d - 1 /\ StackOk(fs)
      /\ \A e \in 1 .. d - 1 : fs[e] = IF e = d - 1 THEN g ELSE frames[t][e]
  <2>1. CASE d = 1
    <3>1. fs = <<>> /\ d - 1 = 0
      BY <2>1
    <3>2. \A e : e \notin 1 .. 0
      OBVIOUS
    <3>3. fs \in Seq(FrameSet) /\ Len(fs) = d - 1
      BY <3>1
    <3> QED BY <3>1, <3>2, <3>3 DEF StackOk
  <2>2. CASE d # 1
    <3>1. fs = [Popped(t) EXCEPT ![Depth(t) - 1] = g] /\ g \in FrameSet /\ FrameOk(g)
          /\ g.fn = frames[t][Depth(t) - 1].fn /\ Depth(t) # 1
      BY <1>3, <2>2
    <3> HIDE DEF g
    <3> QED BY <3>1, PopSetIs
  <2> QED BY <2>1, <2>2
<1>5. Go(t, fs, d, slot, handle, <<>>)
  <2>1. fs = IF d = 1 THEN <<>> ELSE [Popped(t) EXCEPT ![d - 1].pc = "types"]
    <3>1. CASE d = 1
      BY <3>1
    <3>2. CASE d # 1
      <4>1. Popped(t)[d - 1] = c
        BY <1>3, <3>2, PoppedIs
      <4> QED BY <3>2, <4>1
    <3> QED BY <3>1, <3>2
  <2>2. Stay(t, fs)
    BY <2>1 DEF ReturnRows
  <2>3. Len(fs) + 1 = d
    BY <1>1, <1>4
  <2> QED BY <2>2, <2>3 DEF Stay
<1> HIDE DEF fs, g, c, d
<1>6. /\ \A x \in Slots : slot[x] \in HeldNow \cup {0}
      /\ \A u \in Tasks : handle[u] \in HeldNow \cup {0}
      /\ \A e \in 1 .. Len(frames[t]) : frames[t][e].fn # "prepare" => frames[t][e].stmt \in HeldNow \cup {0}
  BY NamedIsHeld
<1>7. /\ UNCHANGED <<lost, serverVars>> /\ UNCHANGED cacheVars /\ d \in Nat \ {0}
      /\ types' \in [Types -> Nat] /\ slot \in [Slots -> Nat] /\ handle \in [Tasks -> Nat]
  BY <1>1 DEF TypeOK, ReturnRows, cacheVars
<1>8. frames'[t] = fs
  BY <1>4, <1>5, <1>7, GoIs
<1>9. \A e \in 1 .. Len(fs) : e \in 1 .. Len(frames[t]) /\ e < d /\ e \in 1 .. d - 1
  BY <1>1, <1>4
<1>10. ASSUME NEW e \in 1 .. Len(fs)
       PROVE  \/ fs[e] = frames[t][e]
              \/ /\ d # 1 /\ e = d - 1 /\ fs[e] = g /\ frames[t][e] = c
  BY <1>1, <1>4, <1>9 DEF c
<1>11. \A e \in 1 .. Len(frames[t]) : e \in 1 .. Len(fs) \/ e = d
  BY <1>1, <1>4
<1>12. frames[t][d].fn # "prepare" /\ ~(d < d)
  BY <1>1, <1>2
<1>13. \A e \in 1 .. Len(fs) : Kept(frames[t][e], fs[e])
  BY <1>3, <1>10 DEF Kept
<1>14. \A e \in 1 .. Len(fs) : frames[t][e].fn = "prepare" \/ fs[e].fn = "prepare" => SameName(frames[t][e], fs[e])
  BY <1>3, <1>10 DEF SameName
<1>15. \A e \in 1 .. Len(fs) : fs[e].fn # "prepare" => fs[e].stmt \in HeldNow \cup {0}
  BY <1>3, <1>6, <1>9, <1>10
<1>16. Moves(t, d, <<>>)
  <2>1. \A e \in 1 .. Len(frames[t]) : e < d => e \in 1 .. Len(fs) /\ Kept(frames[t][e], fs[e])
    BY <1>11, <1>12, <1>13
  <2>2. \A e \in 1 .. Len(frames[t]) : frames[t][e].fn = "prepare" =>
          e < d /\ e \in 1 .. Len(fs) /\ SameName(frames[t][e], fs[e])
    BY <1>9, <1>11, <1>12, <1>14
  <2>3. \A e \in 1 .. Len(fs) :
          /\ fs[e].fn = "prepare" => fs[e].stmt = 0 \/ (e < d /\ e \in 1 .. Len(frames[t]) /\ SameName(frames[t][e], fs[e]))
          /\ fs[e].fn # "prepare" => fs[e].stmt \in HeldNow \cup {0}
    BY <1>9, <1>14, <1>15
  <2> QED BY <1>4, <1>5, <1>6, <1>7, <2>1, <2>2, <2>3, QuietMoves
<1>17. FramesOk(t)
  <2>1. ASSUME NEW e \in 1 .. Len(fs)
        PROVE  \/ fs[e] = frames[t][e]
               \/ fs[e].ver = frames[t][e].ver /\ fs[e].stale = frames[t][e].stale /\ fs[e].pc # "wait" /\ ~Unsent(fs[e])
    BY <1>3, <1>10
  <2> QED BY <1>8, <1>9, <2>1 DEF FramesOk
<1>18. FreshAfterClear'
  BY <1>7 DEF FreshInv, FreshAfterClear, cacheVars, serverVars
<1> QED BY <1>16, <1>17, <1>18, MovesKeep

\* A call returns.
LEMMA StepReturn ==
  ASSUME IInv, NEW t \in Tasks, Return(t)
  PROVE  IInv' /\ (ChanInv => ChanInv')
<1>1. frames[t] # <<>> /\ Top(t).pc = "types" /\ UNCHANGED <<lost, serverVars, nextId, orphans>>
  BY DEF Return
<1>2. CASE ReturnType(t)
  BY <1>1, <1>2, StepReturnType
<1>3. CASE ReturnRows(t)
  BY <1>1, <1>3, StepReturnRows
<1>4. CASE ReturnPrepare(t)
  <2>1. Top(t).fn = "prepare" /\ UNCHANGED <<lost, serverVars, nextId, orphans, cacheVars>>
    BY <1>1, <1>4 DEF ReturnPrepare
  <2>2. CASE Depth(t) = 1
    <3>1. Go(t, <<>>, 1, slot, [handle EXCEPT ![t] = Top(t).stmt], <<>>)
      BY <1>4, <2>2 DEF ReturnPrepare
    <3> QED BY <1>1, <2>1, <2>2, <3>1, ReturnPrepareOut
  <2>3. CASE Depth(t) # 1
    <3> DEFINE c == frames[t][Depth(t) - 1]
    <3>1. Go(t, [Popped(t) EXCEPT ![Depth(t) - 1] = [c EXCEPT !.stmt = Top(t).stmt, !.pc = "send"]],
             Depth(t) - 1 + 1, [slot EXCEPT ![SlotOf(c)] = Top(t).stmt], handle, <<>>)
      BY <1>4, <2>3 DEF ReturnPrepare
    <3>2. Depth(t) - 1 + 1 = Depth(t)
      BY <1>1, TopIs DEF IInv
    <3>3. Go(t, [Popped(t) EXCEPT ![Depth(t) - 1] = [c EXCEPT !.stmt = Top(t).stmt, !.pc = "send"]],
             Depth(t), [slot EXCEPT ![SlotOf(c)] = Top(t).stmt], handle, <<>>)
      BY <3>1, <3>2
    <3> HIDE DEF c
    <3>4. c = frames[t][Depth(t) - 1]
      BY DEF c
    <3> QED BY <1>1, <2>1, <2>3, <3>3, <3>4, ReturnPrepareIn
  <2> QED BY <2>2, <2>3
<1> QED BY <1>2, <1>3, <1>4 DEF Return

\* Every step of a task keeps the invariant.
LEMMA StepTask ==
  ASSUME IInv, NEW t \in Tasks,
         Prepare(t) \/ Execute(t) \/ QueryTyped(t) \/ DropStatement(t) \/ Cancel(t) \/ Poll(t)
  PROVE  IInv' /\ (ChanInv => ChanInv')
BY StepBegin, StepDrop, StepFail, StepGetType, StepGetStatement, StepSend, StepFallback, StepReadRows,
   StepReturn DEF Poll

-----------------------------------------------------------------------------
(***************************************************************************)
(* The steps of the Connection, the server and clear_type_cache.           *)
(***************************************************************************)

\* Every call has the function and the Statement it had; a new one has none.
SamePlaces ==
  /\ \A t \in Tasks : \A e \in 1 .. Len(frames[t]) :
       /\ e \in 1 .. Len(frames'[t])
       /\ frames'[t][e].fn = frames[t][e].fn /\ frames'[t][e].stmt = frames[t][e].stmt
  /\ \A t \in Tasks : \A e \in 1 .. Len(frames'[t]) :
       e \in 1 .. Len(frames[t]) \/ frames'[t][e].stmt = 0

\* Then the same statements are held and in the making.
LEMMA NamesStay ==
  ASSUME TypeOK, frames' \in [Tasks -> Seq(FrameSet)], UNCHANGED <<slot, handle>>, SamePlaces
  PROVE  /\ HeldNow' = HeldNow
         /\ \A s : s # 0 => (Made(s)' <=> Made(s))
         /\ MadeInv => MadeInv'
<1>1. frames \in [Tasks -> Seq(FrameSet)]
  BY DEF TypeOK
<1>2. ASSUME NEW s PROVE s \in HeldNow' <=> s \in HeldNow
  <2>1. s \in Held(frames, slot, handle) <=> IsNamed(frames, slot, handle, s)
    BY <1>1, HeldIs
  <2>2. s \in Held(frames', slot', handle') <=> IsNamed(frames', slot', handle', s)
    BY HeldIs
  <2>3. IsNamed(frames', slot', handle', s) <=> IsNamed(frames, slot, handle, s)
    BY DEF IsNamed, SamePlaces
  <2> QED BY <2>1, <2>2, <2>3 DEF HeldNow
<1>3. ASSUME NEW s, s # 0 PROVE Made(s)' <=> Made(s)
  <2>1. ASSUME Made(s) PROVE Made(s)'
    <3>1. PICK t \in Tasks : \E d \in 1 .. Len(frames[t]) : frames[t][d].fn = "prepare" /\ frames[t][d].stmt = s
      BY <2>1 DEF Made
    <3>2. PICK d \in 1 .. Len(frames[t]) : frames[t][d].fn = "prepare" /\ frames[t][d].stmt = s
      BY <3>1
    <3>3. d \in 1 .. Len(frames'[t]) /\ frames'[t][d].fn = "prepare" /\ frames'[t][d].stmt = s
      BY <3>2 DEF SamePlaces
    <3> QED BY <3>3 DEF Made
  <2>2. ASSUME Made(s)' PROVE Made(s)
    <3>1. PICK t \in Tasks : \E d \in 1 .. Len(frames'[t]) : frames'[t][d].fn = "prepare" /\ frames'[t][d].stmt = s
      BY <2>2 DEF Made
    <3>2. PICK d \in 1 .. Len(frames'[t]) : frames'[t][d].fn = "prepare" /\ frames'[t][d].stmt = s
      BY <3>1
    <3>3. d \in 1 .. Len(frames[t])
      BY <1>3, <3>2 DEF SamePlaces
    <3>4. frames[t][d].fn = "prepare" /\ frames[t][d].stmt = s
      BY <3>2, <3>3 DEF SamePlaces
    <3> QED BY <3>3, <3>4 DEF Made
  <2> QED BY <2>1, <2>2
<1>4. ASSUME MadeInv PROVE MadeInv'
  <2> SUFFICES ASSUME NEW t \in Tasks, NEW u \in Tasks, NEW d \in 1 .. Len(frames'[t]), NEW e \in 1 .. Len(frames'[u]),
                      frames'[t][d].fn = "prepare", frames'[u][e].fn = "prepare", frames'[t][d].stmt # 0,
                      frames'[t][d].stmt = frames'[u][e].stmt
               PROVE  t = u /\ d = e
    BY DEF MadeInv
  <2>1. d \in 1 .. Len(frames[t]) /\ e \in 1 .. Len(frames[u])
    BY DEF SamePlaces
  <2>2. /\ frames[t][d].fn = "prepare" /\ frames[u][e].fn = "prepare"
        /\ frames[t][d].stmt # 0 /\ frames[t][d].stmt = frames[u][e].stmt
    BY <2>1 DEF SamePlaces
  <2> QED BY <1>4, <2>1, <2>2 DEF MadeInv
<1> QED BY <1>2, <1>3, <1>4

\* Where a Responses is after the step, and whose it is.
IsAtNext(to) == to # Nobody => to[2] \in 1 .. Len(frames'[to[1]])
AtNext(to)   == frames'[to[1]][to[2]]

\* The conversations after the step, in these terms.
LEMMA TalkNext ==
  ASSUME \A i \in 1 .. Len(wire') : wire'[i].to # Nobody =>
           IsAtNext(wire'[i].to) /\ Expects(AtNext(wire'[i].to), wire'[i].m),
         \A i, j \in 1 .. Len(wire') : i < j /\ wire'[i].to = wire'[j].to /\ wire'[i].to # Nobody =>
           \/ Stage(wire'[i].m) < Stage(wire'[j].m)
           \/ wire'[i].m = "row" /\ wire'[j].m = "row" /\ AtNext(wire'[i].to).fn # "type",
         \A j \in 1 .. Len(wire') :
           wire'[j].to # Nobody /\ wire'[j].m = "ready" /\ AtNext(wire'[j].to).pc = "wait"
             /\ AtNext(wire'[j].to).fn = "prepare" =>
               \E i \in 1 .. j - 1 : wire'[i].to = wire'[j].to,
         \A i \in 1 .. Len(queue') : queue'[i].to # Nobody =>
           /\ IsAtNext(queue'[i].to) /\ Asked(queue'[i], AtNext(queue'[i].to))
           /\ \A j \in 1 .. Len(wire') : wire'[j].to # queue'[i].to
           /\ \A j \in 1 .. Len(queue') : queue'[j].to = queue'[i].to => j = i
  PROVE  TalkInv'
<1>1. (\A i \in 1 .. Len(wire) : wire[i].to # Nobody =>
         IsAt(wire[i].to) /\ Expects(At(wire[i].to), wire[i].m))'
  BY DEF IsAt, At, IsAtNext, AtNext
<1>2. (\A i, j \in 1 .. Len(wire) : i < j /\ wire[i].to = wire[j].to /\ wire[i].to # Nobody =>
         \/ Stage(wire[i].m) < Stage(wire[j].m)
         \/ wire[i].m = "row" /\ wire[j].m = "row" /\ At(wire[i].to).fn # "type")'
  BY DEF At, AtNext
<1>3. (\A j \in 1 .. Len(wire) :
         wire[j].to # Nobody /\ wire[j].m = "ready" /\ At(wire[j].to).pc = "wait"
           /\ At(wire[j].to).fn = "prepare" =>
             \E i \in 1 .. j - 1 : wire[i].to = wire[j].to)'
  BY DEF At, AtNext
<1>4. (\A i \in 1 .. Len(queue) : queue[i].to # Nobody =>
         /\ IsAt(queue[i].to) /\ Asked(queue[i], At(queue[i].to))
         /\ \A j \in 1 .. Len(wire) : wire[j].to # queue[i].to
         /\ \A j \in 1 .. Len(queue) : queue[j].to = queue[i].to => j = i)'
  BY DEF IsAt, At, IsAtNext, AtNext
<1> QED BY <1>1, <1>2, <1>3, <1>4 DEF TalkInv

\* Everything in the queue and on the wire is addressed.
LEMMA Addressed ==
  ASSUME TypeOK
  PROVE  /\ \A i \in 1 .. Len(wire) : wire[i] \in Telling /\ wire[i].to \in Tos /\ wire[i].m \in Kinds /\ wire[i].ver \in Nat
         /\ \A i \in 1 .. Len(queue) : queue[i] \in Asking /\ queue[i].to \in Tos
         /\ Len(wire) \in Nat /\ Len(queue) \in Nat
<1>1. wire \in Seq(Telling) /\ queue \in Seq(Asking)
  BY DEF TypeOK
<1>2. /\ \A i \in 1 .. Len(wire) : wire[i] \in Telling
      /\ \A i \in 1 .. Len(queue) : queue[i] \in Asking
      /\ Len(wire) \in Nat /\ Len(queue) \in Nat
  BY <1>1
<1> QED BY <1>2 DEF Telling, Asking

\* Every call is where it was, but that its lookup is overtaken.
LEMMA ClearFrames ==
  ASSUME TypeOK, ClearTypeCache
  PROVE  /\ frames' \in [Tasks -> Seq(FrameSet)]
         /\ \A t \in Tasks : Len(frames'[t]) = Len(frames[t])
         /\ \A t \in Tasks : \A e \in 1 .. Len(frames[t]) : LET f == frames[t][e]  g == frames'[t][e] IN
              /\ g.fn = f.fn /\ g.arg = f.arg /\ g.pc = f.pc /\ g.stmt = f.stmt /\ g.chan = f.chan
              /\ g.stale = TRUE
<1> SUFFICES ASSUME NEW t \in Tasks
             PROVE  /\ frames'[t] \in Seq(FrameSet) /\ Len(frames'[t]) = Len(frames[t])
                    /\ \A e \in 1 .. Len(frames[t]) : LET f == frames[t][e]  g == frames'[t][e] IN
                         /\ g.fn = f.fn /\ g.arg = f.arg /\ g.pc = f.pc /\ g.stmt = f.stmt /\ g.chan = f.chan
                         /\ g.stale = TRUE
  BY DEF ClearTypeCache
<1>1. frames[t] \in Seq(FrameSet) /\ DOMAIN frames[t] = 1 .. Len(frames[t]) /\ Len(frames[t]) \in Nat
  BY DEF TypeOK
<1>2. frames'[t] = [i \in 1 .. Len(frames[t]) |-> [frames[t][i] EXCEPT !.stale = TRUE]]
  BY <1>1 DEF ClearTypeCache
<1>3. \A i \in 1 .. Len(frames[t]) : [frames[t][i] EXCEPT !.stale = TRUE] \in FrameSet
  <2>1. \A f \in FrameSet : [f EXCEPT !.stale = TRUE] \in FrameSet
    <3> SUFFICES ASSUME NEW f \in FrameSet PROVE [f EXCEPT !.stale = TRUE] \in FrameSet
      OBVIOUS
    <3>1. TRUE \in BOOLEAN
      OBVIOUS
    <3> QED BY <3>1, Zenon DEF FrameSet
  <2> QED BY <1>1, <2>1
<1>4. frames'[t] \in Seq(FrameSet) /\ Len(frames'[t]) = Len(frames[t])
  BY <1>1, <1>2, <1>3
<1>5. \A i \in 1 .. Len(frames[t]) : frames[t][i] \in FrameSet /\ frames'[t][i] = [frames[t][i] EXCEPT !.stale = TRUE]
  BY <1>1, <1>2
<1> QED BY <1>4, <1>5 DEF FrameSet

\* clear_type_cache keeps the invariant.
LEMMA StepClear ==
  ASSUME IInv, ClearTypeCache
  PROVE  IInv' /\ (ChanInv => ChanInv')
<1> USE DEF IInv
<1>1. /\ frames' \in [Tasks -> Seq(FrameSet)]
      /\ \A t \in Tasks : Len(frames'[t]) = Len(frames[t])
      /\ \A t \in Tasks : \A e \in 1 .. Len(frames[t]) : LET f == frames[t][e]  g == frames'[t][e] IN
           /\ g.fn = f.fn /\ g.arg = f.arg /\ g.pc = f.pc /\ g.stmt = f.stmt /\ g.chan = f.chan
           /\ g.stale = TRUE
  BY ClearFrames
<1>2. /\ types' = [o \in Types |-> 0] /\ version' = version + 1 /\ late' = {}
      /\ UNCHANGED <<handle, slot, nextId, queue, wire, lost, prepared, orphans>>
  BY DEF ClearTypeCache, Cleared
<1>3. TypeOK'
  BY <1>1, <1>2 DEF TypeOK
<1>4. StackInv'
  <2> SUFFICES ASSUME NEW t \in Tasks PROVE StackOk(frames'[t])
    BY DEF StackInv
  <2>1. StackOk(frames[t]) /\ Len(frames[t]) \in Nat /\ Len(frames'[t]) = Len(frames[t])
        /\ (frames'[t] # <<>> => Len(frames[t]) # 0) /\ (Len(frames[t]) # 0 => frames[t] # <<>> /\ 1 \in 1 .. Len(frames[t]))
    BY <1>1 DEF StackInv, TypeOK
  <2>2. \A e \in 1 .. Len(frames[t]) : FrameOk(frames'[t][e])
    BY <1>1, <2>1 DEF StackOk, FrameOk
  <2>3. \A e \in 1 .. Len(frames[t]) : e < Len(frames[t]) => Calls(frames'[t][e], frames'[t][e + 1])
    <3> SUFFICES ASSUME NEW e \in 1 .. Len(frames[t]), e < Len(frames[t]) PROVE Calls(frames'[t][e], frames'[t][e + 1])
      OBVIOUS
    <3>1. Calls(frames[t][e], frames[t][e + 1]) /\ e + 1 \in 1 .. Len(frames[t])
      BY <2>1 DEF StackOk
    <3> QED BY <1>1, <3>1 DEF Calls
  <2> QED BY <1>1, <2>1, <2>2, <2>3 DEF StackOk
<1>5. ASSUME NEW to \in Tos, to # Nobody, IsAt(to)
      PROVE  /\ IsAtNext(to) /\ AtNext(to).fn = At(to).fn /\ AtNext(to).pc = At(to).pc /\ AtNext(to).stmt = At(to).stmt
             /\ AtNext(to).chan = At(to).chan /\ AtNext(to).stale = TRUE
  BY <1>1, <1>5 DEF IsAt, At, Tos, IsAtNext, AtNext
<1>6. /\ \A i \in 1 .. Len(wire) : wire[i].to \in Tos
      /\ \A i \in 1 .. Len(queue) : queue[i].to \in Tos
  BY Addressed
<1>7. TalkInv'
  <2>1. ASSUME NEW i \in 1 .. Len(wire), wire[i].to # Nobody
        PROVE  IsAtNext(wire[i].to) /\ Expects(AtNext(wire[i].to), wire[i].m)
    <3>1. IsAt(wire[i].to) /\ Expects(At(wire[i].to), wire[i].m) /\ wire[i].to \in Tos
      BY <1>6, <2>1 DEF TalkInv
    <3> QED BY <1>5, <2>1, <3>1 DEF Expects
  <2>2. \A i, j \in 1 .. Len(wire) : i < j /\ wire[i].to = wire[j].to /\ wire[i].to # Nobody =>
          \/ Stage(wire[i].m) < Stage(wire[j].m)
          \/ wire[i].m = "row" /\ wire[j].m = "row" /\ AtNext(wire[i].to).fn # "type"
    BY <1>5, <1>6 DEF TalkInv
  <2>3. \A j \in 1 .. Len(wire) :
         wire[j].to # Nobody /\ wire[j].m = "ready" /\ AtNext(wire[j].to).pc = "wait"
           /\ AtNext(wire[j].to).fn = "prepare" =>
             \E i \in 1 .. j - 1 : wire[i].to = wire[j].to
    <3> SUFFICES ASSUME NEW j \in 1 .. Len(wire), wire[j].to # Nobody, wire[j].m = "ready",
                        AtNext(wire[j].to).pc = "wait", AtNext(wire[j].to).fn = "prepare"
                 PROVE  \E i \in 1 .. j - 1 : wire[i].to = wire[j].to
      OBVIOUS
    <3>1. IsAt(wire[j].to) /\ wire[j].to \in Tos
      BY <1>6 DEF TalkInv
    <3>2. At(wire[j].to).pc = "wait" /\ At(wire[j].to).fn = "prepare"
      BY <1>5, <3>1
    <3> QED BY <3>2 DEF TalkInv
  <2>4. ASSUME NEW i \in 1 .. Len(queue), queue[i].to # Nobody
        PROVE  /\ IsAtNext(queue[i].to) /\ Asked(queue[i], AtNext(queue[i].to))
               /\ \A j \in 1 .. Len(wire) : wire[j].to # queue[i].to
               /\ \A j \in 1 .. Len(queue) : queue[j].to = queue[i].to => j = i
    <3>1. /\ IsAt(queue[i].to) /\ Asked(queue[i], At(queue[i].to)) /\ queue[i].to \in Tos
          /\ \A j \in 1 .. Len(wire) : wire[j].to # queue[i].to
          /\ \A j \in 1 .. Len(queue) : queue[j].to = queue[i].to => j = i
      BY <1>6, <2>4 DEF TalkInv
    <3> QED BY <1>5, <2>4, <3>1 DEF Asked
  <2> QED BY <1>2, <2>1, <2>2, <2>3, <2>4, TalkNext
<1>8. SamePlaces
  BY <1>1 DEF SamePlaces
<1>9. HeldNow' = HeldNow /\ (\A s : s # 0 => (Made(s)' <=> Made(s))) /\ MadeInv'
  BY <1>1, <1>2, <1>8, NamesStay DEF StmtInv
<1>10. StmtInv'
  <2>1. \A s : Closing(s)' <=> Closing(s)
    BY <1>2 DEF Closing
  <2>2. MakingInv'
    <3> SUFFICES ASSUME NEW t \in Tasks, NEW d \in 1 .. Len(frames'[t]), frames'[t][d].fn = "prepare", frames'[t][d].stmt # 0
                 PROVE  LET f == frames'[t][d] IN
                          /\ f.stmt < nextId /\ f.stmt \notin HeldNow \cup orphans
                          /\ f.pc = "types" /\ ~lost => f.stmt \in prepared
                          /\ f.pc = "again" => f.stmt \notin prepared
                          /\ \A i \in 1 .. Len(wire) : wire[i].to = <<t, d>> =>
                               /\ wire[i].m = "described" => f.stmt \in prepared
                               /\ wire[i].m \in {"undefined", "error"} => f.stmt \notin prepared
      BY <1>2, <1>9 DEF MakingInv
    <3>1. d \in 1 .. Len(frames[t]) /\ frames[t][d].fn = "prepare" /\ frames[t][d].stmt = frames'[t][d].stmt
          /\ frames[t][d].pc = frames'[t][d].pc
      BY <1>1
    <3> QED BY <3>1 DEF StmtInv, MakingInv
  <2>3. HeldInv'
    BY <1>2, <1>9, <2>1 DEF StmtInv, HeldInv
  <2>4. QueueInv'
    BY <1>2, <1>9 DEF StmtInv, QueueInv
  <2>5. ServerInv'
    BY <1>2, <1>9, <2>1 DEF StmtInv, ServerInv
  <2> QED BY <1>9, <2>2, <2>3, <2>4, <2>5 DEF StmtInv
<1>11. FreshInv'
  <2>1. FreshAfterClear'
    BY <1>2 DEF FreshAfterClear
  <2>2. \A t \in Tasks : \A d \in 1 .. Len(frames'[t]) : frames'[t][d].stale
    BY <1>1
  <2>3. \A i \in 1 .. Len(wire) : wire[i].to # Nobody => AtNext(wire[i].to).stale
    BY <1>5, <1>6 DEF TalkInv
  <2> QED BY <1>2, <2>1, <2>2, <2>3 DEF FreshInv, At, AtNext
<1>12. ASSUME ChanInv PROVE ChanInv'
  <2>1. \A t \in Tasks : \A d \in 1 .. Len(frames'[t]) :
          frames'[t][d].pc = "wait" \/ Unsent(frames'[t][d]) => frames'[t][d].chan = 0
    BY <1>1, <1>12 DEF ChanInv, Unsent
  <2>2. \A i \in 1 .. Len(wire) : wire[i].to # Nobody /\ AtNext(wire[i].to).pc \notin {"again", "failed"} =>
          /\ wire[i].m = "complete" => AtNext(wire[i].to).chan = 0
          /\ wire[i].m = "ready" => AtNext(wire[i].to).chan <= 1
          /\ wire[i].m = "row" => AtNext(wire[i].to).fn # "typed"
    <3> SUFFICES ASSUME NEW i \in 1 .. Len(wire), wire[i].to # Nobody,
                        AtNext(wire[i].to).pc \notin {"again", "failed"}
                 PROVE  /\ wire[i].m = "complete" => AtNext(wire[i].to).chan = 0
                        /\ wire[i].m = "ready" => AtNext(wire[i].to).chan <= 1
                        /\ wire[i].m = "row" => AtNext(wire[i].to).fn # "typed"
      OBVIOUS
    <3>1. wire[i].to \in Tos /\ IsAt(wire[i].to)
      BY <1>6 DEF TalkInv
    <3>2. /\ AtNext(wire[i].to).fn = At(wire[i].to).fn /\ AtNext(wire[i].to).pc = At(wire[i].to).pc
          /\ AtNext(wire[i].to).chan = At(wire[i].to).chan
      BY <1>5, <3>1
    <3> QED BY <1>12, <3>2 DEF ChanInv
  <2> QED BY <1>2, <2>1, <2>2 DEF ChanInv, At, AtNext
<1> QED BY <1>3, <1>4, <1>7, <1>10, <1>11, <1>12

\* The connection ends.
LEMMA StepLose ==
  ASSUME IInv, Lose
  PROVE  IInv' /\ (ChanInv => ChanInv')
<1> USE DEF IInv
<1>1. /\ lost' = TRUE /\ queue' = <<>> /\ wire' = <<>> /\ prepared' = {}
      /\ UNCHANGED <<frames, handle, slot, types, nextId, version, orphans, late>>
  BY DEF Lose, cacheVars
<1>2. Len(queue') = 0 /\ Len(wire') = 0 /\ \A i : i \notin 1 .. 0
  BY <1>1
<1>3. TypeOK' /\ StackInv'
  <2>1. queue' \in Seq(Asking) /\ wire' \in Seq(Telling)
    BY <1>1
  <2>2. lost' \in BOOLEAN /\ (lost' => queue' = <<>> /\ wire' = <<>>)
    BY <1>1
  <2> QED BY <1>1, <2>1, <2>2 DEF TypeOK, StackInv
<1>4. TalkInv'
  BY <1>2, TalkNext
<1>5. HeldNow' = HeldNow /\ MadeInv' /\ \A s : ~Closing(s)'
  BY <1>1, <1>2 DEF HeldNow, StmtInv, MadeInv, Closing
<1>6. StmtInv'
  <2>1. MakingInv'
    BY <1>1, <1>2, <1>5 DEF StmtInv, MakingInv
  <2>2. HeldInv'
    BY <1>1, <1>5 DEF StmtInv, HeldInv
  <2>3. QueueInv'
    BY <1>2 DEF QueueInv
  <2>4. ServerInv'
    BY <1>1 DEF StmtInv, ServerInv
  <2> QED BY <1>5, <2>1, <2>2, <2>3, <2>4 DEF StmtInv
<1>7. FreshInv' /\ (ChanInv => ChanInv')
  BY <1>1, <1>2 DEF FreshInv, FreshAfterClear, ChanInv
<1> QED BY <1>3, <1>4, <1>6, <1>7

\* The messages ms are an answer to request r, in their order.
AnswerOk(r, ms) ==
  /\ ms \in Seq(Kinds)
  /\ \A i, j \in 1 .. Len(ms) : i < j =>
       \/ Stage(ms[i]) < Stage(ms[j])
       \/ ms[i] = "row" /\ ms[j] = "row" /\ r.op # "parse" /\ (r.op = "query" => r.rows # 1)
  /\ \A i \in 1 .. Len(ms) :
       /\ ms[i] = "ready" => i # 1
       /\ r.op = "parse" => ms[i] \notin {"row", "complete"}
       /\ r.op = "query" => ms[i] # "described"
       /\ ms[i] = "row" /\ r.op = "typed" => r.rows # 0

\* What the request does to the server's statements.
Effect(r, ms) ==
  \/ /\ r.op = "parse" /\ prepared' = prepared \cup {r.stmt}
     /\ \A i \in 1 .. Len(ms) : ms[i] \notin {"undefined", "error"}
  \/ /\ r.op # "close" /\ prepared' = prepared
     /\ r.op = "parse" => \A i \in 1 .. Len(ms) : ms[i] # "described"
  \/ r.op = "close" /\ prepared' = prepared \ {r.stmt} /\ ms = <<>>

\* The request at the head of the queue is answered with ms.
Answered(r, ms) ==
  /\ queue # <<>> /\ ~lost /\ r = Head(queue) /\ queue' = Tail(queue)
  /\ AnswerOk(r, ms) /\ wire' = wire \o Answer(r, ms) /\ Effect(r, ms)
  /\ UNCHANGED <<frames, handle, slot, types, nextId, lost, version, orphans, late>>

\* The messages on their way to the one who asked.
LEMMA AnswerIs ==
  ASSUME TypeOK, NEW r \in Asking, NEW ms, AnswerOk(r, ms)
  PROVE  /\ Answer(r, ms) \in Seq(Telling)
         /\ r.to = Nobody => Answer(r, ms) = <<>> /\ Len(Answer(r, ms)) = 0
         /\ r.to # Nobody => Len(Answer(r, ms)) = Len(ms)
         /\ \A i \in 1 .. Len(Answer(r, ms)) :
              /\ r.to # Nobody /\ i \in 1 .. Len(ms) /\ Answer(r, ms)[i].to = r.to /\ Answer(r, ms)[i].m = ms[i]
              /\ Answer(r, ms)[i].ver \in {0, version}
<1>1. ms \in Seq(Kinds) /\ DOMAIN ms = 1 .. Len(ms) /\ Len(ms) \in Nat /\ \A i \in 1 .. Len(ms) : ms[i] \in Kinds
  BY DEF AnswerOk
<1>2. r.to \in Tos /\ version \in Nat
  BY DEF Asking, TypeOK
<1>3. CASE r.to = Nobody
  <2>1. Answer(r, ms) = <<>>
    BY <1>3 DEF Answer
  <2>2. <<>> \in Seq(Telling) /\ Len(<<>>) = 0 /\ \A i : i \notin 1 .. 0
    OBVIOUS
  <2> QED BY <1>3, <2>1, <2>2
<1>4. CASE r.to # Nobody
  <2> DEFINE a(i) == [to |-> r.to, m |-> ms[i], ver |-> IF ms[i] = "row" THEN version ELSE 0]
  <2>1. Answer(r, ms) = [i \in 1 .. Len(ms) |-> a(i)]
    BY <1>1, <1>4 DEF Answer
  <2>2. \A i \in 1 .. Len(ms) : a(i) \in Telling /\ a(i).to = r.to /\ a(i).m = ms[i] /\ a(i).ver \in {0, version}
    BY <1>1, <1>2 DEF Telling
  <2> HIDE DEF a
  <2>3. Answer(r, ms) \in Seq(Telling) /\ Len(Answer(r, ms)) = Len(ms)
        /\ \A i \in 1 .. Len(ms) : Answer(r, ms)[i] = a(i)
    BY <1>1, <2>1, <2>2
  <2> QED BY <1>4, <2>2, <2>3
<1> QED BY <1>3, <1>4

\* The queue and the wire after an answer.
LEMMA ServedIs ==
  ASSUME TypeOK, NEW r, NEW ms, Answered(r, ms)
  PROVE  /\ r \in Asking /\ r = queue[1] /\ 1 \in 1 .. Len(queue)
         /\ queue' \in Seq(Asking) /\ wire' \in Seq(Telling)
         /\ \A i \in 1 .. Len(queue') : i + 1 \in 1 .. Len(queue) /\ queue'[i] = queue[i + 1] /\ i + 1 # 1
         /\ \A i \in 1 .. Len(queue) : i = 1 \/ (i - 1 \in 1 .. Len(queue') /\ queue'[i - 1] = queue[i])
         /\ \A i \in 1 .. Len(wire) : i \in 1 .. Len(wire') /\ wire'[i] = wire[i]
         /\ \A i \in 1 .. Len(wire') :
              \/ i \in 1 .. Len(wire)
              \/ /\ r.to # Nobody /\ i > Len(wire) /\ i - Len(wire) \in 1 .. Len(ms)
                 /\ Len(wire') = Len(wire) + Len(ms)
                 /\ wire'[i].to = r.to /\ wire'[i].m = ms[i - Len(wire)] /\ wire'[i].ver \in {0, version}
         /\ Len(wire) \in Nat /\ Len(wire') \in Nat /\ Len(ms) \in Nat
<1>1. queue \in Seq(Asking) /\ wire \in Seq(Telling) /\ queue # <<>>
  BY DEF TypeOK, Answered
<1>2. queue' = Tail(queue) /\ r = Head(queue) /\ wire' = wire \o Answer(r, ms) /\ AnswerOk(r, ms)
  BY DEF Answered
<1>3. r \in Asking /\ r = queue[1] /\ 1 \in 1 .. Len(queue)
  BY <1>1, <1>2
<1>4. /\ queue' \in Seq(Asking) /\ Len(queue') = Len(queue) - 1
      /\ \A i \in 1 .. Len(queue') : queue'[i] = queue[i + 1]
      /\ Len(queue) \in Nat
  BY <1>1, <1>2
<1>5. /\ Answer(r, ms) \in Seq(Telling)
      /\ r.to # Nobody => Len(Answer(r, ms)) = Len(ms)
      /\ \A i \in 1 .. Len(Answer(r, ms)) :
           /\ r.to # Nobody /\ i \in 1 .. Len(ms) /\ Answer(r, ms)[i].to = r.to /\ Answer(r, ms)[i].m = ms[i]
           /\ Answer(r, ms)[i].ver \in {0, version}
  BY <1>2, <1>3, AnswerIs
<1>6. Joined(wire, Answer(r, ms), Telling, wire')
  BY <1>1, <1>2, <1>5, JoinedIs
<1>7. \A i \in 1 .. Len(wire) : i \in 1 .. Len(wire') /\ wire'[i] = wire[i]
  BY <1>6 DEF Joined
<1>8. ASSUME NEW i \in 1 .. Len(wire'), i \notin 1 .. Len(wire)
      PROVE  /\ r.to # Nobody /\ i > Len(wire) /\ i - Len(wire) \in 1 .. Len(ms)
             /\ Len(wire') = Len(wire) + Len(ms)
             /\ wire'[i].to = r.to /\ wire'[i].m = ms[i - Len(wire)] /\ wire'[i].ver \in {0, version}
  <2> DEFINE k == i - Len(wire)
  <2>1. k \in 1 .. Len(Answer(r, ms)) /\ i = Len(wire) + k /\ i > Len(wire)
    BY <1>6, <1>8 DEF Joined
  <2> HIDE DEF k
  <2>2. wire'[i] = Answer(r, ms)[k]
    BY <1>6, <2>1 DEF Joined
  <2>3. r.to # Nobody /\ k \in 1 .. Len(ms) /\ Len(Answer(r, ms)) = Len(ms)
    BY <1>5, <2>1
  <2>4. Len(wire') = Len(wire) + Len(ms)
    BY <1>6, <2>3 DEF Joined
  <2>5. wire'[i].to = r.to /\ wire'[i].m = ms[k] /\ wire'[i].ver \in {0, version}
    BY <1>5, <2>1, <2>2
  <2> QED BY <2>1, <2>3, <2>4, <2>5 DEF k
<1>9. \A i \in 1 .. Len(queue') : i + 1 \in 1 .. Len(queue) /\ i + 1 # 1
  BY <1>4
<1>10. \A i \in 1 .. Len(queue) : i = 1 \/ (i - 1 \in 1 .. Len(queue') /\ queue'[i - 1] = queue[i])
  BY <1>4
<1>11. Len(wire) \in Nat /\ Len(wire') \in Nat /\ Len(ms) \in Nat
  BY <1>1, <1>2, <1>6 DEF Joined, AnswerOk
<1> QED BY <1>3, <1>4, <1>6, <1>7, <1>8, <1>9, <1>10, <1>11 DEF Joined

\* An answer keeps the conversations apart.
LEMMA ServedTalk ==
  ASSUME IInv, NEW r, NEW ms, Answered(r, ms)
  PROVE  TalkInv'
<1> USE DEF IInv
<1>1. /\ r = queue[1] /\ 1 \in 1 .. Len(queue)
      /\ \A i \in 1 .. Len(queue') : i + 1 \in 1 .. Len(queue) /\ queue'[i] = queue[i + 1] /\ i + 1 # 1
      /\ \A i \in 1 .. Len(wire) : i \in 1 .. Len(wire') /\ wire'[i] = wire[i]
      /\ \A i \in 1 .. Len(wire') :
           \/ i \in 1 .. Len(wire)
           \/ /\ r.to # Nobody /\ i > Len(wire) /\ i - Len(wire) \in 1 .. Len(ms)
              /\ Len(wire') = Len(wire) + Len(ms)
              /\ wire'[i].to = r.to /\ wire'[i].m = ms[i - Len(wire)]
      /\ Len(wire) \in Nat /\ Len(wire') \in Nat /\ Len(ms) \in Nat
  BY ServedIs
<1>2. \A to : IsAtNext(to) = IsAt(to) /\ AtNext(to) = At(to)
  BY DEF Answered, IsAtNext, IsAt, AtNext, At
<1>3. r.to # Nobody =>
        /\ IsAt(r.to) /\ Asked(r, At(r.to))
        /\ \A j \in 1 .. Len(wire) : wire[j].to # r.to
        /\ \A j \in 1 .. Len(queue) : queue[j].to = r.to => j = 1
  BY <1>1 DEF TalkInv
<1>4. AnswerOk(r, ms)
  BY DEF Answered
<1>5. ASSUME NEW i \in 1 .. Len(wire'), wire'[i].to # Nobody
      PROVE  IsAtNext(wire'[i].to) /\ Expects(AtNext(wire'[i].to), wire'[i].m)
  <2>1. CASE i \in 1 .. Len(wire)
    BY <1>1, <1>2, <1>5, <2>1 DEF TalkInv
  <2>2. CASE i \notin 1 .. Len(wire)
    <3> DEFINE m == ms[i - Len(wire)]
    <3>1. /\ r.to # Nobody /\ i - Len(wire) \in 1 .. Len(ms) /\ wire'[i].to = r.to /\ wire'[i].m = m
      BY <1>1, <2>2
    <3>2. /\ r.op = "parse" => m \notin {"row", "complete"}
          /\ r.op = "query" => m # "described"
          /\ m \in Kinds
      BY <1>4, <3>1 DEF AnswerOk
    <3> HIDE DEF m
    <3>3. Expects(At(r.to), m)
      BY <1>3, <3>1, <3>2 DEF Asked, Expects, Answers, Kinds
    <3> QED BY <1>2, <1>3, <3>1, <3>3
  <2> QED BY <2>1, <2>2
<1>6. ASSUME NEW i \in 1 .. Len(wire'), NEW j \in 1 .. Len(wire'), i < j, wire'[i].to = wire'[j].to, wire'[i].to # Nobody
      PROVE  \/ Stage(wire'[i].m) < Stage(wire'[j].m)
             \/ wire'[i].m = "row" /\ wire'[j].m = "row" /\ AtNext(wire'[i].to).fn # "type"
  <2>1. CASE j \in 1 .. Len(wire)
    <3>1. i \in 1 .. Len(wire)
      BY <1>6, <2>1
    <3> QED BY <1>1, <1>2, <1>6, <2>1, <3>1 DEF TalkInv
  <2>2. CASE j \notin 1 .. Len(wire)
    <3>1. r.to # Nobody /\ j - Len(wire) \in 1 .. Len(ms) /\ wire'[j].to = r.to /\ wire'[j].m = ms[j - Len(wire)]
      BY <1>1, <2>2
    <3>2. i \notin 1 .. Len(wire)
      BY <1>1, <1>3, <1>6, <3>1
    <3>3. i - Len(wire) \in 1 .. Len(ms) /\ wire'[i].m = ms[i - Len(wire)] /\ i - Len(wire) < j - Len(wire)
      BY <1>1, <1>6, <3>2
    <3>4. \/ Stage(wire'[i].m) < Stage(wire'[j].m)
          \/ wire'[i].m = "row" /\ wire'[j].m = "row" /\ r.op # "parse" /\ (r.op = "query" => r.rows # 1)
      BY <1>4, <3>1, <3>3 DEF AnswerOk
    <3>5. r.op # "parse" /\ (r.op = "query" => r.rows # 1) => At(r.to).fn # "type"
      BY <1>3, <3>1 DEF Asked
    <3> QED BY <1>2, <1>6, <3>1, <3>4, <3>5
  <2> QED BY <2>1, <2>2
<1>7. ASSUME NEW j \in 1 .. Len(wire'), wire'[j].to # Nobody, wire'[j].m = "ready",
             AtNext(wire'[j].to).pc = "wait", AtNext(wire'[j].to).fn = "prepare"
      PROVE  \E i \in 1 .. j - 1 : wire'[i].to = wire'[j].to
  <2>1. CASE j \in 1 .. Len(wire)
    <3>1. PICK i \in 1 .. j - 1 : wire[i].to = wire[j].to
      BY <1>1, <1>2, <1>7, <2>1 DEF TalkInv
    <3>2. i \in 1 .. Len(wire)
      BY <1>1, <2>1, <3>1
    <3> QED BY <1>1, <2>1, <3>1, <3>2
  <2>2. CASE j \notin 1 .. Len(wire)
    <3> DEFINE k == Len(wire) + 1
    <3>1. /\ r.to # Nobody /\ j - Len(wire) \in 1 .. Len(ms) /\ wire'[j].to = r.to /\ wire'[j].m = ms[j - Len(wire)]
          /\ Len(wire') = Len(wire) + Len(ms)
      BY <1>1, <2>2
    <3>2. j - Len(wire) # 1
      BY <1>4, <1>7, <3>1 DEF AnswerOk
    <3>3. k \in 1 .. j - 1 /\ k \in 1 .. Len(wire') /\ k \notin 1 .. Len(wire)
      BY <1>1, <3>1, <3>2
    <3> HIDE DEF k
    <3>4. wire'[k].to = r.to
      BY <1>1, <3>3
    <3> QED BY <3>1, <3>3, <3>4
  <2> QED BY <2>1, <2>2
<1>8. ASSUME NEW i \in 1 .. Len(queue'), queue'[i].to # Nobody
      PROVE  /\ IsAtNext(queue'[i].to) /\ Asked(queue'[i], AtNext(queue'[i].to))
             /\ \A j \in 1 .. Len(wire') : wire'[j].to # queue'[i].to
             /\ \A j \in 1 .. Len(queue') : queue'[j].to = queue'[i].to => j = i
  <2> DEFINE k == i + 1
  <2>1. k \in 1 .. Len(queue) /\ queue'[i] = queue[k] /\ k # 1
    BY <1>1
  <2>2. /\ IsAt(queue[k].to) /\ Asked(queue[k], At(queue[k].to))
        /\ \A j \in 1 .. Len(wire) : wire[j].to # queue[k].to
        /\ \A j \in 1 .. Len(queue) : queue[j].to = queue[k].to => j = k
    <3> HIDE DEF k
    <3> QED BY <1>8, <2>1 DEF TalkInv
  <2>3. r.to # queue[k].to
    BY <1>1, <2>1, <2>2
  <2>4. \A j \in 1 .. Len(wire') : wire'[j].to # queue'[i].to
    BY <1>1, <2>1, <2>2, <2>3
  <2>5. ASSUME NEW j \in 1 .. Len(queue'), queue'[j].to = queue'[i].to PROVE j = i
    <3>1. j + 1 \in 1 .. Len(queue) /\ queue[j + 1].to = queue[k].to
      BY <1>1, <2>1, <2>5
    <3>2. j + 1 = i + 1
      BY <2>2, <3>1
    <3> QED BY <3>2
  <2> QED BY <1>2, <2>1, <2>2, <2>4, <2>5
<1> QED BY <1>5, <1>6, <1>7, <1>8, TalkNext

\* Whose name the statement of a Parse is.
LEMMA ParseOf ==
  ASSUME IInv, NEW r, r = queue[1], 1 \in 1 .. Len(queue), r.op = "parse"
  PROVE  /\ r.stmt \notin prepared /\ r.stmt # 0
         /\ r.to = Nobody => r.stmt \in orphans
         /\ r.to # Nobody => /\ r.to \in Tasks \X Nat /\ r.to[2] \in 1 .. Len(frames[r.to[1]])
                             /\ At(r.to).fn = "prepare" /\ At(r.to).stmt = r.stmt /\ At(r.to).pc = "wait"
<1>1. r.to \in Tos
  BY Addressed DEF IInv
<1>2. r.to # Nobody => IsAt(r.to) /\ Asked(r, At(r.to))
  BY DEF IInv, TalkInv
<1> QED BY <1>1, <1>2 DEF IInv, StmtInv, QueueInv, IsAt, Asked, Tos

\* A prepare whose name a Parse at the head of the queue has is waiting for it.
LEMMA ParseFor ==
  ASSUME IInv, NEW r, r = queue[1], 1 \in 1 .. Len(queue), r.op = "parse",
         NEW t \in Tasks, NEW d \in 1 .. Len(frames[t]), frames[t][d].fn = "prepare", frames[t][d].stmt = r.stmt
  PROVE  r.to = <<t, d>> /\ frames[t][d].pc = "wait"
<1>1. /\ r.stmt # 0
      /\ r.to = Nobody => r.stmt \in orphans
      /\ r.to # Nobody => /\ r.to \in Tasks \X Nat /\ r.to[2] \in 1 .. Len(frames[r.to[1]])
                          /\ At(r.to).fn = "prepare" /\ At(r.to).stmt = r.stmt /\ At(r.to).pc = "wait"
  BY ParseOf
<1>2. r.to # Nobody
  BY <1>1 DEF IInv, StmtInv, MakingInv
<1>3. r.to \in Tasks \X Nat /\ r.to[1] \in Tasks /\ r.to = <<r.to[1], r.to[2]>>
  BY <1>1, <1>2
<1>4. t = r.to[1] /\ d = r.to[2]
  <2>1. /\ frames[r.to[1]][r.to[2]].fn = "prepare" /\ frames[r.to[1]][r.to[2]].stmt = r.stmt
        /\ r.to[2] \in 1 .. Len(frames[r.to[1]])
    BY <1>1, <1>2 DEF At
  <2>2. MadeInv
    BY DEF IInv, StmtInv
  <2> QED BY <1>1, <1>3, <2>1, <2>2 DEF MadeInv
<1> QED BY <1>1, <1>2, <1>3, <1>4 DEF At

\* An answer keeps what is known of the statements.
LEMMA ServedStmt ==
  ASSUME IInv, NEW r, NEW ms, Answered(r, ms)
  PROVE  StmtInv'
<1> USE DEF IInv
<1>1. /\ r = queue[1] /\ 1 \in 1 .. Len(queue) /\ r \in Asking
      /\ \A i \in 1 .. Len(queue') : i + 1 \in 1 .. Len(queue) /\ queue'[i] = queue[i + 1] /\ i + 1 # 1
      /\ \A i \in 1 .. Len(queue) : i = 1 \/ (i - 1 \in 1 .. Len(queue') /\ queue'[i - 1] = queue[i])
      /\ \A i \in 1 .. Len(wire) : i \in 1 .. Len(wire') /\ wire'[i] = wire[i]
      /\ \A i \in 1 .. Len(wire') :
           \/ i \in 1 .. Len(wire)
           \/ /\ r.to # Nobody /\ i > Len(wire) /\ i - Len(wire) \in 1 .. Len(ms)
              /\ wire'[i].to = r.to /\ wire'[i].m = ms[i - Len(wire)]
  BY ServedIs
<1>2. /\ UNCHANGED <<frames, handle, slot, nextId, lost, orphans>> /\ Effect(r, ms) /\ ~lost
      /\ HeldNow' = HeldNow /\ MadeInv' /\ \A s : Made(s)' = Made(s)
  BY DEF Answered, HeldNow, StmtInv, MadeInv, Made
<1>3. /\ \A s \in prepared' : s \in prepared \/ (s = r.stmt /\ r.op = "parse")
      /\ \A s \in prepared : s \in prepared' \/ (s = r.stmt /\ r.op = "close")
  BY <1>2 DEF Effect
<1>4. r.op = "close" => Closing(r.stmt) /\ ~Made(r.stmt) /\ r.to = Nobody
  BY <1>1 DEF Closing, StmtInv, QueueInv
<1>5. \A s : Closing(s)' => Closing(s)
  BY <1>1 DEF Closing
<1>6. MakingInv'
  <2> SUFFICES ASSUME NEW t \in Tasks, NEW d \in 1 .. Len(frames[t]), frames[t][d].fn = "prepare",
                      frames[t][d].stmt # 0
               PROVE  LET f == frames[t][d] IN
                        /\ f.stmt < nextId /\ f.stmt \notin HeldNow \cup orphans
                        /\ f.pc = "types" /\ ~lost => f.stmt \in prepared'
                        /\ f.pc = "again" => f.stmt \notin prepared'
                        /\ \A i \in 1 .. Len(wire') : wire'[i].to = <<t, d>> =>
                             /\ wire'[i].m = "described" => f.stmt \in prepared'
                             /\ wire'[i].m \in {"undefined", "error"} => f.stmt \notin prepared'
    BY <1>2 DEF MakingInv
  <2> DEFINE s == frames[t][d].stmt
  <2>1. /\ s < nextId /\ s \notin HeldNow \cup orphans
        /\ frames[t][d].pc = "types" /\ ~lost => s \in prepared
        /\ frames[t][d].pc = "again" => s \notin prepared
        /\ \A i \in 1 .. Len(wire) : wire[i].to = <<t, d>> =>
             /\ wire[i].m = "described" => s \in prepared
             /\ wire[i].m \in {"undefined", "error"} => s \notin prepared
    BY DEF StmtInv, MakingInv
  <2>2. Made(s)
    BY DEF Made
  <2>3. s \in prepared => s \in prepared'
    BY <1>3, <1>4, <2>2
  <2>4. r.op = "parse" /\ r.stmt = s => r.to = <<t, d>> /\ frames[t][d].pc = "wait"
    BY <1>1, ParseFor
  <2>5. frames[t][d].pc = "again" => s \notin prepared'
    BY <1>3, <2>1, <2>4
  <2>6. ASSUME NEW i \in 1 .. Len(wire'), wire'[i].to = <<t, d>>
        PROVE  /\ wire'[i].m = "described" => s \in prepared'
               /\ wire'[i].m \in {"undefined", "error"} => s \notin prepared'
    <3>1. CASE i \in 1 .. Len(wire)
      <4>1. wire[i].to # r.to \/ r.to = Nobody
        BY <1>1, <3>1 DEF TalkInv
      <4>2. ~(r.op = "parse" /\ r.stmt = s)
        <5>1. <<t, d>> # Nobody
          BY Somebody
        <5>2. wire[i].to = <<t, d>>
          BY <1>1, <2>6, <3>1
        <5> QED BY <2>4, <4>1, <5>1, <5>2
      <4> QED BY <1>1, <1>3, <2>1, <2>3, <2>6, <3>1, <4>2
    <3>2. CASE i \notin 1 .. Len(wire)
      <4> DEFINE k == i - Len(wire)
      <4>1. r.to = <<t, d>> /\ r.to # Nobody /\ k \in 1 .. Len(ms) /\ wire'[i].m = ms[k]
        BY <1>1, <2>6, <3>2
      <4>2. At(r.to) = frames[t][d] /\ Asked(r, At(r.to))
        <5>1. At(r.to) = frames[t][d]
          BY <4>1 DEF At
        <5>2. Asked(r, At(r.to))
          BY <1>1, <4>1 DEF TalkInv
        <5> QED BY <5>1, <5>2
      <4>3. r.op = "parse" /\ r.stmt = s
        BY <4>2 DEF Asked
      <4> HIDE DEF k, s
      <4>4. r.stmt \notin prepared
        BY <1>1, <4>3, ParseOf
      <4>5. \/ s \in prepared' /\ ms[k] \notin {"undefined", "error"}
            \/ s \notin prepared' /\ ms[k] # "described"
        BY <1>2, <4>1, <4>3, <4>4 DEF Effect
      <4> QED BY <4>1, <4>5
    <3> QED BY <3>1, <3>2
  <2> QED BY <2>1, <2>3, <2>5, <2>6
<1>7. HeldInv'
  <2> SUFFICES ASSUME NEW s \in HeldNow PROVE s < nextId /\ ~Closing(s)' /\ (~lost => s \in prepared')
    BY <1>2 DEF HeldInv
  <2>1. s < nextId /\ ~Closing(s) /\ (~lost => s \in prepared)
    BY DEF StmtInv, HeldInv
  <2> QED BY <1>3, <1>4, <1>5, <2>1
<1>8. QueueInv'
  <2> SUFFICES ASSUME NEW i \in 1 .. Len(queue')
               PROVE  LET q == queue'[i] IN
                 /\ q.op = "close" => q.to = Nobody /\ q.stmt < nextId /\ q.stmt # 0 /\ ~Made(q.stmt)
                 /\ q.op = "query" => /\ q.stmt \in prepared'
                                      /\ \A j \in 1 .. i - 1 : queue'[j].op = "close" => queue'[j].stmt # q.stmt
                 /\ q.op = "parse" =>
                      /\ q.stmt \notin prepared' /\ q.stmt < nextId /\ q.stmt # 0
                      /\ q.to = Nobody => q.stmt \in orphans
                      /\ \A j \in 1 .. Len(queue') : queue'[j].op = "parse" /\ queue'[j].stmt = q.stmt => j = i
    BY <1>2 DEF QueueInv, Made
  <2> DEFINE k == i + 1
             q == queue[k]
  <2>1. k \in 1 .. Len(queue) /\ queue'[i] = q /\ k # 1
    BY <1>1
  <2>2. /\ q.op = "close" => q.to = Nobody /\ q.stmt < nextId /\ q.stmt # 0 /\ ~Made(q.stmt)
        /\ q.op = "query" => /\ q.stmt \in prepared
                             /\ \A j \in 1 .. k - 1 : queue[j].op = "close" => queue[j].stmt # q.stmt
        /\ q.op = "parse" =>
             /\ q.stmt \notin prepared /\ q.stmt < nextId /\ q.stmt # 0
             /\ q.to = Nobody => q.stmt \in orphans
             /\ \A j \in 1 .. Len(queue) : queue[j].op = "parse" /\ queue[j].stmt = q.stmt => j = k
    <3> HIDE DEF k
    <3> QED BY <2>1 DEF StmtInv, QueueInv
  <2>3. ASSUME q.op = "query"
        PROVE  q.stmt \in prepared' /\ \A j \in 1 .. i - 1 : queue'[j].op = "close" => queue'[j].stmt # q.stmt
    <3>1. 1 \in 1 .. k - 1
      BY <2>1
    <3>2. ~(r.op = "close" /\ r.stmt = q.stmt)
      BY <1>1, <2>2, <2>3, <3>1
    <3>3. \A j \in 1 .. i - 1 : j \in 1 .. Len(queue') /\ j + 1 \in 1 .. k - 1
      OBVIOUS
    <3>4. ASSUME NEW j \in 1 .. i - 1, queue'[j].op = "close" PROVE queue'[j].stmt # q.stmt
      <4>1. queue'[j] = queue[j + 1] /\ j + 1 \in 1 .. k - 1
        BY <1>1, <3>3
      <4> QED BY <2>2, <2>3, <3>4, <4>1
    <3>5. q.stmt \in prepared'
      BY <1>3, <2>2, <2>3, <3>2
    <3> QED BY <3>4, <3>5
  <2>4. ASSUME q.op = "parse"
        PROVE  /\ q.stmt \notin prepared'
               /\ \A j \in 1 .. Len(queue') : queue'[j].op = "parse" /\ queue'[j].stmt = q.stmt => j = i
    <3>1. ~(r.op = "parse" /\ r.stmt = q.stmt)
      BY <1>1, <2>1, <2>2, <2>4
    <3>2. ASSUME NEW j \in 1 .. Len(queue'), queue'[j].op = "parse", queue'[j].stmt = q.stmt PROVE j = i
      <4>1. queue'[j] = queue[j + 1] /\ j + 1 \in 1 .. Len(queue)
        BY <1>1, <3>2
      <4>2. j + 1 = k
        <5> HIDE DEF k, q
        <5> QED BY <2>2, <2>4, <3>2, <4>1
      <4> QED BY <4>2
    <3> QED BY <1>3, <2>2, <2>4, <3>1, <3>2
  <2> HIDE DEF k, q
  <2> QED BY <2>1, <2>2, <2>3, <2>4
<1>9. ServerInv'
  <2>1. \A s \in orphans : s < nextId /\ s \in Nat
    BY DEF StmtInv, ServerInv
  <2>2. ASSUME NEW s \in prepared'
        PROVE  s # 0 /\ (s \in HeldNow \cup orphans \/ Made(s) \/ Closing(s)')
    <3>1. CASE s \in prepared
      <4>1. s # 0 /\ (s \in HeldNow \cup orphans \/ Made(s) \/ Closing(s))
        BY <1>2, <3>1 DEF StmtInv, ServerInv
      <4>2. ASSUME Closing(s) PROVE Closing(s)'
        <5>1. PICK i \in 1 .. Len(queue) : queue[i].op = "close" /\ queue[i].stmt = s
          BY <4>2 DEF Closing
        <5>2. i # 1
          <6> SUFFICES ASSUME i = 1 PROVE FALSE
            OBVIOUS
          <6>1. r.op = "close" /\ r.stmt = s
            BY <1>1, <5>1
          <6> QED BY <1>2, <2>2, <6>1 DEF Effect
        <5>3. i - 1 \in 1 .. Len(queue') /\ queue'[i - 1] = queue[i]
          BY <1>1, <5>2
        <5>4. \E j \in 1 .. Len(queue') : queue'[j].op = "close" /\ queue'[j].stmt = s
          BY <5>1, <5>3
        <5> QED BY <5>4 DEF Closing
      <4> QED BY <4>1, <4>2
    <3>2. CASE s \notin prepared
      <4>1. s = r.stmt /\ r.op = "parse"
        BY <1>3, <2>2, <3>2
      <4>2. /\ r.stmt # 0
            /\ r.to = Nobody => r.stmt \in orphans
            /\ r.to # Nobody => /\ r.to \in Tasks \X Nat /\ r.to[2] \in 1 .. Len(frames[r.to[1]])
                                /\ At(r.to).fn = "prepare" /\ At(r.to).stmt = r.stmt
        BY <1>1, <4>1, ParseOf
      <4>3. r.to # Nobody => Made(s)
        BY <4>1, <4>2 DEF Made, At
      <4> QED BY <4>1, <4>2, <4>3
    <3> QED BY <3>1, <3>2
  <2> QED BY <1>2, <2>1, <2>2 DEF ServerInv
<1> QED BY <1>2, <1>6, <1>7, <1>8, <1>9 DEF StmtInv

\* An answer keeps the invariant; its rows find room, if a query_typed has none.
LEMMA ServedKeeps ==
  ASSUME IInv, NEW r, NEW ms, Answered(r, ms)
  PROVE  IInv' /\ (TypedRows = 0 /\ ChanInv => ChanInv')
<1> USE DEF IInv
<1>1. /\ r = queue[1] /\ 1 \in 1 .. Len(queue)
      /\ queue' \in Seq(Asking) /\ wire' \in Seq(Telling)
      /\ \A i \in 1 .. Len(wire) : i \in 1 .. Len(wire') /\ wire'[i] = wire[i]
      /\ \A i \in 1 .. Len(wire') :
           \/ i \in 1 .. Len(wire)
           \/ /\ r.to # Nobody /\ i > Len(wire) /\ i - Len(wire) \in 1 .. Len(ms)
              /\ Len(wire') = Len(wire) + Len(ms)
              /\ wire'[i].to = r.to /\ wire'[i].m = ms[i - Len(wire)] /\ wire'[i].ver \in {0, version}
  BY ServedIs
<1>2. UNCHANGED <<frames, handle, slot, types, nextId, lost, version, orphans, late>> /\ ~lost
  BY DEF Answered
<1>3. TypeOK' /\ StackInv'
  BY <1>1, <1>2 DEF TypeOK, StackInv
<1>4. \A to : AtNext(to) = At(to)
  BY <1>2 DEF AtNext, At
<1>5. FreshInv'
  <2>1. ASSUME NEW i \in 1 .. Len(wire'), wire'[i].to # Nobody, ~AtNext(wire'[i].to).stale
        PROVE  wire'[i].ver \in {0, version}
    BY <1>1, <1>4, <2>1 DEF FreshInv
  <2> QED BY <1>2, <2>1 DEF FreshInv, FreshAfterClear, At, AtNext
<1>6. ASSUME TypedRows = 0, ChanInv PROVE ChanInv'
  <2>1. ASSUME NEW i \in 1 .. Len(wire'), wire'[i].to # Nobody, AtNext(wire'[i].to).pc \notin {"again", "failed"}
        PROVE  /\ wire'[i].m = "complete" => AtNext(wire'[i].to).chan = 0
               /\ wire'[i].m = "ready" => AtNext(wire'[i].to).chan <= 1
               /\ wire'[i].m = "row" => AtNext(wire'[i].to).fn # "typed"
    <3>1. CASE i \in 1 .. Len(wire)
      BY <1>1, <1>4, <1>6, <2>1, <3>1 DEF ChanInv
    <3>2. CASE i \notin 1 .. Len(wire)
      <4> DEFINE k == i - Len(wire)
      <4>1. r.to # Nobody /\ k \in 1 .. Len(ms) /\ wire'[i].to = r.to /\ wire'[i].m = ms[k]
        BY <1>1, <3>2
      <4> HIDE DEF k
      <4>2. IsAt(r.to) /\ Asked(r, At(r.to)) /\ r.to \in Tos
        BY <1>1, <4>1, Addressed DEF TalkInv
      <4>3. At(r.to).pc = "wait" /\ At(r.to).chan = 0
        BY <1>6, <4>1, <4>2 DEF Asked, ChanInv, IsAt, At, Tos
      <4>4. ms[k] = "row" => At(r.to).fn # "typed"
        <5>1. ms[k] = "row" /\ r.op = "typed" => r.rows # 0
          BY <4>1 DEF Answered, AnswerOk
        <5> QED BY <1>6, <4>2, <5>1 DEF Asked
      <4> QED BY <1>4, <4>1, <4>3, <4>4
    <3> QED BY <3>1, <3>2
  <2>2. \A t \in Tasks : \A d \in 1 .. Len(frames'[t]) :
          frames'[t][d].pc = "wait" \/ Unsent(frames'[t][d]) => frames'[t][d].chan = 0
    BY <1>2, <1>6 DEF ChanInv
  <2> QED BY <2>1, <2>2 DEF ChanInv, At, AtNext
<1> QED BY <1>3, <1>5, <1>6, ServedTalk, ServedStmt

\* The answers with rows are in order.
LEMMA RowsOk ==
  ASSUME NEW n \in Nat
  PROVE  LET a == [i \in 1 .. n |-> "row"] \o <<"complete", "ready">>
             b == <<"described">> \o [i \in 1 .. n |-> "row"] \o <<"complete", "ready">>
         IN  /\ a \in Seq(Kinds) /\ Len(a) = n + 2 /\ b \in Seq(Kinds) /\ Len(b) = n + 3
             /\ \A i \in 1 .. n : a[i] = "row"
             /\ a[n + 1] = "complete" /\ a[n + 2] = "ready"
             /\ \A i \in 2 .. n + 1 : b[i] = "row"
             /\ b[1] = "described" /\ b[n + 2] = "complete" /\ b[n + 3] = "ready"
<1> DEFINE rows == [i \in 1 .. n |-> "row"]
           tail == <<"complete", "ready">>
           one == <<"described">>
<1>1. "row" \in Kinds /\ "complete" \in Kinds /\ "ready" \in Kinds /\ "described" \in Kinds
  BY DEF Kinds
<1>2. rows \in Seq(Kinds) /\ Len(rows) = n /\ \A i \in 1 .. n : rows[i] = "row"
  BY <1>1
<1>3. tail \in Seq(Kinds) /\ Len(tail) = 2 /\ tail[1] = "complete" /\ tail[2] = "ready"
  BY <1>1
<1>4. one \in Seq(Kinds) /\ Len(one) = 1 /\ one[1] = "described"
  BY <1>1
<1> HIDE DEF rows, tail, one
<1>5. Joined(rows, tail, Kinds, rows \o tail)
  BY <1>2, <1>3, JoinedIs
<1>6. Joined(one, rows, Kinds, one \o rows)
  BY <1>2, <1>4, JoinedIs
<1>7. Joined(one \o rows, tail, Kinds, one \o rows \o tail)
  <2>1. one \o rows \in Seq(Kinds)
    BY <1>6 DEF Joined
  <2> QED BY <1>3, <2>1, JoinedIs
<1>8. /\ rows \o tail \in Seq(Kinds) /\ Len(rows \o tail) = n + 2
      /\ \A i \in 1 .. n : (rows \o tail)[i] = "row"
      /\ (rows \o tail)[n + 1] = "complete" /\ (rows \o tail)[n + 2] = "ready"
  BY <1>2, <1>3, <1>5 DEF Joined
<1>9. /\ Len(one \o rows) = n + 1 /\ (one \o rows)[1] = "described"
      /\ \A i \in 2 .. n + 1 : (one \o rows)[i] = "row"
  <2>1. Len(one \o rows) = n + 1 /\ (one \o rows)[1] = "described"
    BY <1>2, <1>4, <1>6 DEF Joined
  <2>2. ASSUME NEW i \in 2 .. n + 1 PROVE (one \o rows)[i] = "row"
    <3>1. i - 1 \in 1 .. n /\ 1 + (i - 1) = i
      OBVIOUS
    <3>2. (one \o rows)[Len(one) + (i - 1)] = rows[i - 1]
      BY <1>2, <1>6, <3>1 DEF Joined
    <3> QED BY <1>2, <1>4, <3>1, <3>2
  <2> QED BY <2>1, <2>2
<1>10. /\ one \o rows \o tail \in Seq(Kinds) /\ Len(one \o rows \o tail) = n + 3
       /\ \A i \in 2 .. n + 1 : (one \o rows \o tail)[i] = "row"
       /\ (one \o rows \o tail)[1] = "described"
       /\ (one \o rows \o tail)[n + 2] = "complete" /\ (one \o rows \o tail)[n + 3] = "ready"
  <2>1. \A i \in 1 .. n + 1 : (one \o rows \o tail)[i] = (one \o rows)[i]
    BY <1>7, <1>9 DEF Joined
  <2>2. \A i \in 1 .. 2 : (one \o rows \o tail)[n + 1 + i] = tail[i]
    BY <1>3, <1>7, <1>9 DEF Joined
  <2>3. (one \o rows \o tail)[n + 1 + 1] = tail[1] /\ (one \o rows \o tail)[n + 1 + 2] = tail[2]
    <3>1. 1 \in 1 .. 2 /\ 2 \in 1 .. 2
      OBVIOUS
    <3> QED BY <2>2, <3>1, Zenon
  <2>4. n + 1 + 1 = n + 2 /\ n + 1 + 2 = n + 3 /\ 1 \in 1 .. n + 1 /\ \A i \in 2 .. n + 1 : i \in 1 .. n + 1
    OBVIOUS
  <2>5. one \o rows \o tail \in Seq(Kinds) /\ Len(one \o rows \o tail) = n + 3
    BY <1>3, <1>7, <1>9 DEF Joined
  <2>6. (one \o rows \o tail)[n + 2] = "complete" /\ (one \o rows \o tail)[n + 3] = "ready"
    BY <1>3, <2>3, <2>4
  <2>7. /\ \A i \in 2 .. n + 1 : (one \o rows \o tail)[i] = "row"
        /\ (one \o rows \o tail)[1] = "described"
    BY <1>9, <2>1, <2>4
  <2> QED BY <2>5, <2>6, <2>7
<1> QED BY <1>8, <1>10 DEF rows, tail, one

\* The server executes a request or refuses it.
LEMMA StepServe ==
  ASSUME IInv, Serve
  PROVE  IInv' /\ (TypedRows = 0 /\ ChanInv => ChanInv')
<1> USE DEF IInv
<1> DEFINE r == Head(queue)
<1>1. /\ queue # <<>> /\ ~lost /\ queue' = Tail(queue)
      /\ UNCHANGED <<frames, handle, slot, types, nextId, lost, version, orphans, late>>
  BY DEF Serve, cacheVars
<1>2. r \in Asking /\ r = queue[1] /\ 1 \in 1 .. Len(queue)
  BY <1>1 DEF TypeOK
<1>3. r.rows \in Nat
  BY <1>2 DEF Asking
<1> HIDE DEF r
<1>4. ASSUME NEW ms, AnswerOk(r, ms), wire' = wire \o Answer(r, ms), Effect(r, ms)
      PROVE  IInv' /\ (TypedRows = 0 /\ ChanInv => ChanInv')
  <2>1. Answered(r, ms)
    BY <1>1, <1>4 DEF Answered, r
  <2> QED BY <2>1, ServedKeeps
<1>5. ASSUME NEW a \in {"described", "undefined", "error"}, a = "described" => r.op # "query"
      PROVE  AnswerOk(r, <<a, "ready">>) /\ Len(<<a, "ready">>) = 2 /\ <<a, "ready">>[1] = a /\ <<a, "ready">>[2] = "ready"
  <2> DEFINE ms == <<a, "ready">>
  <2>1. ms \in Seq(Kinds) /\ Len(ms) = 2 /\ ms[1] = a /\ ms[2] = "ready"
    BY DEF Kinds
  <2>2. \A i \in 1 .. 2 : i = 1 \/ i = 2
    OBVIOUS
  <2>3. Stage(a) = 1 /\ Stage("ready") = 4
    BY DEF Stage
  <2> HIDE DEF ms
  <2>4. \A i, j \in 1 .. 2 : i < j => i = 1 /\ j = 2
    BY <2>2
  <2>5. AnswerOk(r, ms)
    BY <1>5, <2>1, <2>2, <2>3, <2>4 DEF AnswerOk
  <2> QED BY <2>1, <2>5 DEF ms
<1>6. CASE r.op = "parse" /\ prepared' = prepared \cup {r.stmt} /\ wire' = wire \o Answer(r, <<"described", "ready">>)
  <2> DEFINE ms == <<"described", "ready">>
  <2>1. AnswerOk(r, ms) /\ Len(ms) = 2 /\ ms[1] = "described" /\ ms[2] = "ready"
    BY <1>5, <1>6
  <2> HIDE DEF ms
  <2>2. \A i \in 1 .. Len(ms) : ms[i] \notin {"undefined", "error"}
    BY <2>1
  <2>3. Effect(r, ms)
    BY <1>6, <2>2 DEF Effect
  <2>4. wire' = wire \o Answer(r, ms)
    BY <1>6 DEF ms
  <2> QED BY <1>4, <2>1, <2>3, <2>4
<1>7. CASE /\ r.op # "close" /\ UNCHANGED prepared
           /\ \E e \in {"undefined", "error"} : wire' = wire \o Answer(r, <<e, "ready">>)
  <2>1. PICK e \in {"undefined", "error"} : wire' = wire \o Answer(r, <<e, "ready">>)
    BY <1>7
  <2> DEFINE ms == <<e, "ready">>
  <2>2. AnswerOk(r, ms) /\ Len(ms) = 2 /\ ms[1] = e /\ ms[2] = "ready"
    BY <1>5
  <2>3. wire' = wire \o Answer(r, ms)
    BY <2>1
  <2> HIDE DEF ms
  <2>4. \A i \in 1 .. Len(ms) : ms[i] # "described"
    BY <2>2
  <2>5. Effect(r, ms)
    BY <1>7, <2>4 DEF Effect
  <2> QED BY <1>4, <2>2, <2>3, <2>5
<1>8. CASE /\ r.op = "query" /\ UNCHANGED prepared
           /\ wire' = wire \o Answer(r, [i \in 1 .. r.rows |-> "row"] \o <<"complete", "ready">>)
  <2> DEFINE ms == [i \in 1 .. r.rows |-> "row"] \o <<"complete", "ready">>
             n == r.rows
  <2>1. /\ ms \in Seq(Kinds) /\ Len(ms) = n + 2 /\ \A i \in 1 .. n : ms[i] = "row"
        /\ ms[n + 1] = "complete" /\ ms[n + 2] = "ready"
    BY <1>3, RowsOk
  <2>2. wire' = wire \o Answer(r, ms)
    BY <1>8
  <2> HIDE DEF ms, n
  <2>3. n \in Nat /\ r.rows = n
    BY <1>3 DEF n
  <2>4. \A i \in 1 .. Len(ms) : i \in 1 .. n \/ i = n + 1 \/ i = n + 2
    BY <2>1, <2>3
  <2>5. Stage("row") = 2 /\ Stage("complete") = 3 /\ Stage("ready") = 4
    BY DEF Stage
  <2>6. AnswerOk(r, ms)
    <3>1. ASSUME NEW i \in 1 .. Len(ms), NEW j \in 1 .. Len(ms), i < j
          PROVE  \/ Stage(ms[i]) < Stage(ms[j])
                 \/ ms[i] = "row" /\ ms[j] = "row" /\ r.rows # 1
      <4>1. CASE i \in 1 .. n /\ j \in 1 .. n
        BY <2>1, <2>3, <3>1, <4>1
      <4>2. CASE i \in 1 .. n /\ j \notin 1 .. n
        BY <2>1, <2>4, <2>5, <4>2
      <4>3. CASE i \notin 1 .. n
        <5>1. i = n + 1 /\ j = n + 2
          BY <2>3, <2>4, <3>1, <4>3
        <5> QED BY <2>1, <2>5, <5>1
      <4> QED BY <4>1, <4>2, <4>3
    <3>2. ASSUME NEW i \in 1 .. Len(ms)
          PROVE  /\ ms[i] = "ready" => i # 1
                 /\ ms[i] # "described"
      BY <2>1, <2>3, <2>4
    <3>3. r.op = "query"
      BY <1>8
    <3> QED BY <2>1, <3>1, <3>2, <3>3 DEF AnswerOk
  <2>7. Effect(r, ms)
    BY <1>8 DEF Effect
  <2> QED BY <1>4, <2>2, <2>6, <2>7
<1>9. CASE /\ r.op = "typed" /\ UNCHANGED prepared
           /\ wire' = wire \o Answer(r, <<"described">> \o [i \in 1 .. r.rows |-> "row"] \o <<"complete", "ready">>)
  <2> DEFINE ms == <<"described">> \o [i \in 1 .. r.rows |-> "row"] \o <<"complete", "ready">>
             n == r.rows
  <2>1. /\ ms \in Seq(Kinds) /\ Len(ms) = n + 3 /\ \A i \in 2 .. n + 1 : ms[i] = "row"
        /\ ms[1] = "described" /\ ms[n + 2] = "complete" /\ ms[n + 3] = "ready"
    BY <1>3, RowsOk
  <2>2. wire' = wire \o Answer(r, ms)
    BY <1>9
  <2> HIDE DEF ms, n
  <2>3. n \in Nat /\ r.rows = n
    BY <1>3 DEF n
  <2>4. \A i \in 1 .. Len(ms) : i = 1 \/ i \in 2 .. n + 1 \/ i = n + 2 \/ i = n + 3
    BY <2>1, <2>3
  <2>5. Stage("row") = 2 /\ Stage("complete") = 3 /\ Stage("ready") = 4 /\ Stage("described") = 1
    BY DEF Stage
  <2>6. AnswerOk(r, ms)
    <3>1. ASSUME NEW i \in 1 .. Len(ms), NEW j \in 1 .. Len(ms), i < j
          PROVE  \/ Stage(ms[i]) < Stage(ms[j])
                 \/ ms[i] = "row" /\ ms[j] = "row"
      <4>1. CASE i = 1
        <5>1. j \in 2 .. n + 1 \/ j = n + 2 \/ j = n + 3
          BY <2>4, <3>1, <4>1
        <5> QED BY <2>1, <2>5, <4>1, <5>1
      <4>2. CASE i \in 2 .. n + 1
        <5>1. j \in 2 .. n + 1 \/ j = n + 2 \/ j = n + 3
          BY <2>3, <2>4, <3>1, <4>2
        <5> QED BY <2>1, <2>5, <4>2, <5>1
      <4>3. CASE i = n + 2 \/ i = n + 3
        <5>1. i = n + 2 /\ j = n + 3
          BY <2>3, <2>4, <3>1, <4>3
        <5> QED BY <2>1, <2>5, <5>1
      <4> QED BY <2>4, <4>1, <4>2, <4>3
    <3>2. ASSUME NEW i \in 1 .. Len(ms)
          PROVE  /\ ms[i] = "ready" => i # 1
                 /\ ms[i] = "row" => n # 0
      BY <2>1, <2>3, <2>4
    <3>3. r.op = "typed"
      BY <1>9
    <3> QED BY <2>1, <2>3, <3>1, <3>2, <3>3 DEF AnswerOk
  <2>7. Effect(r, ms)
    BY <1>9 DEF Effect
  <2> QED BY <1>4, <2>2, <2>6, <2>7
<1>10. CASE r.op = "close" /\ prepared' = prepared \ {r.stmt} /\ UNCHANGED wire
  <2> DEFINE ms == <<>>
  <2>1. ms \in Seq(Kinds) /\ Len(ms) = 0 /\ \A i : i \notin 1 .. 0
    OBVIOUS
  <2>2. Effect(r, ms)
    BY <1>10 DEF Effect
  <2>3. AnswerOk(r, ms)
    <3> HIDE DEF ms
    <3> QED BY <2>1 DEF AnswerOk
  <2>4. r.to = Nobody
    BY <1>2, <1>10 DEF StmtInv, QueueInv
  <2>5. wire \o <<>> = wire
    BY DEF TypeOK
  <2>6. wire' = wire \o Answer(r, ms)
    BY <1>10, <2>4, <2>5 DEF Answer
  <2> QED BY <1>4, <2>2, <2>3, <2>6
<1> QED BY <1>6, <1>7, <1>8, <1>9, <1>10 DEF Serve, r

\* The call f has been told m, read it or not, and is now g.
Heard(f, g, m) ==
  /\ g.fn = f.fn /\ g.stmt = f.stmt /\ g.stale = f.stale /\ g.ver \in {f.ver, m.ver}
  /\ \A k \in Kinds : Expects(f, k) /\ (Stage(m.m) < Stage(k) \/ (m.m = "row" /\ k = "row" /\ f.fn # "type")) =>
       Expects(g, k)
  /\ IF f.pc = "wait" THEN g.chan = f.chan ELSE g.pc = f.pc /\ g.chan = f.chan + 1
  /\ g.pc = "wait" => f.pc = "wait" /\ f.fn # "prepare"
  /\ f.fn = "prepare" /\ f.pc = "wait" =>
       (g.pc = "types" => m.m = "described") /\ (g.pc = "again" => m.m = "undefined")
  /\ ~Unsent(g)

\* The first message on the wire is delivered: only the call it is for hears it.
Delivered ==
  /\ wire # <<>> /\ wire' = Tail(wire)
  /\ UNCHANGED <<handle, slot, types, nextId, queue, lost, prepared, version, orphans, late>>
  /\ frames' \in [Tasks -> Seq(FrameSet)] /\ StackInv'
  /\ \A u \in Tasks : \A e \in 1 .. Len(frames[u]) :
       /\ e \in 1 .. Len(frames'[u])
       /\ IF <<u, e>> = wire[1].to THEN Heard(frames[u][e], frames'[u][e], wire[1])
                                   ELSE frames'[u][e] = frames[u][e]
  /\ \A u \in Tasks : \A e \in 1 .. Len(frames'[u]) :
       e \notin 1 .. Len(frames[u]) =>
         frames'[u][e].fn # "prepare" /\ frames'[u][e].stmt = 0 /\ frames'[u][e].chan = 0 /\ frames'[u][e].ver = 0

\* The wire after a delivery, and whom its messages are for.
LEMMA DeliveredIs ==
  ASSUME IInv, Delivered
  PROVE  /\ wire' \in Seq(Telling) /\ 1 \in 1 .. Len(wire) /\ Len(wire) \in Nat /\ Len(wire') = Len(wire) - 1
         /\ \A i \in 1 .. Len(wire') : i + 1 \in 1 .. Len(wire) /\ wire'[i] = wire[i + 1] /\ 1 < i + 1
         /\ \A to \in Tos : to # Nobody /\ IsAt(to) =>
              /\ IsAtNext(to)
              /\ IF to = wire[1].to THEN Heard(At(to), AtNext(to), wire[1]) ELSE AtNext(to) = At(to)
<1>1. wire \in Seq(Telling) /\ wire # <<>> /\ wire' = Tail(wire)
  BY DEF IInv, TypeOK, Delivered
<1>2. /\ wire' \in Seq(Telling) /\ 1 \in 1 .. Len(wire) /\ Len(wire) \in Nat /\ Len(wire') = Len(wire) - 1
      /\ \A i \in 1 .. Len(wire') : wire'[i] = wire[i + 1]
  BY <1>1
<1>3. \A i \in 1 .. Len(wire') : i + 1 \in 1 .. Len(wire) /\ 1 < i + 1
  BY <1>2
<1>4. ASSUME NEW to \in Tos, to # Nobody, IsAt(to)
      PROVE  /\ IsAtNext(to)
             /\ IF to = wire[1].to THEN Heard(At(to), AtNext(to), wire[1]) ELSE AtNext(to) = At(to)
  <2>1. to[1] \in Tasks /\ to[2] \in 1 .. Len(frames[to[1]]) /\ <<to[1], to[2]>> = to
    BY <1>4 DEF Tos, IsAt
  <2>2. /\ to[2] \in 1 .. Len(frames'[to[1]])
        /\ IF <<to[1], to[2]>> = wire[1].to THEN Heard(frames[to[1]][to[2]], frames'[to[1]][to[2]], wire[1])
                                            ELSE frames'[to[1]][to[2]] = frames[to[1]][to[2]]
    BY <2>1 DEF Delivered
  <2> QED BY <2>1, <2>2 DEF IsAtNext, AtNext, At
<1> QED BY <1>2, <1>3, <1>4

\* A delivery keeps the conversations apart.
LEMMA DeliveredTalk ==
  ASSUME IInv, Delivered PROVE TalkInv'
<1> USE DEF IInv
<1>1. /\ 1 \in 1 .. Len(wire) /\ Len(wire) \in Nat /\ Len(wire') = Len(wire) - 1
      /\ \A i \in 1 .. Len(wire') : i + 1 \in 1 .. Len(wire) /\ wire'[i] = wire[i + 1] /\ 1 < i + 1
      /\ \A to \in Tos : to # Nobody /\ IsAt(to) =>
           /\ IsAtNext(to)
           /\ IF to = wire[1].to THEN Heard(At(to), AtNext(to), wire[1]) ELSE AtNext(to) = At(to)
  BY DeliveredIs
<1>2. ASSUME NEW k \in 1 .. Len(wire), 1 < k, wire[k].to # Nobody
      PROVE  /\ IsAtNext(wire[k].to) /\ Expects(AtNext(wire[k].to), wire[k].m)
             /\ AtNext(wire[k].to).fn = At(wire[k].to).fn
  <2> DEFINE to == wire[k].to
  <2>1. to \in Tos /\ IsAt(to) /\ Expects(At(to), wire[k].m) /\ wire[k].m \in Kinds
    BY <1>2, Addressed DEF TalkInv
  <2>2. to = wire[1].to =>
          \/ Stage(wire[1].m) < Stage(wire[k].m)
          \/ wire[1].m = "row" /\ wire[k].m = "row" /\ At(wire[1].to).fn # "type"
    BY <1>1, <1>2 DEF TalkInv
  <2> HIDE DEF to
  <2>3. to # Nobody
    BY <1>2 DEF to
  <2>4. CASE to = wire[1].to
    <3>1. Heard(At(to), AtNext(to), wire[1]) /\ IsAtNext(to)
      BY <1>1, <2>1, <2>3, <2>4
    <3>2. Expects(AtNext(to), wire[k].m) /\ AtNext(to).fn = At(to).fn
      BY <2>1, <2>2, <2>4, <3>1 DEF Heard
    <3> QED BY <3>1, <3>2 DEF to
  <2>5. CASE to # wire[1].to
    <3>1. IsAtNext(to) /\ AtNext(to) = At(to)
      BY <1>1, <2>1, <2>3, <2>5
    <3> QED BY <2>1, <3>1 DEF to
  <2> QED BY <2>4, <2>5
<1>3. \A i \in 1 .. Len(wire') : wire'[i].to # Nobody =>
        IsAtNext(wire'[i].to) /\ Expects(AtNext(wire'[i].to), wire'[i].m)
  BY <1>1, <1>2
<1>4. ASSUME NEW i \in 1 .. Len(wire'), NEW j \in 1 .. Len(wire'), i < j, wire'[i].to = wire'[j].to, wire'[i].to # Nobody
      PROVE  \/ Stage(wire'[i].m) < Stage(wire'[j].m)
             \/ wire'[i].m = "row" /\ wire'[j].m = "row" /\ AtNext(wire'[i].to).fn # "type"
  <2> DEFINE k == i + 1
             l == j + 1
  <2>1. k \in 1 .. Len(wire) /\ l \in 1 .. Len(wire) /\ k < l /\ 1 < k /\ wire'[i] = wire[k] /\ wire'[j] = wire[l]
    BY <1>1, <1>4
  <2> HIDE DEF k, l
  <2>2. \/ Stage(wire[k].m) < Stage(wire[l].m)
        \/ wire[k].m = "row" /\ wire[l].m = "row" /\ At(wire[k].to).fn # "type"
    BY <1>4, <2>1 DEF TalkInv
  <2> QED BY <1>2, <1>4, <2>1, <2>2
<1>5. ASSUME NEW j \in 1 .. Len(wire'), wire'[j].to # Nobody, wire'[j].m = "ready",
             AtNext(wire'[j].to).pc = "wait", AtNext(wire'[j].to).fn = "prepare"
      PROVE  \E i \in 1 .. j - 1 : wire'[i].to = wire'[j].to
  <2> DEFINE k == j + 1
             to == wire[k].to
  <2>1. k \in 1 .. Len(wire) /\ 1 < k /\ wire'[j] = wire[k]
    BY <1>1
  <2> HIDE DEF k
  <2>2. to \in Tos /\ IsAt(to) /\ to # Nobody /\ AtNext(to).pc = "wait" /\ AtNext(to).fn = "prepare"
    BY <1>5, <2>1, Addressed DEF TalkInv
  <2>3. to # wire[1].to
    BY <1>1, <2>2 DEF Heard
  <2>4. AtNext(to) = At(to)
    BY <1>1, <2>2, <2>3
  <2>5. PICK i \in 1 .. k - 1 : wire[i].to = to
    BY <1>5, <2>1, <2>2, <2>4 DEF TalkInv
  <2>6. i # 1
    BY <2>3, <2>5
  <2>7. i - 1 \in 1 .. j - 1 /\ i - 1 \in 1 .. Len(wire') /\ i - 1 + 1 = i
    BY <1>1, <2>1, <2>5, <2>6 DEF k
  <2>8. wire'[i - 1] = wire[i]
    BY <1>1, <2>7
  <2> QED BY <2>1, <2>5, <2>7, <2>8
<1>6. ASSUME NEW i \in 1 .. Len(queue'), queue'[i].to # Nobody
      PROVE  /\ IsAtNext(queue'[i].to) /\ Asked(queue'[i], AtNext(queue'[i].to))
             /\ \A j \in 1 .. Len(wire') : wire'[j].to # queue'[i].to
             /\ \A j \in 1 .. Len(queue') : queue'[j].to = queue'[i].to => j = i
  <2>1. queue' = queue
    BY DEF Delivered
  <2>2. /\ IsAt(queue[i].to) /\ Asked(queue[i], At(queue[i].to)) /\ queue[i].to \in Tos
        /\ \A j \in 1 .. Len(wire) : wire[j].to # queue[i].to
        /\ \A j \in 1 .. Len(queue) : queue[j].to = queue[i].to => j = i
    BY <1>6, <2>1, Addressed DEF TalkInv
  <2>3. queue[i].to # wire[1].to
    BY <1>1, <2>2
  <2>4. IsAtNext(queue[i].to) /\ AtNext(queue[i].to) = At(queue[i].to)
    BY <1>1, <1>6, <2>1, <2>2, <2>3
  <2> QED BY <1>1, <2>1, <2>2, <2>4
<1> QED BY <1>3, <1>4, <1>5, <1>6, TalkNext

\* A delivery keeps what is known of the statements.
LEMMA DeliveredStmt ==
  ASSUME IInv, Delivered PROVE StmtInv'
<1> USE DEF IInv
<1>1. /\ UNCHANGED <<handle, slot, types, nextId, queue, lost, prepared, version, orphans, late>>
      /\ frames' \in [Tasks -> Seq(FrameSet)]
      /\ \A u \in Tasks : \A e \in 1 .. Len(frames[u]) :
           /\ e \in 1 .. Len(frames'[u])
           /\ IF <<u, e>> = wire[1].to THEN Heard(frames[u][e], frames'[u][e], wire[1])
                                       ELSE frames'[u][e] = frames[u][e]
      /\ \A u \in Tasks : \A e \in 1 .. Len(frames'[u]) :
           e \notin 1 .. Len(frames[u]) =>
             frames'[u][e].fn # "prepare" /\ frames'[u][e].stmt = 0
  BY DEF Delivered
<1>2. /\ 1 \in 1 .. Len(wire)
      /\ \A i \in 1 .. Len(wire') : i + 1 \in 1 .. Len(wire) /\ wire'[i] = wire[i + 1]
  BY DeliveredIs
<1>3. SamePlaces
  BY <1>1 DEF SamePlaces, Heard
<1>4. HeldNow' = HeldNow /\ (\A s : s # 0 => (Made(s)' <=> Made(s))) /\ MadeInv'
  BY <1>1, <1>3, NamesStay DEF StmtInv
<1>5. \A s : Closing(s)' <=> Closing(s)
  BY <1>1 DEF Closing
<1>6. MakingInv'
  <2> SUFFICES ASSUME NEW t \in Tasks, NEW d \in 1 .. Len(frames'[t]), frames'[t][d].fn = "prepare", frames'[t][d].stmt # 0
               PROVE  LET f == frames'[t][d] IN
                        /\ f.stmt < nextId /\ f.stmt \notin HeldNow \cup orphans
                        /\ f.pc = "types" /\ ~lost => f.stmt \in prepared
                        /\ f.pc = "again" => f.stmt \notin prepared
                        /\ \A i \in 1 .. Len(wire') : wire'[i].to = <<t, d>> =>
                             /\ wire'[i].m = "described" => f.stmt \in prepared
                             /\ wire'[i].m \in {"undefined", "error"} => f.stmt \notin prepared
    BY <1>1, <1>4 DEF MakingInv
  <2> DEFINE f == frames[t][d]
             g == frames'[t][d]
  <2>1. d \in 1 .. Len(frames[t])
    BY <1>1
  <2>2. IF <<t, d>> = wire[1].to THEN Heard(f, g, wire[1]) ELSE g = f
    BY <1>1, <2>1
  <2>3. f.fn = "prepare" /\ f.stmt = g.stmt
    BY <2>2 DEF Heard
  <2>4. /\ f.stmt < nextId /\ f.stmt \notin HeldNow \cup orphans
        /\ f.pc = "types" /\ ~lost => f.stmt \in prepared
        /\ f.pc = "again" => f.stmt \notin prepared
        /\ \A i \in 1 .. Len(wire) : wire[i].to = <<t, d>> =>
             /\ wire[i].m = "described" => f.stmt \in prepared
             /\ wire[i].m \in {"undefined", "error"} => f.stmt \notin prepared
    BY <2>1, <2>3 DEF StmtInv, MakingInv
  <2> HIDE DEF f, g
  <2>5. /\ g.pc = "types" => f.pc = "types" \/ (<<t, d>> = wire[1].to /\ wire[1].m = "described")
        /\ g.pc = "again" => f.pc = "again" \/ (<<t, d>> = wire[1].to /\ wire[1].m = "undefined")
    BY <2>2, <2>3 DEF Heard
  <2>6. /\ g.pc = "types" /\ ~lost => g.stmt \in prepared
        /\ g.pc = "again" => g.stmt \notin prepared
    BY <1>2, <2>3, <2>4, <2>5
  <2> QED BY <1>2, <2>3, <2>4, <2>6 DEF g
<1>7. HeldInv'
  BY <1>1, <1>4, <1>5 DEF StmtInv, HeldInv
<1>8. QueueInv'
  BY <1>1, <1>4 DEF StmtInv, QueueInv
<1>9. ServerInv'
  BY <1>1, <1>4, <1>5 DEF StmtInv, ServerInv
<1> QED BY <1>4, <1>6, <1>7, <1>8, <1>9 DEF StmtInv

\* A delivery keeps the invariant.
LEMMA DeliveredKeeps ==
  ASSUME IInv, Delivered PROVE IInv' /\ (ChanInv => ChanInv')
<1> USE DEF IInv
<1>1. /\ UNCHANGED <<handle, slot, types, nextId, queue, lost, prepared, version, orphans, late>>
      /\ frames' \in [Tasks -> Seq(FrameSet)] /\ StackInv'
      /\ \A u \in Tasks : \A e \in 1 .. Len(frames[u]) :
           /\ e \in 1 .. Len(frames'[u])
           /\ IF <<u, e>> = wire[1].to THEN Heard(frames[u][e], frames'[u][e], wire[1])
                                       ELSE frames'[u][e] = frames[u][e]
      /\ \A u \in Tasks : \A e \in 1 .. Len(frames'[u]) :
           e \notin 1 .. Len(frames[u]) =>
             frames'[u][e].fn # "prepare" /\ frames'[u][e].stmt = 0 /\ frames'[u][e].chan = 0 /\ frames'[u][e].ver = 0
  BY DEF Delivered
<1>2. /\ wire' \in Seq(Telling) /\ 1 \in 1 .. Len(wire) /\ Len(wire) \in Nat /\ Len(wire') = Len(wire) - 1
      /\ \A i \in 1 .. Len(wire') : i + 1 \in 1 .. Len(wire) /\ wire'[i] = wire[i + 1] /\ 1 < i + 1
      /\ \A to \in Tos : to # Nobody /\ IsAt(to) =>
           /\ IsAtNext(to)
           /\ IF to = wire[1].to THEN Heard(At(to), AtNext(to), wire[1]) ELSE AtNext(to) = At(to)
  BY DeliveredIs
<1>3. TypeOK'
  <2>1. lost => wire' = <<>>
    BY <1>2 DEF TypeOK
  <2> QED BY <1>1, <1>2, <2>1 DEF TypeOK
<1>4. \A t \in Tasks : \A d \in 1 .. Len(frames[t]) : <<t, d>> = wire[1].to => wire[1].to # Nobody /\ At(wire[1].to) = frames[t][d]
  <2> SUFFICES ASSUME NEW t \in Tasks, NEW d \in 1 .. Len(frames[t]), wire[1].to = <<t, d>>
               PROVE  wire[1].to # Nobody /\ At(wire[1].to) = frames[t][d]
    OBVIOUS
  <2>1. wire[1].to # Nobody
    BY Somebody
  <2>2. At(wire[1].to) = frames[t][d]
    BY DEF At
  <2> QED BY <2>1, <2>2
<1>5. FreshInv'
  <2>1. ASSUME NEW t \in Tasks, NEW d \in 1 .. Len(frames'[t]), ~frames'[t][d].stale
        PROVE  frames'[t][d].ver \in {0, version}
    <3>1. CASE d \in 1 .. Len(frames[t]) /\ <<t, d>> = wire[1].to
      <4>1. Heard(frames[t][d], frames'[t][d], wire[1])
        BY <1>1, <3>1
      <4>2. ~frames[t][d].stale /\ ~At(wire[1].to).stale
        BY <1>4, <2>1, <3>1, <4>1 DEF Heard
      <4>3. frames[t][d].ver \in {0, version} /\ wire[1].ver \in {0, version}
        BY <1>2, <1>4, <3>1, <4>2 DEF FreshInv
      <4> QED BY <4>1, <4>3 DEF Heard
    <3>2. CASE d \in 1 .. Len(frames[t]) /\ <<t, d>> # wire[1].to
      BY <1>1, <2>1, <3>2 DEF FreshInv
    <3>3. CASE d \notin 1 .. Len(frames[t])
      BY <1>1, <3>3
    <3> QED BY <3>1, <3>2, <3>3
  <2>2. ASSUME NEW i \in 1 .. Len(wire'), wire'[i].to # Nobody, ~AtNext(wire'[i].to).stale
        PROVE  wire'[i].ver \in {0, version}
    <3> DEFINE k == i + 1
    <3>1. k \in 1 .. Len(wire) /\ wire'[i] = wire[k]
      BY <1>2
    <3> HIDE DEF k
    <3>2. wire[k].to \in Tos /\ IsAt(wire[k].to)
      BY <2>2, <3>1, Addressed DEF TalkInv
    <3>3. AtNext(wire[k].to).stale = At(wire[k].to).stale
      BY <1>2, <2>2, <3>1, <3>2 DEF Heard
    <3> QED BY <2>2, <3>1, <3>3 DEF FreshInv
  <2>3. FreshAfterClear'
    BY <1>1 DEF FreshInv, FreshAfterClear
  <2> QED BY <1>1, <2>1, <2>2, <2>3 DEF FreshInv, At, AtNext
<1>6. ASSUME ChanInv PROVE ChanInv'
  <2>1. ASSUME NEW t \in Tasks, NEW d \in 1 .. Len(frames'[t]), frames'[t][d].pc = "wait" \/ Unsent(frames'[t][d])
        PROVE  frames'[t][d].chan = 0
    <3>1. CASE d \in 1 .. Len(frames[t]) /\ <<t, d>> = wire[1].to
      <4>1. Heard(frames[t][d], frames'[t][d], wire[1])
        BY <1>1, <3>1
      <4>2. frames'[t][d].chan = frames[t][d].chan /\ frames[t][d].pc = "wait"
        BY <2>1, <4>1 DEF Heard
      <4> QED BY <1>6, <3>1, <4>2 DEF ChanInv
    <3>2. CASE d \in 1 .. Len(frames[t]) /\ <<t, d>> # wire[1].to
      BY <1>1, <1>6, <2>1, <3>2 DEF ChanInv
    <3>3. CASE d \notin 1 .. Len(frames[t])
      BY <1>1, <3>3
    <3> QED BY <3>1, <3>2, <3>3
  <2>2. ASSUME NEW i \in 1 .. Len(wire'), wire'[i].to # Nobody, AtNext(wire'[i].to).pc \notin {"again", "failed"}
        PROVE  /\ wire'[i].m = "complete" => AtNext(wire'[i].to).chan = 0
               /\ wire'[i].m = "ready" => AtNext(wire'[i].to).chan <= 1
               /\ wire'[i].m = "row" => AtNext(wire'[i].to).fn # "typed"
    <3> DEFINE k == i + 1
               to == wire[k].to
               f == At(to)
               g == AtNext(to)
    <3>1. k \in 1 .. Len(wire) /\ wire'[i] = wire[k] /\ 1 < k
      BY <1>2
    <3> HIDE DEF k
    <3>2. to \in Tos /\ IsAt(to) /\ to # Nobody /\ Expects(f, wire[k].m) /\ wire[k].m \in Kinds
      BY <2>2, <3>1, Addressed DEF TalkInv
    <3>3. CASE to # wire[1].to
      <4>1. g = f
        BY <1>2, <3>2, <3>3
      <4> QED BY <1>6, <2>2, <3>1, <3>2, <4>1 DEF ChanInv
    <3>4. CASE to = wire[1].to
      <4>1. Heard(f, g, wire[1])
        BY <1>2, <3>2, <3>4
      <4>2. \/ Stage(wire[1].m) < Stage(wire[k].m)
            \/ wire[1].m = "row" /\ wire[k].m = "row" /\ f.fn # "type"
        BY <1>2, <3>1, <3>2, <3>4 DEF TalkInv
      <4>3. CASE f.pc = "wait"
        <5>1. f.chan = 0 /\ g.chan = 0 /\ g.fn = f.fn
          BY <1>6, <3>2, <4>1, <4>3 DEF ChanInv, IsAt, At, Tos, Heard
        <5>2. wire[k].m = "row" => f.fn # "typed"
          BY <1>6, <3>1, <3>2, <4>3 DEF ChanInv
        <5> QED BY <3>1, <5>1, <5>2
      <4>4. CASE f.pc # "wait"
        <5>1. g.pc = f.pc /\ g.chan = f.chan + 1 /\ f.pc \notin {"again", "failed"}
          BY <2>2, <3>1, <4>1, <4>4 DEF Heard
        <5>2. Expects(f, wire[1].m) /\ wire[1].m \in Kinds
          BY <1>2, <3>2, <3>4, Addressed DEF TalkInv
        <5>3. /\ wire[1].m = "complete" => f.chan = 0
              /\ wire[1].m = "row" => f.fn # "typed"
          BY <1>2, <1>6, <3>2, <3>4, <5>1 DEF ChanInv
        <5>4. wire[1].m \in {"complete", "ready"}
          BY <4>4, <5>1, <5>2, <5>3 DEF Expects
        <5>5. wire[1].m = "complete" /\ wire[k].m = "ready"
          BY <3>2, <4>2, <5>4 DEF Stage, Kinds
        <5>6. f.chan = 0 /\ g.chan = 1
          BY <5>1, <5>3, <5>5
        <5> QED BY <3>1, <5>5, <5>6
      <4> QED BY <4>3, <4>4
    <3> QED BY <3>3, <3>4
  <2> QED BY <2>1, <2>2 DEF ChanInv, At, AtNext
<1> QED BY <1>1, <1>3, <1>5, <1>6, DeliveredTalk, DeliveredStmt

\* A call that waits has read message m and goes on as g.
Turns(f, g, m) ==
  /\ g \in FrameSet /\ g.fn = f.fn /\ g.arg = f.arg /\ g.stmt = f.stmt /\ g.chan = f.chan /\ g.stale = f.stale
  /\ g.ver \in {f.ver, m.ver}
  /\ \/ g.pc = "wait" /\ m.m \in {"row", "complete"} /\ f.fn # "type"
     \/ g.pc = "types" /\ (m.m \in {"described", "ready"} \/ (m.m = "row" /\ f.fn = "type"))
     \/ g.pc = "called" /\ m.m = "row" /\ f.fn = "type"
     \/ g.pc = "again" /\ m.m = "undefined" /\ f.fn = "prepare"
     \/ g.pc = "failed"

\* Then it has heard it, and what may still come for it is what it expects.
LEMMA TurnsHeard ==
  ASSUME NEW f \in FrameSet, FrameOk(f), f.pc = "wait", NEW m \in Telling, m.m \in Answers(f.fn),
         f.fn = "prepare" => m.m # "ready", NEW g, Turns(f, g, m)
  PROVE  Heard(f, g, m) /\ FrameOk(g)
<1>1. m.m \in Kinds
  BY DEF Telling
<1>2. f.stmt # 0 \/ f.fn = "typed"
  BY DEF FrameOk, FrameSet, Fns
<1>3. g.pc \in {"wait", "types", "called", "again", "failed"}
  BY DEF Turns
<1>4. FrameOk(g)
  BY <1>2, <1>3 DEF FrameOk, Turns, Lookups
<1>5. ~Unsent(g)
  BY <1>2, <1>3 DEF Unsent, Turns
<1>6. f.fn = "prepare" => m.m \in {"described", "undefined", "error"}
  BY DEF Answers
<1>7. f.fn # "prepare" /\ f.fn # "typed" => m.m # "described"
  BY DEF Answers
<1>8. /\ f.fn = "prepare" => (g.pc = "types" => m.m = "described") /\ (g.pc = "again" => m.m = "undefined") /\ g.pc # "wait"
  BY <1>6, <1>3 DEF Turns
<1>9. ASSUME NEW k \in Kinds, Expects(f, k), Stage(m.m) < Stage(k) \/ (m.m = "row" /\ k = "row" /\ f.fn # "type")
      PROVE  Expects(g, k)
  <2>1. k \in Answers(f.fn)
    BY <1>9 DEF Expects
  <2>2. CASE g.pc = "wait"
    BY <2>1, <2>2 DEF Expects, Turns
  <2>3. CASE g.pc \in {"again", "failed"}
    BY <2>3 DEF Expects
  <2>4. CASE g.pc = "types" \/ g.pc = "called"
    <3>2. m.m # "ready"
      BY <1>9 DEF Stage, Kinds
    <3>3. m.m = "described" \/ (m.m = "row" /\ f.fn = "type")
      BY <2>4, <3>2 DEF Turns
    <3>4. CASE m.m = "described"
      <4>1. k \in {"row", "complete", "ready"} /\ g.pc = "types"
        BY <1>9, <2>4, <3>4 DEF Stage, Kinds, Turns
      <4>2. f.fn = "prepare" => k = "ready"
        BY <2>1, <4>1 DEF Answers
      <4>3. f.fn \in {"prepare", "typed"} /\ g.fn = f.fn
        BY <1>7, <3>4 DEF Turns
      <4> QED BY <4>1, <4>2, <4>3 DEF Expects
    <3>5. CASE m.m = "row" /\ f.fn = "type"
      <4>1. k \in {"complete", "ready"}
        BY <1>9, <3>5 DEF Stage, Kinds
      <4>2. g.fn = "type" /\ g.stmt = f.stmt /\ g.stmt # 0
        BY <1>2, <3>5 DEF Turns
      <4> QED BY <2>4, <4>1, <4>2 DEF Expects
    <3> QED BY <3>3, <3>4, <3>5
  <2> QED BY <1>3, <2>2, <2>3, <2>4
<1> QED BY <1>4, <1>5, <1>8, <1>9 DEF Heard, Turns

\* The call on top of the stack of t reads message m.
LEMMA ReadsIs ==
  ASSUME IInv, NEW t \in Tasks, frames[t] # <<>>, Top(t).pc = "wait", NEW m \in Telling,
         m.m \in Answers(Top(t).fn), Top(t).fn = "prepare" => m.m # "ready"
  PROVE  \E g : Turns(Top(t), g, m) /\ Extends(t, g, AfterMessage(frames[t], m))
<1> USE DEF IInv
<1> DEFINE f == Top(t)
           fs == AfterMessage(frames[t], m)
           Set(g) == [frames[t] EXCEPT ![Len(frames[t])] = g]
<1>1. /\ frames[t] \in Seq(FrameSet) /\ Depth(t) = Len(frames[t]) /\ f = frames[t][Len(frames[t])]
      /\ f \in FrameSet /\ FrameOk(f) /\ Len(frames[t]) \in 1 .. Len(frames[t])
  BY TopIs
<1>2. \A g : Set(g) = WithTop(t, g)
  BY <1>1 DEF WithTop
<1>3. f.pc = "wait" /\ m.m \in Kinds /\ m.ver \in Nat
  BY DEF Telling
<1>4. ASSUME NEW g, Turns(f, g, m), fs = Set(g) PROVE Turns(f, g, m) /\ Extends(t, g, fs)
  <2>1. FrameOk(g) /\ g \in FrameSet /\ g.fn = f.fn
    BY <1>1, <1>4, TurnsHeard DEF Turns
  <2> QED BY <1>2, <1>4, <2>1 DEF Extends
<1> HIDE DEF f
<1>5. CASE m.m = "described"
  <2> DEFINE g == [f EXCEPT !.pc = "types"]
  <2>1. Turns(f, g, m)
    BY <1>1, <1>5 DEF Turns, FrameSet, Pcs
  <2>2. fs = Set(g)
    BY <1>1, <1>5 DEF AfterMessage, f
  <2> QED BY <1>4, <2>1, <2>2 DEF f
<1>6. CASE m.m = "row" /\ f.fn = "type"
  <2> DEFINE f2 == [f EXCEPT !.ver = m.ver]
             g1 == [f2 EXCEPT !.pc = "called"]
             g2 == [f2 EXCEPT !.pc = "types", !.todo = PartsOf[f2.arg]]
             h(x) == Frame(x, f2.arg, "stmt")
  <2>1. f2 \in FrameSet /\ f2.arg = f.arg /\ f.arg \in Types
    BY <1>1, <1>3, <1>6 DEF FrameSet, FrameOk, Lookups
  <2>2. PartsOf[f2.arg] \in Seq(Types)
    BY <2>1, StatementsAssumption
  <2>3. Turns(f, g1, m) /\ g1.pc = "called" /\ g1.stmt = f.stmt /\ g1.fn = "type"
    BY <1>1, <1>3, <1>6 DEF Turns, FrameSet, Pcs
  <2>4. Turns(f, g2, m)
    BY <1>1, <1>3, <1>6, <2>1, <2>2 DEF Turns, FrameSet, Pcs
  <2>5. fs = AfterTypeRow(frames[t], f2)
    BY <1>1, <1>6 DEF AfterMessage, f
  <2>6. \/ \E x \in {"enum", "fields"} : fs = Append(Set(g1), h(x))
        \/ fs = Set(g2)
    BY <2>5 DEF AfterTypeRow
  <2>7. ASSUME NEW x \in {"enum", "fields"}, fs = Append(Set(g1), h(x))
        PROVE  Extends(t, g1, fs)
    <3>1. /\ h(x) \in FrameSet /\ h(x).fn = x /\ h(x).arg = f.arg /\ h(x).pc = "stmt" /\ h(x).stmt = 0
          /\ h(x).chan = 0 /\ h(x).ver = 0
      BY <2>1, FrameIs DEF Fns, Lookups, Args, Pcs
    <3>2. f.stmt # 0
      BY <1>1, <1>3, <1>6 DEF FrameOk, Lookups, f
    <3>3. FrameOk(g1) /\ g1 \in FrameSet /\ g1.fn = f.fn
      <4> HIDE DEF g1
      <4> QED BY <1>1, <1>3, <2>3, TurnsHeard DEF Turns, f
    <3> HIDE DEF g1, h
    <3>4. Calls(g1, h(x)) /\ FrameOk(h(x))
      BY <2>1, <2>3, <3>1, <3>2 DEF Calls, FrameOk, Lookups
    <3>5. fs = Append(WithTop(t, g1), h(x))
      BY <1>2, <2>7
    <3> HIDE DEF fs
    <3> QED BY <3>1, <3>3, <3>4, <3>5 DEF Extends, f
  <2>8. CASE fs = Set(g2)
    BY <1>4, <2>4, <2>8 DEF f
  <2> HIDE DEF g1, g2, fs, h
  <2> QED BY <2>3, <2>6, <2>7, <2>8 DEF f, fs
<1>7. CASE m.m \in {"row", "complete"} /\ f.fn # "type"
  <2>1. Turns(f, f, m)
    BY <1>1, <1>3, <1>7 DEF Turns, f
  <2>2. fs = Set(f)
    <3>1. Set(f) = frames[t]
      BY <1>1 DEF f
    <3>2. fs = frames[t] \/ fs = Set(f)
      BY <1>1, <1>7 DEF AfterMessage, AfterFieldRow, f
    <3> QED BY <3>1, <3>2
  <2> QED BY <1>4, <2>1, <2>2 DEF f
<1>8. CASE m.m = "ready" /\ f.fn = "fields"
  <2> DEFINE g == [f EXCEPT !.pc = "types", !.todo = PartsOf[f.arg]]
  <2>1. f.arg \in Types
    BY <1>1, <1>8 DEF FrameOk, Lookups, f
  <2>2. PartsOf[f.arg] \in Seq(Types)
    BY <2>1, StatementsAssumption
  <2>3. Turns(f, g, m)
    BY <1>1, <1>8, <2>2 DEF Turns, FrameSet, Pcs
  <2>4. fs = Set(g)
    BY <1>1, <1>8 DEF AfterMessage, f
  <2> QED BY <1>4, <2>3, <2>4 DEF f
<1>9. CASE m.m = "ready" /\ f.fn # "fields"
  <2> DEFINE g == [f EXCEPT !.pc = "types"]
  <2>1. Turns(f, g, m)
    BY <1>1, <1>9 DEF Turns, FrameSet, Pcs
  <2>2. fs = Set(g)
    BY <1>1, <1>9 DEF AfterMessage, f
  <2> QED BY <1>4, <2>1, <2>2 DEF f
<1>10. CASE m.m = "undefined" /\ f.fn = "prepare" /\ f.arg \in {"typeinfo", "enum"}
  <2> DEFINE g == [f EXCEPT !.pc = "again"]
  <2>1. Turns(f, g, m)
    BY <1>1, <1>10 DEF Turns, FrameSet, Pcs
  <2>2. fs = Set(g)
    BY <1>1, <1>10 DEF AfterMessage, f
  <2> QED BY <1>4, <2>1, <2>2 DEF f
<1>11. CASE /\ m.m \in {"undefined", "error", "complete"} /\ (m.m = "complete" => f.fn = "type")
            /\ ~(m.m = "undefined" /\ f.fn = "prepare" /\ f.arg \in {"typeinfo", "enum"})
  <2> DEFINE g == [f EXCEPT !.pc = "failed"]
  <2>1. Turns(f, g, m)
    BY <1>1, <1>11 DEF Turns, FrameSet, Pcs
  <2>2. fs = Set(g)
    BY <1>1, <1>11 DEF AfterMessage, f
  <2> QED BY <1>4, <2>1, <2>2 DEF f
<1> QED BY <1>3, <1>5, <1>6, <1>7, <1>8, <1>9, <1>10, <1>11 DEF Kinds

\* The stack fs of t after the call at depth d has heard message m.
Hears(t, d, m, fs) ==
  /\ fs \in Seq(FrameSet) /\ StackOk(fs)
  /\ \A e \in 1 .. Len(frames[t]) :
       /\ e \in 1 .. Len(fs)
       /\ IF e = d THEN Heard(frames[t][e], fs[e], m) ELSE fs[e] = frames[t][e]
  /\ \A e \in 1 .. Len(fs) : e \notin 1 .. Len(frames[t]) =>
       fs[e].fn # "prepare" /\ fs[e].stmt = 0 /\ fs[e].chan = 0 /\ fs[e].ver = 0

\* A delivery changes the stack of the call the message is for, and no other.
LEMMA HearsDelivered ==
  ASSUME IInv, NEW t \in Tasks, NEW d, NEW fs, Hears(t, d, wire[1], fs),
         wire # <<>>, wire' = Tail(wire), wire[1].to = <<t, d>>,
         frames' = [frames EXCEPT ![t] = fs],
         UNCHANGED <<handle, slot, types, nextId, queue, lost, prepared, version, orphans, late>>
  PROVE  Delivered
<1>1. frames \in [Tasks -> Seq(FrameSet)] /\ \A u \in Tasks : StackOk(frames[u])
  BY DEF IInv, TypeOK, StackInv
<1>2. fs \in Seq(FrameSet) /\ StackOk(fs)
  BY DEF Hears
<1>3. frames' \in [Tasks -> Seq(FrameSet)] /\ frames'[t] = fs /\ \A u \in Tasks : u # t => frames'[u] = frames[u]
  BY <1>1, <1>2
<1>4. \A u \in Tasks : StackOk(frames'[u])
  BY <1>1, <1>2, <1>3
<1>5. StackInv'
  BY <1>4 DEF StackInv, StackOk
<1>6. ASSUME NEW u \in Tasks, NEW e \in 1 .. Len(frames[u])
      PROVE  /\ e \in 1 .. Len(frames'[u])
             /\ IF <<u, e>> = wire[1].to THEN Heard(frames[u][e], frames'[u][e], wire[1])
                                         ELSE frames'[u][e] = frames[u][e]
  <2>1. CASE u = t
    <3>1. <<u, e>> = wire[1].to <=> e = d
      BY <2>1
    <3>2. /\ e \in 1 .. Len(fs)
          /\ IF e = d THEN Heard(frames[t][e], fs[e], wire[1]) ELSE fs[e] = frames[t][e]
      BY <2>1 DEF Hears
    <3> QED BY <1>3, <2>1, <3>1, <3>2
  <2>2. CASE u # t
    <3>1. <<u, e>> # wire[1].to
      BY <2>2
    <3> QED BY <1>3, <2>2, <3>1
  <2> QED BY <2>1, <2>2
<1>7. ASSUME NEW u \in Tasks, NEW e \in 1 .. Len(frames'[u]), e \notin 1 .. Len(frames[u])
      PROVE  frames'[u][e].fn # "prepare" /\ frames'[u][e].stmt = 0 /\ frames'[u][e].chan = 0 /\ frames'[u][e].ver = 0
  <2>1. u = t
    BY <1>3, <1>7
  <2> QED BY <1>3, <1>7, <2>1 DEF Hears
<1> QED BY <1>3, <1>5, <1>6, <1>7 DEF Delivered

\* What is known of the first message on the wire and the call it is for.
LEMMA FirstIs ==
  ASSUME IInv, wire # <<>>, wire[1].to # Nobody
  PROVE  /\ wire[1] \in Telling /\ Head(wire) = wire[1]
         /\ wire[1].to[1] \in Tasks /\ wire[1].to[2] \in 1 .. Len(frames[wire[1].to[1]])
         /\ wire[1].to = <<wire[1].to[1], wire[1].to[2]>>
         /\ frames[wire[1].to[1]] # <<>>
         /\ LET f == frames[wire[1].to[1]][wire[1].to[2]] IN
              /\ Expects(f, wire[1].m)
              /\ f.pc = "wait" /\ f.fn = "prepare" => wire[1].m # "ready"
<1>1. wire \in Seq(Telling) /\ frames \in [Tasks -> Seq(FrameSet)]
  BY DEF IInv, TypeOK
<1>2. 1 \in 1 .. Len(wire) /\ wire[1] \in Telling /\ Head(wire) = wire[1]
  BY <1>1
<1>3. wire[1].to[1] \in Tasks /\ wire[1].to = <<wire[1].to[1], wire[1].to[2]>>
  BY <1>2 DEF Telling, Tos
<1>4. IsAt(wire[1].to) /\ Expects(At(wire[1].to), wire[1].m)
  BY <1>2 DEF IInv, TalkInv
<1>5. wire[1].to[2] \in 1 .. Len(frames[wire[1].to[1]])
  BY <1>4 DEF IsAt
<1>6. frames[wire[1].to[1]] # <<>>
  BY <1>1, <1>3, <1>5
<1>7. ~\E i \in 1 .. 1 - 1 : wire[i].to = wire[1].to
  OBVIOUS
<1>8. At(wire[1].to).pc = "wait" /\ At(wire[1].to).fn = "prepare" => wire[1].m # "ready"
  BY <1>2, <1>7 DEF IInv, TalkInv
<1> QED BY <1>2, <1>3, <1>4, <1>5, <1>6, <1>8 DEF At

\* The call on top reads the message it waits for.
LEMMA TopHears ==
  ASSUME IInv, wire # <<>>, NEW t \in Tasks, wire[1].to = <<t, Depth(t)>>, frames[t] # <<>>, Top(t).pc = "wait"
  PROVE  Hears(t, Depth(t), wire[1], AfterMessage(frames[t], wire[1]))
<1> USE DEF IInv
<1> DEFINE m == wire[1]
           fs == AfterMessage(frames[t], m)
<1>1. /\ frames[t] \in Seq(FrameSet) /\ Depth(t) = Len(frames[t]) /\ Depth(t) \in Nat /\ Top(t) = frames[t][Depth(t)]
      /\ Top(t) \in FrameSet /\ FrameOk(Top(t)) /\ Depth(t) \in 1 .. Len(frames[t])
  BY TopIs
<1>2. m.to # Nobody
  BY Somebody
<1>3. m \in Telling /\ Expects(Top(t), m.m) /\ (Top(t).fn = "prepare" => m.m # "ready")
  <2>1. m.to[1] = t /\ m.to[2] = Depth(t)
    OBVIOUS
  <2>2. /\ m \in Telling
        /\ LET f == frames[m.to[1]][m.to[2]] IN
             /\ Expects(f, m.m)
             /\ f.pc = "wait" /\ f.fn = "prepare" => m.m # "ready"
    BY <1>2, FirstIs
  <2> QED BY <1>1, <2>1, <2>2
<1> HIDE DEF m
<1>4. m.m \in Answers(Top(t).fn)
  BY <1>3 DEF Expects
<1>5. PICK g : Turns(Top(t), g, m) /\ Extends(t, g, fs)
  BY <1>3, <1>4, ReadsIs
<1>6. Heard(Top(t), g, m)
  BY <1>1, <1>3, <1>4, <1>5, TurnsHeard
<1> HIDE DEF fs
<1>7. /\ fs \in Seq(FrameSet) /\ Len(fs) \in {Depth(t), Depth(t) + 1}
      /\ fs[Depth(t)] = g
      /\ \A e \in 1 .. Len(frames[t]) : e # Depth(t) => fs[e] = frames[t][e]
      /\ \A e \in 1 .. Len(fs) : \/ e \in 1 .. Len(frames[t])
                                 \/ /\ e = Depth(t) + 1 /\ Calls(g, fs[e]) /\ FrameOk(fs[e])
                                    /\ fs[e].stmt = 0 /\ fs[e].ver = 0 /\ fs[e].chan = 0
      /\ StackOk(fs)
  BY <1>5, ExtendsIs
<1>8. ASSUME NEW e \in 1 .. Len(fs), e \notin 1 .. Len(frames[t])
      PROVE  fs[e].fn # "prepare" /\ fs[e].stmt = 0 /\ fs[e].chan = 0 /\ fs[e].ver = 0
  <2>1. Calls(g, fs[e]) /\ fs[e].stmt = 0 /\ fs[e].ver = 0 /\ fs[e].chan = 0
    BY <1>7, <1>8
  <2>2. ~Unsent(g)
    BY <1>6 DEF Heard
  <2>3. fs[e].fn # "prepare"
    BY <2>1, <2>2 DEF Calls, Unsent
  <2> QED BY <2>1, <2>3
<1>9. \A e \in 1 .. Len(frames[t]) : e \in 1 .. Len(fs)
  BY <1>1, <1>7
<1>10. \A e \in 1 .. Len(frames[t]) : IF e = Depth(t) THEN Heard(frames[t][e], fs[e], m) ELSE fs[e] = frames[t][e]
  BY <1>1, <1>6, <1>7
<1> QED BY <1>7, <1>8, <1>9, <1>10 DEF Hears, m, fs

\* A call that does not read has one more message in its channel.
LEMMA ChanHears ==
  ASSUME IInv, NEW t \in Tasks, NEW d \in 1 .. Len(frames[t]), NEW m \in Telling,
         Expects(frames[t][d], m.m), ~(d = Depth(t) /\ Top(t).pc = "wait")
  PROVE  Hears(t, d, m, [frames[t] EXCEPT ![d] = [frames[t][d] EXCEPT !.chan = frames[t][d].chan + 1]])
<1> USE DEF IInv
<1> DEFINE f == frames[t][d]
           g == [f EXCEPT !.chan = f.chan + 1]
           fs == [frames[t] EXCEPT ![d] = g]
<1>1. frames[t] \in Seq(FrameSet) /\ StackOk(frames[t]) /\ Len(frames[t]) \in Nat
  BY DEF TypeOK, StackInv
<1>2. f \in FrameSet /\ FrameOk(f)
  BY <1>1 DEF StackOk
<1>3. f.pc # "wait"
  <2>1. CASE d = Depth(t)
    BY <2>1 DEF Top
  <2>2. CASE d # Depth(t)
    <3>1. d < Len(frames[t])
      BY <1>1, <2>2 DEF Depth
    <3>2. Calls(f, frames[t][d + 1])
      BY <1>1, <3>1 DEF StackOk
    <3> QED BY <3>2 DEF Calls
  <2> QED BY <2>1, <2>2
<1>4. ~Unsent(f)
  BY <1>3 DEF Expects, Unsent
<1>5. /\ g \in FrameSet /\ g.fn = f.fn /\ g.arg = f.arg /\ g.pc = f.pc /\ g.stmt = f.stmt /\ g.chan = f.chan + 1
      /\ g.todo = f.todo /\ g.ver = f.ver /\ g.stale = f.stale
  BY <1>2 DEF FrameSet
<1> HIDE DEF f, g
<1>6. FrameOk(g)
  BY <1>2, <1>5 DEF FrameOk
<1>7. Heard(f, g, m)
  BY <1>3, <1>4, <1>5 DEF Heard, Expects, Unsent
<1>8. /\ fs \in Seq(FrameSet) /\ Len(fs) = Len(frames[t]) /\ fs[d] = g
      /\ \A e \in 1 .. Len(frames[t]) : e # d => fs[e] = frames[t][e]
  BY <1>1, <1>5, SetIs
<1> HIDE DEF fs
<1>9. StackOk(fs)
  <2>1. \A e \in 1 .. Len(fs) : FrameOk(fs[e])
    BY <1>1, <1>6, <1>8 DEF StackOk
  <2>2. \A e \in 1 .. Len(fs) : /\ fs[e].fn = frames[t][e].fn /\ fs[e].pc = frames[t][e].pc
                                 /\ fs[e].stmt = frames[t][e].stmt
    BY <1>5, <1>8 DEF f
  <2>3. fs # <<>> => frames[t] # <<>> /\ 1 \in 1 .. Len(fs)
    BY <1>1, <1>8
  <2>4. fs # <<>> => fs[1].fn \notin Lookups
    BY <1>1, <2>2, <2>3 DEF StackOk
  <2>5. ASSUME NEW e \in 1 .. Len(fs), e < Len(fs) PROVE Calls(fs[e], fs[e + 1])
    <3>1. e + 1 \in 1 .. Len(fs)
      BY <1>1, <1>8, <2>5
    <3>2. Calls(frames[t][e], frames[t][e + 1])
      BY <1>1, <1>8, <2>5 DEF StackOk
    <3> QED BY <2>2, <3>1, <3>2 DEF Calls
  <2> QED BY <2>1, <2>4, <2>5 DEF StackOk
<1>10. \A e \in 1 .. Len(frames[t]) :
         /\ e \in 1 .. Len(fs)
         /\ IF e = d THEN Heard(frames[t][e], fs[e], m) ELSE fs[e] = frames[t][e]
  BY <1>7, <1>8 DEF f
<1> QED BY <1>8, <1>9, <1>10 DEF Hears, fs, g, f

\* A delivery keeps the invariant.
LEMMA StepDeliver ==
  ASSUME IInv, Deliver PROVE IInv' /\ (ChanInv => ChanInv')
<1> DEFINE t == wire[1].to[1]
           d == wire[1].to[2]
<1>1. /\ wire # <<>> /\ wire' = Tail(wire)
      /\ UNCHANGED <<handle, slot, types, nextId, queue, lost, prepared, version, orphans, late>>
  BY DEF Deliver, serverVars, cacheVars
<1>2. wire \in Seq(Telling) /\ Head(wire) = wire[1]
  BY <1>1 DEF IInv, TypeOK
<1>3. CASE wire[1].to = Nobody /\ UNCHANGED frames
  <2>1. \A u \in Tasks : \A e \in 1 .. Len(frames[u]) : <<u, e>> # wire[1].to
    BY <1>3, Somebody
  <2>2. frames' \in [Tasks -> Seq(FrameSet)] /\ StackInv'
    BY <1>3 DEF IInv, TypeOK, StackInv, StackOk
  <2>3. Delivered
    BY <1>1, <1>3, <2>1, <2>2 DEF Delivered
  <2> QED BY <2>3, DeliveredKeeps
<1>4. CASE wire[1].to # Nobody
  <2>1. /\ wire[1] \in Telling /\ t \in Tasks /\ d \in 1 .. Len(frames[t])
        /\ wire[1].to = <<t, d>> /\ frames[t] # <<>> /\ Expects(frames[t][d], wire[1].m)
    BY <1>1, <1>4, FirstIs
  <2>2. CASE /\ d = Depth(t) /\ Top(t).pc = "wait"
             /\ frames' = [frames EXCEPT ![t] = AfterMessage(frames[t], wire[1])]
    <3>1. wire[1].to = <<t, Depth(t)>> /\ Top(t).pc = "wait" /\ t \in Tasks /\ frames[t] # <<>>
      BY <2>1, <2>2
    <3>2. Hears(t, d, wire[1], AfterMessage(frames[t], wire[1]))
      <4> HIDE DEF t, d
      <4>1. Hears(t, Depth(t), wire[1], AfterMessage(frames[t], wire[1]))
        BY <1>1, <3>1, TopHears
      <4> QED BY <4>1, <2>2
    <3> HIDE DEF t, d
    <3>3. Delivered
      BY <1>1, <2>1, <2>2, <3>2, HearsDelivered
    <3> QED BY <3>3, DeliveredKeeps
  <2>3. CASE /\ ~(d = Depth(t) /\ Top(t).pc = "wait")
             /\ frames' = [frames EXCEPT ![t] = [frames[t] EXCEPT ![d] = [frames[t][d] EXCEPT !.chan = frames[t][d].chan + 1]]]
    <3> HIDE DEF t, d
    <3>1. Hears(t, d, wire[1], [frames[t] EXCEPT ![d] = [frames[t][d] EXCEPT !.chan = frames[t][d].chan + 1]])
      BY <2>1, <2>3, ChanHears
    <3>2. Delivered
      BY <1>1, <2>1, <2>3, <3>1, HearsDelivered
    <3> QED BY <3>2, DeliveredKeeps
  <2>4. \/ /\ d = Depth(t) /\ Top(t).pc = "wait"
           /\ frames' = [frames EXCEPT ![t] = AfterMessage(frames[t], wire[1])]
        \/ /\ ~(d = Depth(t) /\ Top(t).pc = "wait")
           /\ frames' = [frames EXCEPT ![t][d].chan = frames[t][d].chan + 1]
    BY <1>2, <1>4, <2>1 DEF Deliver
  <2>5. [frames EXCEPT ![t][d].chan = frames[t][d].chan + 1]
          = [frames EXCEPT ![t] = [frames[t] EXCEPT ![d] = [frames[t][d] EXCEPT !.chan = frames[t][d].chan + 1]]]
    OBVIOUS
  <2> QED BY <2>2, <2>3, <2>4, <2>5
<1> QED BY <1>2, <1>3, <1>4 DEF Deliver

-----------------------------------------------------------------------------
(***************************************************************************)
(* The theorems.                                                           *)
(***************************************************************************)

\* At first there are no calls, requests, messages or statements.
LEMMA StatementsInit ==
  ASSUME Init PROVE IInv /\ ChanInv
<1> USE DEF Init
<1>1. frames = [t \in Tasks |-> <<>>] /\ handle = [t \in Tasks |-> 0] /\ slot = [s \in Slots |-> 0]
  OBVIOUS
<1>2. TypeOK
  <2>1. <<>> \in Seq(FrameSet) /\ <<>> \in Seq(Asking) /\ <<>> \in Seq(Telling)
    OBVIOUS
  <2>2. frames \in [Tasks -> Seq(FrameSet)]
    BY <1>1, <2>1
  <2>3. handle \in [Tasks -> Nat] /\ slot \in [Slots -> Nat] /\ types \in [Types -> Nat]
    OBVIOUS
  <2>4. queue \in Seq(Asking) /\ wire \in Seq(Telling)
    BY <2>1
  <2>5. nextId \in Nat \ {0} /\ version \in Nat
    OBVIOUS
  <2>6. lost = FALSE
    OBVIOUS
  <2>7. lost \in BOOLEAN /\ (lost => queue = <<>> /\ wire = <<>>)
    BY <2>6
  <2> QED BY <2>2, <2>3, <2>4, <2>5, <2>7 DEF TypeOK
<1>3. \A t \in Tasks : frames[t] = <<>> /\ Len(frames[t]) = 0 /\ 1 .. Len(frames[t]) = {}
  BY <1>1
<1>4. 1 .. Len(queue) = {} /\ 1 .. Len(wire) = {}
  OBVIOUS
<1>5. StackInv
  BY <1>3 DEF StackInv, StackOk
<1>6. TalkInv
  BY <1>4 DEF TalkInv
<1>7. HeldNow = {}
  <2>1. ASSUME NEW s \in HeldNow PROVE FALSE
    <3>1. frames \in [Tasks -> Seq(FrameSet)]
      BY <1>2 DEF TypeOK
    <3>2. IsNamed(frames, slot, handle, s)
      BY <2>1, <3>1, HeldIs DEF HeldNow
    <3> QED BY <1>1, <1>3, <3>2 DEF IsNamed
  <2> QED BY <2>1
<1>8. MadeInv /\ MakingInv
  BY <1>3 DEF MadeInv, MakingInv
<1>9. HeldInv /\ QueueInv
  BY <1>4, <1>7 DEF HeldInv, QueueInv
<1>10. ServerInv
  BY DEF ServerInv
<1>11. FreshInv
  BY <1>3, <1>4 DEF FreshInv, FreshAfterClear
<1>12. ChanInv
  BY <1>3, <1>4 DEF ChanInv
<1> QED BY <1>2, <1>5, <1>6, <1>8, <1>9, <1>10, <1>11, <1>12 DEF IInv, StmtInv

\* A step of something else changes none of it.
LEMMA StatementsStutter ==
  ASSUME IInv, UNCHANGED vars PROVE IInv' /\ (ChanInv => ChanInv')
<1>1. /\ UNCHANGED <<frames, handle, slot, types, nextId, queue, wire, lost>>
      /\ UNCHANGED <<prepared, version, orphans, late>>
  BY DEF vars, serverVars, cacheVars
<1>2. TypeOK'
  BY <1>1 DEF IInv, TypeOK
<1>3. StackInv'
  BY <1>1 DEF IInv, StackInv, StackOk
<1>4. TalkInv'
  BY <1>1 DEF IInv, TalkInv, IsAt, At
<1>5. HeldNow' = HeldNow /\ \A s : (Made(s)' <=> Made(s)) /\ (Closing(s)' <=> Closing(s))
  BY <1>1 DEF HeldNow, Held, Clones, Made, Closing
<1>6. StmtInv'
  BY <1>1, <1>5 DEF IInv, StmtInv, MadeInv, MakingInv, HeldInv, QueueInv, ServerInv
<1>7. FreshInv'
  BY <1>1 DEF IInv, FreshInv, FreshAfterClear, At
<1>8. ChanInv => ChanInv'
  BY <1>1 DEF ChanInv, At
<1> QED BY <1>2, <1>3, <1>4, <1>6, <1>7, <1>8 DEF IInv

\* Every step keeps the invariant.
LEMMA StatementsNext ==
  ASSUME IInv, [Next]_vars PROVE IInv' /\ (TypedRows = 0 /\ ChanInv => ChanInv')
<1>1. CASE UNCHANGED vars
  BY <1>1, StatementsStutter
<1>2. CASE \E t \in Tasks : Prepare(t) \/ Execute(t) \/ QueryTyped(t) \/ DropStatement(t) \/ Cancel(t) \/ Poll(t)
  BY <1>2, StepTask
<1>3. CASE ClearTypeCache
  BY <1>3, StepClear
<1>4. CASE Deliver
  BY <1>4, StepDeliver
<1>5. CASE Serve
  BY <1>5, StepServe
<1>6. CASE Lose
  BY <1>6, StepLose
<1> QED BY <1>1, <1>2, <1>3, <1>4, <1>5, <1>6 DEF Next

\* The invariant holds of every behaviour.
LEMMA StatementsInvariant == Spec => []IInv
<1>1. Init => IInv
  BY StatementsInit
<1>2. IInv /\ [Next]_vars => IInv'
  BY StatementsNext
<1> QED BY <1>1, <1>2, PTL DEF Spec

\* Every variable keeps to its type, and every call stack is one that the
\* functions of prepare.rs, query.rs and client.rs build.
THEOREM StatementsType == Spec => []TypeOK
<1>1. IInv => TypeOK
  BY DEF IInv
<1> QED BY <1>1, StatementsInvariant, PTL

\* A Bind finds its statement: the clones that Statement's Arc counts keep the
\* Close of a replaced or dropped Statement behind the last use of it, whatever
\* the tasks, the cache and lost or cancelled calls do (Drop for StatementInner).
THEOREM StatementsExist == Spec => []StatementExists
<1>1. IInv => StatementExists
  <2> SUFFICES ASSUME IInv, queue # <<>>, Head(queue).op = "query" PROVE Head(queue).stmt \in prepared
    BY DEF StatementExists
  <2>1. queue \in Seq(Asking)
    BY DEF IInv, TypeOK
  <2>2. 1 \in 1 .. Len(queue) /\ Head(queue) = queue[1]
    BY <2>1
  <2> QED BY <2>2 DEF IInv, StmtInv, QueueInv
<1> QED BY <1>1, StatementsInvariant, PTL

\* Nothing is left at the server but what the application or the cache holds or
\* a prepare gave up after its Parse, whichever tasks race to fill the cache.
THEOREM StatementsDontLeak == Spec => []NoStatementLeak
<1>1. IInv => NoStatementLeak
  <2> SUFFICES ASSUME IInv, \A t \in Tasks : frames[t] = <<>>, queue = <<>>, ~lost
               PROVE  /\ HeldNow \subseteq prepared
                      /\ prepared \subseteq HeldNow \cup orphans
    BY DEF NoStatementLeak, HeldNow
  <2>1. \A t \in Tasks : 1 .. Len(frames[t]) = {}
    OBVIOUS
  <2>2. 1 .. Len(queue) = {}
    OBVIOUS
  <2>3. \A s : ~Made(s) /\ ~Closing(s)
    BY <2>1, <2>2 DEF Made, Closing
  <2>4. HeldNow \subseteq prepared
    BY DEF IInv, StmtInv, HeldInv
  <2>5. prepared \subseteq HeldNow \cup orphans
    BY <2>3 DEF IInv, StmtInv, ServerInv
  <2> QED BY <2>4, <2>5
<1> QED BY <1>1, StatementsInvariant, PTL

\* After clear_type_cache no type of the old definitions is in the cache, except
\* one that a lookup already in progress at that moment puts there.
THEOREM StatementsFresh == Spec => []FreshAfterClear
<1>1. IInv => FreshAfterClear
  BY DEF IInv, FreshInv
<1> QED BY <1>1, StatementsInvariant, PTL

\* When a query_typed returns no rows, an inner lookup is never stopped by the
\* unread Responses of its caller: what may still come for a caller fits into
\* its channel, mpsc::channel(1) and its sender.  With rows it may be: query_typed
\* looks up the types of its columns before it reads them.
THEOREM StatementsNeverBlocked ==
  ASSUME TypedRows = 0 PROVE Spec => []NeverBlockedByCaller
<1>1. Init => IInv /\ ChanInv
  BY StatementsInit
<1>2. (IInv /\ ChanInv) /\ [Next]_vars => (IInv /\ ChanInv)'
  BY StatementsNext
<1>3. IInv /\ ChanInv => NeverBlockedByCaller
  <2> DEFINE t == wire[1].to[1]
             d == wire[1].to[2]
             f == frames[t][d]
  <2> SUFFICES ASSUME IInv, ChanInv, wire # <<>>, Head(wire).to # Nobody,
                      Head(wire).to[2] < Depth(Head(wire).to[1])
               PROVE  frames[Head(wire).to[1]][Head(wire).to[2]].chan < ChanCap
    BY DEF NeverBlockedByCaller
  <2>1. wire \in Seq(Telling) /\ frames \in [Tasks -> Seq(FrameSet)]
    BY DEF IInv, TypeOK
  <2>2. Head(wire) = wire[1] /\ 1 \in 1 .. Len(wire)
    BY <2>1
  <2>3. wire[1].to # Nobody /\ d < Depth(t)
    BY <2>2
  <2>4. t \in Tasks /\ d \in 1 .. Len(frames[t]) /\ Expects(f, wire[1].m) /\ wire[1] \in Telling
    BY <2>3, FirstIs
  <2>5. f.pc \in {"types", "called"}
    <3>1. StackOk(frames[t]) /\ d < Len(frames[t])
      BY <2>3, <2>4 DEF IInv, StackInv, Depth
    <3>2. Calls(f, frames[t][d + 1])
      BY <2>4, <3>1 DEF StackOk
    <3> QED BY <3>2 DEF Calls
  <2>6. /\ wire[1].m = "complete" => f.chan = 0
        /\ wire[1].m = "ready" => f.chan <= 1
        /\ wire[1].m = "row" => f.fn # "typed"
    BY <2>2, <2>3, <2>5 DEF ChanInv, At
  <2>7. f.chan \in Nat
    <3>1. f \in FrameSet
      BY <2>1, <2>4
    <3> QED BY <3>1 DEF FrameSet
  <2>8. wire[1].m \in {"complete", "ready"}
    BY <2>4, <2>5, <2>6 DEF Expects
  <2>9. f.chan < ChanCap
    <3> HIDE DEF f
    <3> QED BY <2>6, <2>7, <2>8 DEF ChanCap
  <2> QED BY <2>2, <2>9
<1> QED BY <1>1, <1>2, <1>3, PTL DEF Spec
=============================================================================
