------------------------- MODULE TransactionProofs -------------------------
(***************************************************************************)
(* What Transaction promises for any number of handles, writes and queued  *)
(* queries.  TxInv says where the server will stand once it has executed   *)
(* the queue: inside a transaction as long as a handle is open, outside of *)
(* any once there is none.  SpInv says which savepoints it has, and what   *)
(* of the transaction is about to be discarded.  WholeInv says where the   *)
(* writes are that succeeded, and what a commit has done.                  *)
(***************************************************************************)
EXTENDS Transaction, FiniteSetTheorems, TLAPS

Ops     == {"START", "COMMIT", "ROLLBACK", "SAVEPOINT", "RELEASE", "ROLLBACK TO", "WRITE"}
Enders  == {"COMMIT", "ROLLBACK"}
Queries == [op : Ops, name : Int]
Calls   == {"none", "start", "savepoint", "write", "commit", "rollback"}
Fates   == {"none", "open", "committed", "rolledback"}

\* The types of what decides where the server stands.
TxType ==
  /\ handles \in Seq(Handle) /\ savepoint \in [Handle -> Int] /\ fate \in [Handle -> Fates]
  /\ call \in Calls /\ answer \in {"none", "ok", "err"}
  /\ queue \in Seq(Queries)
  /\ tx \in {"idle", "open", "aborted"} /\ lost \in BOOLEAN

\* An answer is that of the last query, and nothing is left after a loss.
AnswerInv ==
  /\ answer # "none" => call # "none" /\ queue = <<>>
  /\ call # "none" /\ answer = "none" => queue # <<>>
  /\ lost => queue = <<>> /\ tx = "idle"

\* Handles are used one after the other; the outermost open one is no savepoint,
\* the others are.
NamesInv ==
  /\ \E k \in 0 .. MaxHandles : \A h \in Handle : fate[h] # "none" <=> h <= k
  /\ \A i \in 1 .. Len(handles) :
       /\ fate[handles[i]] = "open"
       /\ savepoint[handles[i]] = NoName <=> i = 1
       /\ \A j \in 1 .. Len(handles) : i # j => handles[i] # handles[j]
  /\ \A h \in Handle : fate[h] = "none" /\ savepoint[h] # NoName =>
       call = "savepoint" /\ h = Fresh
  /\ call = "savepoint" =>
       handles # <<>> /\ Fresh \in Handle /\ savepoint[Fresh] # NoName
  /\ call = "start" => handles = <<>> /\ Fresh \in Handle

\* When query k is executed, the transaction that is open now still is.
Inside(k) == tx # "idle" /\ \A i \in 1 .. k - 1 : queue[i].op \notin Enders

\* The first n queries leave no transaction open, nor does what is open now.
Ends(n) ==
  /\ tx # "idle" => \E j \in 1 .. n : queue[j].op \in Enders
  /\ \A i \in 1 .. n : queue[i].op = "START" =>
       \E j \in i + 1 .. n : queue[j].op \in Enders

\* Where the server stands, now and once it has executed the queue.
PlaceInv ==
  /\ \A i \in 1 .. Len(queue) : queue[i].op = "WRITE" => Inside(i)
  /\ handles # <<>> /\ ~lost => Inside(Len(queue) + 1)
  /\ handles = <<>> /\ call # "start" => Ends(Len(queue))
  /\ call = "start" =>
       CASE answer = "none" -> queue[Len(queue)].op = "START" /\ Ends(Len(queue) - 1)
         [] answer = "ok"   -> lost \/ tx # "idle"
         [] OTHER           -> TRUE

TxInv == TxType /\ AnswerInv /\ NamesInv /\ PlaceInv /\ stray = {}

-----------------------------------------------------------------------------
(***************************************************************************)
(* The queue.                                                              *)
(***************************************************************************)
LEMMA QueueFacts ==
  ASSUME TxType
  PROVE  /\ Len(queue) \in Nat /\ Len(handles) \in Nat
         /\ \A i \in 1 .. Len(queue) : queue[i] \in Queries
         /\ queue = <<>> <=> Len(queue) = 0
         /\ handles = <<>> <=> Len(handles) = 0
         /\ \A i \in 1 .. Len(handles) : handles[i] \in Handle
BY DEF TxType

\* One more query at the end.
LEMMA Appended ==
  ASSUME TxType, NEW q \in Queries, queue' = Append(queue, q)
  PROVE  /\ Len(queue') = Len(queue) + 1 /\ queue'[Len(queue) + 1] = q
         /\ \A i \in 1 .. Len(queue) : queue'[i] = queue[i]
         /\ queue' \in Seq(Queries) /\ queue' # <<>>
<1>1. queue \in Seq(Queries)
  BY DEF TxType
<1> QED BY <1>1

\* It is executed where those before it leave the server.
LEMMA AppendInside ==
  ASSUME TxType, NEW q \in Queries, queue' = Append(queue, q), tx' = tx
  PROVE  /\ \A k \in 1 .. Len(queue) + 1 : Inside(k) => Inside(k)'
         /\ Inside(Len(queue) + 1) /\ q.op \notin Enders => Inside(Len(queue) + 1)'
<1>1. /\ Len(queue) \in Nat /\ queue'[Len(queue) + 1] = q
      /\ \A i \in 1 .. Len(queue) : queue'[i] = queue[i]
  BY QueueFacts, Appended
<1>2. ASSUME NEW k \in 1 .. Len(queue) + 1, Inside(k) PROVE Inside(k)'
  <2>1. \A i \in 1 .. k - 1 : i \in 1 .. Len(queue)
    BY <1>1
  <2> QED BY <1>1, <1>2, <2>1 DEF Inside
<1>3. ASSUME Inside(Len(queue) + 1), q.op \notin Enders PROVE Inside(Len(queue) + 1)'
  <2>1. \A i \in 1 .. Len(queue) : queue[i].op \notin Enders
    BY <1>1, <1>3 DEF Inside
  <2>2. \A i \in 1 .. Len(queue) + 1 : queue'[i].op \notin Enders
    BY <1>1, <1>3, <2>1
  <2>3. (Len(queue') + 1) - 1 = Len(queue) + 1
    BY <1>1, Appended
  <2> QED BY <1>3, <2>2, <2>3 DEF Inside
<1> QED BY <1>2, <1>3

\* After a ROLLBACK or a COMMIT no transaction is open.
LEMMA AppendEnds ==
  ASSUME TxType, NEW q \in Queries, queue' = Append(queue, q), tx' = tx
  PROVE  /\ q.op \in Enders => Ends(Len(queue))'
         /\ Ends(Len(queue)) => Ends(Len(queue) - 1)'
<1>1. /\ Len(queue) \in Nat /\ queue'[Len(queue) + 1] = q /\ Len(queue') = Len(queue) + 1
      /\ \A i \in 1 .. Len(queue) : queue'[i] = queue[i]
  BY QueueFacts, Appended
<1>2. ASSUME q.op \in Enders PROVE Ends(Len(queue))'
  <2>1. Len(queue') \in 1 .. Len(queue') /\ queue'[Len(queue')].op \in Enders
    BY <1>1, <1>2
  <2>2. \A i \in 1 .. Len(queue') : queue'[i].op = "START" => Len(queue') \in i + 1 .. Len(queue')
    <3> SUFFICES ASSUME NEW i \in 1 .. Len(queue'), queue'[i].op = "START"
                 PROVE  Len(queue') \in i + 1 .. Len(queue')
      OBVIOUS
    <3>1. i # Len(queue')
      BY <2>1 DEF Enders
    <3> QED BY <1>1, <3>1
  <2> QED BY <2>1, <2>2 DEF Ends
<1>3. ASSUME Ends(Len(queue)) PROVE Ends(Len(queue) - 1)'
  <2>1. Len(queue') - 1 = Len(queue)
    BY <1>1
  <2>2. \A i \in 1 .. Len(queue) : \A j \in i + 1 .. Len(queue) : j \in 1 .. Len(queue)
    BY <1>1
  <2>3. PICK n \in Nat : n = Len(queue)
    BY <1>1
  <2>4. Ends(n)'
    BY <1>1, <1>3, <2>2, <2>3 DEF Ends
  <2> QED BY <2>1, <2>3, <2>4
<1> QED BY <1>2, <1>3

\* The queries before the last say where a query is executed: nothing changes
\* for them by one more.
LEMMA AppendPlace ==
  ASSUME TxType, PlaceInv, NEW q \in Queries, queue' = Append(queue, q), tx' = tx,
         q.op = "WRITE" => Inside(Len(queue) + 1)
  PROVE  \A i \in 1 .. Len(queue') : queue'[i].op = "WRITE" => Inside(i)'
<1>1. /\ Len(queue) \in Nat /\ queue'[Len(queue) + 1] = q /\ Len(queue') = Len(queue) + 1
      /\ \A i \in 1 .. Len(queue) : queue'[i] = queue[i]
  BY QueueFacts, Appended
<1>2. ASSUME NEW i \in 1 .. Len(queue') PROVE i \in 1 .. Len(queue) + 1 /\ (i = Len(queue) + 1 \/ i \in 1 .. Len(queue))
  BY <1>1
<1>3. ASSUME NEW i \in 1 .. Len(queue'), queue'[i].op = "WRITE" PROVE Inside(i)
  BY <1>1, <1>2, <1>3 DEF PlaceInv
<1> QED BY <1>2, <1>3, AppendInside

-----------------------------------------------------------------------------
(***************************************************************************)
(* The handles.                                                            *)
(***************************************************************************)

\* Handles are numbered in the order they come into use.
LEMMA FreshNext ==
  ASSUME TxType, NamesInv
  PROVE  /\ Fresh \in Nat \ {0}
         /\ \A h \in Handle : fate[h] # "none" <=> h < Fresh
<1>1. PICK k \in 0 .. MaxHandles : \A h \in Handle : fate[h] # "none" <=> h <= k
  BY DEF NamesInv
<1>2. {h \in Handle : fate[h] # "none"} = 1 .. k
  BY <1>1, TransactionAssumption DEF Handle
<1>3. Cardinality(1 .. k) = k
  BY <1>1, TransactionAssumption, FS_Interval
<1>4. Fresh = k + 1
  BY <1>2, <1>3 DEF Fresh
<1> QED BY <1>1, <1>4, TransactionAssumption DEF Handle

\* Names stay as they are while no handle is taken into use.
LEMMA SameFresh ==
  ASSUME TxType, TxType', \A h \in Handle : fate'[h] = "none" <=> fate[h] = "none"
  PROVE  Fresh' = Fresh
<1>1. {h \in Handle : fate'[h] # "none"} = {h \in Handle : fate[h] # "none"}
  OBVIOUS
<1> QED BY <1>1 DEF Fresh

\* A sequence without its last element, as when the innermost handle is closed.
LEMMA FrontType ==
  ASSUME NEW S, NEW s \in Seq(S), Len(s) >= 1
  PROVE  /\ SubSeq(s, 1, Len(s) - 1) \in Seq(S) /\ Len(SubSeq(s, 1, Len(s) - 1)) = Len(s) - 1
         /\ \A i \in 1 .. Len(s) - 1 : SubSeq(s, 1, Len(s) - 1)[i] = s[i] /\ i \in 1 .. Len(s)
<1>1. PICK m \in Nat : m = Len(s) - 1
  OBVIOUS
<1>2. \A i \in 1 .. m : i \in 1 .. Len(s) /\ s[i] \in S
  BY <1>1
<1>3. SubSeq(s, 1, m) = [i \in 1 .. m |-> s[i]]
  BY <1>1
<1>4. SubSeq(s, 1, m) \in Seq(S) /\ Len(SubSeq(s, 1, m)) = m
  BY <1>2, <1>3
<1>5. \A i \in 1 .. m : SubSeq(s, 1, m)[i] = s[i]
  BY <1>3
<1> QED BY <1>1, <1>2, <1>4, <1>5

\* The innermost handle is the outermost exactly if it is no savepoint.
LEMMA TopFacts ==
  ASSUME TxType, NamesInv, handles # <<>>
  PROVE  /\ Len(handles) \in 1 .. Len(handles) /\ Top \in Handle /\ fate[Top] = "open"
         /\ savepoint[Top] = NoName <=> Len(handles) = 1
<1>1. Len(handles) \in 1 .. Len(handles)
  BY QueueFacts
<1>2. Top \in Handle
  BY <1>1, QueueFacts DEF Top
<1> QED BY <1>1, <1>2 DEF NamesInv, Top

-----------------------------------------------------------------------------
(***************************************************************************)
(* The application's steps.                                                *)
(***************************************************************************)

\* What awaiting the answer of a query does.
LEMMA AwaitFacts ==
  ASSUME TxType, AnswerInv, NEW op \in Calls \ {"none"}, NEW q \in Queries, Await(op, q)
  PROVE  /\ call = "none" /\ call' = op /\ answer = "none"
         /\ \/ lost /\ queue' = queue /\ answer' = "err" /\ Len(queue) = 0
            \/ ~lost /\ queue' = Append(queue, q) /\ answer' = "none"
         /\ queue' \in Seq(Queries) /\ answer' \in {"none", "ok", "err"}
<1>1. call = "none" /\ answer = "none"
  BY DEF Await, AnswerInv
<1>2. CASE lost
  <2>1. queue' = queue /\ answer' = "err" /\ Len(queue) = 0 /\ call' = op
    BY <1>2, QueueFacts DEF Await, AnswerInv
  <2> QED BY <1>1, <1>2, <2>1 DEF TxType
<1>3. CASE ~lost
  <2>1. queue' = Append(queue, q) /\ answer' = answer /\ call' = op
    BY <1>3 DEF Await
  <2> QED BY <1>1, <1>3, <2>1, Appended
<1> QED BY <1>2, <1>3 DEF TxType

\* What a query that nobody waits for does.
LEMMA PostFacts ==
  ASSUME TxType, AnswerInv, NEW q \in Queries, Post(q)
  PROVE  /\ \/ lost /\ queue' = queue /\ Len(queue) = 0
            \/ ~lost /\ queue' = Append(queue, q)
         /\ queue' \in Seq(Queries)
<1>1. CASE lost
  BY <1>1, QueueFacts DEF Post, AnswerInv, TxType
<1>2. CASE ~lost
  BY <1>2, Appended DEF Post
<1> QED BY <1>1, <1>2 DEF TxType

\* Nothing is where nothing is queued.
LEMMA LostPlace ==
  ASSUME TxType', lost', Len(queue') = 0, tx' = "idle", call' = "start" => answer' # "none"
  PROVE  PlaceInv'
<1>1. \A i \in 1 .. 0 : FALSE
  OBVIOUS
<1>2. Ends(Len(queue))'
  BY <1>1 DEF Ends
<1> QED BY <1>1, <1>2 DEF PlaceInv, TxType

\* Start keeps the invariant.
LEMMA StartStep == TxInv /\ Start => TxInv'
<1> SUFFICES ASSUME TxInv, Start PROVE TxInv'
  OBVIOUS
<1>0. TxType /\ AnswerInv /\ NamesInv /\ PlaceInv /\ stray = {}
  BY DEF TxInv
<1> DEFINE q == Q("START", NoName)
<1>1. q \in Queries /\ q.op = "START"
  BY DEF Q, Queries, Ops, NoName
<1>2. /\ handles = <<>> /\ Fresh \in Handle /\ Await("start", q)
      /\ UNCHANGED <<handles, savepoint, fate, lost, tx, stray>>
  BY DEF Start, serverVars
<1> HIDE DEF q
<1>3. /\ call = "none" /\ call' = "start" /\ answer = "none"
      /\ \/ lost /\ queue' = queue /\ answer' = "err" /\ Len(queue) = 0
         \/ ~lost /\ queue' = Append(queue, q) /\ answer' = "none"
      /\ queue' \in Seq(Queries) /\ answer' \in {"none", "ok", "err"}
  BY <1>0, <1>1, <1>2, AwaitFacts DEF Calls
<1>4. TxType'
  BY <1>0, <1>2, <1>3 DEF TxType, Calls
<1>5. AnswerInv'
  <2>1. CASE lost
    BY <1>0, <1>2, <1>3, <2>1 DEF AnswerInv
  <2>2. CASE ~lost
    BY <1>0, <1>1, <1>2, <1>3, <2>2, Appended DEF AnswerInv
  <2> QED BY <2>1, <2>2
<1>6. NamesInv'
  <2>1. Fresh' = Fresh
    BY <1>0, <1>2, <1>4, SameFresh
  <2>2. \A h \in Handle : fate[h] = "none" => savepoint[h] = NoName
    BY <1>0, <1>3 DEF NamesInv
  <2> QED BY <1>0, <1>2, <1>3, <2>1, <2>2 DEF NamesInv
<1>7. PlaceInv'
  <2>1. CASE lost
    BY <1>0, <1>2, <1>3, <1>4, <2>1, LostPlace DEF AnswerInv
  <2>2. CASE ~lost
    <3>1. queue' = Append(queue, q) /\ answer' = "none"
      BY <1>3, <2>2
    <3>2. \A i \in 1 .. Len(queue') : queue'[i].op = "WRITE" => Inside(i)'
      BY <1>0, <1>1, <1>2, <3>1, AppendPlace
    <3>3. Ends(Len(queue))
      BY <1>0, <1>2, <1>3 DEF PlaceInv
    <3>4. Ends(Len(queue) - 1)'
      BY <1>0, <1>1, <1>2, <3>1, <3>3, AppendEnds
    <3>5. queue'[Len(queue')].op = "START"
      BY <1>0, <1>1, <3>1, Appended
    <3> QED BY <1>2, <1>3, <3>1, <3>2, <3>4, <3>5 DEF PlaceInv
  <2> QED BY <2>1, <2>2
<1> QED BY <1>0, <1>2, <1>4, <1>5, <1>6, <1>7 DEF TxInv

\* A query through an open handle leaves the transaction open.
LEMMA ThroughHandle ==
  ASSUME TxType, AnswerInv, PlaceInv, TxType', NEW op \in {"write", "savepoint"},
         NEW q \in Queries, q.op \in {"WRITE", "SAVEPOINT"},
         Await(op, q), handles # <<>>, UNCHANGED <<handles, lost, tx>>
  PROVE  AnswerInv' /\ PlaceInv'
<1>1. /\ call = "none" /\ call' = op /\ answer = "none"
      /\ \/ lost /\ queue' = queue /\ answer' = "err" /\ Len(queue) = 0
         \/ ~lost /\ queue' = Append(queue, q) /\ answer' = "none"
  BY AwaitFacts DEF Calls
<1>2. CASE lost
  <2>1. AnswerInv'
    BY <1>1, <1>2 DEF AnswerInv
  <2>2. PlaceInv'
    BY <1>1, <1>2, LostPlace DEF AnswerInv
  <2> QED BY <2>1, <2>2
<1>3. CASE ~lost
  <2>1. queue' = Append(queue, q) /\ answer' = "none" /\ queue' # <<>>
    BY <1>1, <1>3, Appended
  <2>2. AnswerInv'
    BY <1>1, <1>3, <2>1 DEF AnswerInv
  <2>3. Inside(Len(queue) + 1)
    BY <1>3 DEF PlaceInv
  <2>4. \A i \in 1 .. Len(queue') : queue'[i].op = "WRITE" => Inside(i)'
    BY <2>1, <2>3, AppendPlace
  <2>5. Inside(Len(queue) + 1)'
    BY <2>1, <2>3, AppendInside DEF Enders
  <2> QED BY <1>1, <2>2, <2>4, <2>5 DEF PlaceInv
<1> QED BY <1>2, <1>3

\* Savepoint keeps the invariant.
LEMMA SavepointStep == ASSUME TxInv, NEW n \in Name, Savepoint(n) PROVE TxInv'
<1>0. TxType /\ AnswerInv /\ NamesInv /\ PlaceInv /\ stray = {}
  BY DEF TxInv
<1> DEFINE q == Q("SAVEPOINT", n)
<1>1. n \in Nat /\ n # NoName /\ q \in Queries /\ q.op = "SAVEPOINT"
  BY TransactionAssumption DEF Q, Queries, Ops, NoName, Name, Handle
<1>2. /\ handles # <<>> /\ Fresh \in Handle /\ Await("savepoint", q)
      /\ savepoint' = [savepoint EXCEPT ![Fresh] = n]
      /\ UNCHANGED <<handles, fate, lost, tx, stray>>
  BY DEF Savepoint, serverVars
<1> HIDE DEF q
<1>3. /\ call = "none" /\ call' = "savepoint"
      /\ queue' \in Seq(Queries) /\ answer' \in {"none", "ok", "err"}
  BY <1>0, <1>1, <1>2, AwaitFacts DEF Calls
<1>4. TxType'
  BY <1>0, <1>1, <1>2, <1>3 DEF TxType, Calls
<1>5. AnswerInv' /\ PlaceInv'
  BY <1>0, <1>1, <1>2, <1>4, ThroughHandle
<1>6. NamesInv'
  <2>1. Fresh' = Fresh
    BY <1>0, <1>2, <1>4, SameFresh
  <2>2. \A h \in Handle : fate[h] = "none" => savepoint[h] = NoName
    BY <1>0, <1>3 DEF NamesInv
  <2>3. fate[Fresh] = "none"
    BY <1>0, <1>2, FreshNext DEF Handle
  <2>4. /\ savepoint'[Fresh] = n
        /\ \A h \in Handle : h # Fresh => savepoint'[h] = savepoint[h]
    BY <1>0, <1>2 DEF TxType
  <2>5. \A i \in 1 .. Len(handles) : handles[i] # Fresh /\ handles[i] \in Handle
    BY <1>0, <2>3, QueueFacts DEF NamesInv
  <2> QED BY <1>0, <1>1, <1>2, <1>3, <2>1, <2>2, <2>4, <2>5 DEF NamesInv
<1> QED BY <1>0, <1>2, <1>4, <1>5, <1>6 DEF TxInv

\* WriteRow keeps the invariant.
LEMMA WriteRowStep == TxInv /\ WriteRow => TxInv'
<1> SUFFICES ASSUME TxInv, WriteRow PROVE TxInv'
  OBVIOUS
<1>0. TxType /\ AnswerInv /\ NamesInv /\ PlaceInv /\ stray = {}
  BY DEF TxInv
<1> DEFINE q == Q("WRITE", NewWrite)
<1>1. q \in Queries /\ q.op = "WRITE"
  BY TransactionAssumption DEF WriteRow, Q, Queries, Ops, Write
<1>2. /\ handles # <<>> /\ Await("write", q)
      /\ UNCHANGED <<handles, savepoint, fate, lost, tx, stray>>
  BY DEF WriteRow, serverVars
<1> HIDE DEF q
<1>3. /\ call = "none" /\ call' = "write"
      /\ queue' \in Seq(Queries) /\ answer' \in {"none", "ok", "err"}
  BY <1>0, <1>1, <1>2, AwaitFacts DEF Calls
<1>4. TxType'
  BY <1>0, <1>2, <1>3 DEF TxType, Calls
<1>5. AnswerInv' /\ PlaceInv'
  BY <1>0, <1>1, <1>2, <1>4, ThroughHandle
<1>6. Fresh' = Fresh
  BY <1>0, <1>2, <1>4, SameFresh
<1>7. NamesInv'
  BY <1>0, <1>2, <1>3, <1>6 DEF NamesInv
<1> QED BY <1>0, <1>2, <1>4, <1>5, <1>7 DEF TxInv

\* The innermost handle goes, with a query that ends the transaction exactly
\* if it is the outermost.
LEMMA Closing ==
  ASSUME TxInv, handles # <<>>, call = "none", NEW f \in {"committed", "rolledback"}, Close(f),
         NEW q \in Queries, q.op \notin {"START", "WRITE"},
         q.op \in Enders <=> savepoint[Top] = NoName,
         \/ lost /\ queue' = queue
         \/ ~lost /\ queue' = Append(queue, q),
         call' \in {"none", "commit", "rollback"},
         answer' \in {"none", "ok", "err"}, AnswerInv'
  PROVE  TxInv'
<1>0. TxType /\ AnswerInv /\ NamesInv /\ PlaceInv /\ stray = {}
  BY DEF TxInv
<1>1. /\ fate' = [fate EXCEPT ![Top] = f] /\ handles' = SubSeq(handles, 1, Len(handles) - 1)
      /\ UNCHANGED <<savepoint, lost, tx, stray>>
  BY DEF Close, serverVars
<1>2. /\ Len(handles) \in 1 .. Len(handles) /\ Top \in Handle /\ fate[Top] = "open"
      /\ savepoint[Top] = NoName <=> Len(handles) = 1
  BY <1>0, TopFacts
<1>3. /\ handles' \in Seq(Handle) /\ Len(handles') = Len(handles) - 1
      /\ \A i \in 1 .. Len(handles') : handles'[i] = handles[i] /\ i \in 1 .. Len(handles)
  <2>1. handles \in Seq(Handle) /\ Len(handles) >= 1
    BY <1>0, <1>2 DEF TxType
  <2> QED BY <1>1, <2>1, FrontType
<1>4. queue' \in Seq(Queries)
  BY <1>0, Appended DEF TxType
<1>5. TxType'
  BY <1>0, <1>1, <1>3, <1>4 DEF TxType, Calls, Fates
<1>6. NamesInv'
  <2>1. \A h \in Handle : fate'[h] = "none" <=> fate[h] = "none"
    BY <1>0, <1>1, <1>2 DEF TxType
  <2>2. Fresh' = Fresh
    BY <1>0, <1>5, <2>1, SameFresh
  <2>3. \A h \in Handle : fate[h] = "none" => savepoint[h] = NoName
    BY <1>0 DEF NamesInv
  <2>4. \A i \in 1 .. Len(handles') : fate'[handles'[i]] = "open"
    <3> SUFFICES ASSUME NEW i \in 1 .. Len(handles') PROVE fate'[handles'[i]] = "open"
      OBVIOUS
    <3>1. handles[i] \in Handle /\ handles[i] # Top
      <4>1. i \in 1 .. Len(handles) /\ i # Len(handles)
        BY <1>2, <1>3
      <4>2. handles[i] # handles[Len(handles)]
        BY <1>0, <1>2, <4>1 DEF NamesInv
      <4> QED BY <1>0, <4>1, <4>2, QueueFacts DEF Top
    <3> QED BY <1>0, <1>1, <1>2, <1>3, <3>1 DEF NamesInv, TxType
  <2>5. \A i \in 1 .. Len(handles') : savepoint'[handles'[i]] = NoName <=> i = 1
    BY <1>0, <1>1, <1>3 DEF NamesInv
  <2> QED BY <1>0, <1>1, <2>1, <2>2, <2>3, <2>4, <2>5 DEF NamesInv
<1>7. PlaceInv'
  <2>1. CASE lost
    BY <1>0, <1>1, <1>5, <2>1, QueueFacts, LostPlace DEF AnswerInv
  <2>2. CASE ~lost
    <3>1. queue' = Append(queue, q)
      BY <2>2
    <3>2. \A i \in 1 .. Len(queue') : queue'[i].op = "WRITE" => Inside(i)'
      BY <1>0, <1>1, <3>1, AppendPlace
    <3>3. CASE Len(handles) = 1
      <4>1. handles' = <<>>
        BY <1>3, <3>3
      <4>2. Ends(Len(queue))'
        BY <1>0, <1>1, <1>2, <3>1, <3>3, AppendEnds
      <4> QED BY <3>2, <4>1, <4>2 DEF PlaceInv
    <3>4. CASE Len(handles) # 1
      <4>1. handles' # <<>>
        BY <1>2, <1>3, <3>4
      <4>2. Inside(Len(queue) + 1)
        BY <1>0, <2>2 DEF PlaceInv
      <4>3. Inside(Len(queue) + 1)'
        BY <1>0, <1>1, <1>2, <3>1, <3>4, <4>2, AppendInside
      <4> QED BY <3>2, <4>1, <4>3 DEF PlaceInv
    <3> QED BY <3>3, <3>4
  <2> QED BY <2>1, <2>2
<1> QED BY <1>0, <1>1, <1>5, <1>6, <1>7 DEF TxInv

\* Commit, Rollback and DropTransaction keep the invariant.
LEMMA CommitStep == TxInv /\ Commit => TxInv'
<1> SUFFICES ASSUME TxInv, Commit PROVE TxInv'
  OBVIOUS
<1>0. TxType /\ AnswerInv /\ NamesInv
  BY DEF TxInv
<1> DEFINE q == CommitQuery
<1>1. handles # <<>> /\ Await("commit", q) /\ Close("committed") /\ UNCHANGED <<lost, tx>>
  BY DEF Commit, Close, serverVars
<1>2. Top \in Handle /\ savepoint[Top] \in Int
  BY <1>0, <1>1, TopFacts DEF TxType
<1>3. /\ q \in Queries /\ q.op \notin {"START", "WRITE"}
      /\ q.op \in Enders <=> savepoint[Top] = NoName
  BY <1>2 DEF CommitQuery, Q, Queries, Ops, Enders, NoName
<1> HIDE DEF q
<1>4. /\ call = "none" /\ call' = "commit" /\ answer' \in {"none", "ok", "err"}
      /\ \/ lost /\ queue' = queue /\ answer' = "err" /\ Len(queue) = 0
         \/ ~lost /\ queue' = Append(queue, q) /\ answer' = "none"
  BY <1>0, <1>1, <1>3, AwaitFacts DEF Calls
<1>5. AnswerInv'
  BY <1>0, <1>1, <1>3, <1>4, Appended DEF AnswerInv
<1> QED BY <1>1, <1>3, <1>4, <1>5, Closing

\* The query that rollback and the cleaner send starts and writes nothing, and ends
\* the transaction just when the handle is the outermost.
LEMMA RollbackQueryFacts ==
  ASSUME TxType, NamesInv, handles # <<>>
  PROVE  /\ RollbackQuery \in Queries /\ RollbackQuery.op \notin {"START", "WRITE"}
         /\ RollbackQuery.op \in Enders <=> savepoint[Top] = NoName
<1>1. Top \in Handle /\ savepoint[Top] \in Int
  BY TopFacts DEF TxType
<1> QED BY <1>1 DEF RollbackQuery, Q, Queries, Ops, Enders, NoName

\* Transaction::rollback keeps the type and history invariant.
LEMMA RollbackStep == TxInv /\ Rollback => TxInv'
<1> SUFFICES ASSUME TxInv, Rollback PROVE TxInv'
  OBVIOUS
<1>0. TxType /\ AnswerInv /\ NamesInv
  BY DEF TxInv
<1>1. handles # <<>> /\ Await("rollback", RollbackQuery) /\ Close("rolledback") /\ UNCHANGED <<lost, tx>>
  BY DEF Rollback, Close, serverVars
<1>3. /\ RollbackQuery \in Queries /\ RollbackQuery.op \notin {"START", "WRITE"}
      /\ RollbackQuery.op \in Enders <=> savepoint[Top] = NoName
  BY <1>0, <1>1, RollbackQueryFacts
<1>4. /\ call = "none" /\ call' = "rollback" /\ answer' \in {"none", "ok", "err"}
      /\ \/ lost /\ queue' = queue /\ answer' = "err" /\ Len(queue) = 0
         \/ ~lost /\ queue' = Append(queue, RollbackQuery) /\ answer' = "none"
  BY <1>0, <1>1, <1>3, AwaitFacts DEF Calls
<1>5. AnswerInv'
  BY <1>0, <1>1, <1>3, <1>4, Appended DEF AnswerInv
<1> QED BY <1>1, <1>3, <1>4, <1>5, Closing

\* Dropping a Transaction keeps the type and history invariant.
LEMMA DropTransactionStep == TxInv /\ DropTransaction => TxInv'
<1> SUFFICES ASSUME TxInv, DropTransaction PROVE TxInv'
  OBVIOUS
<1>0. TxType /\ AnswerInv /\ NamesInv
  BY DEF TxInv
<1>1. /\ handles # <<>> /\ call = "none" /\ Post(RollbackQuery) /\ Close("rolledback")
      /\ UNCHANGED <<lost, tx, call, answer>>
  BY DEF DropTransaction, Close, serverVars
<1>3. /\ RollbackQuery \in Queries /\ RollbackQuery.op \notin {"START", "WRITE"}
      /\ RollbackQuery.op \in Enders <=> savepoint[Top] = NoName
  BY <1>0, <1>1, RollbackQueryFacts
<1>4. \/ lost /\ queue' = queue /\ Len(queue) = 0
      \/ ~lost /\ queue' = Append(queue, RollbackQuery)
  BY <1>0, <1>1, <1>3, PostFacts
<1>5. AnswerInv'
  BY <1>0, <1>1, <1>4 DEF AnswerInv
<1> QED BY <1>0, <1>1, <1>3, <1>4, <1>5, Closing DEF TxType

\* A savepoint name that was taken and not used is forgotten again.
LEMMA NameBackType ==
  ASSUME NEW s \in [Handle -> Int], NEW h PROVE [s EXCEPT ![h] = NoName] \in [Handle -> Int]
<1>1. NoName \in Int
  BY DEF NoName
<1> QED BY <1>1

\* The name of a savepoint that was not made is taken back.
LEMMA NameBack ==
  ASSUME TxType, NamesInv, call' \in Calls \ {"start", "savepoint"}, TxType', UNCHANGED <<handles, fate>>,
         savepoint' = IF call = "savepoint" THEN [savepoint EXCEPT ![Fresh] = NoName] ELSE savepoint
  PROVE  NamesInv'
<1>1. CASE call = "savepoint"
  <2>1. Fresh \in Handle /\ fate[Fresh] = "none"
    BY <1>1, FreshNext DEF NamesInv, Handle
  <2>2. /\ savepoint'[Fresh] = NoName
        /\ \A h \in Handle : h # Fresh => savepoint'[h] = savepoint[h]
    BY <1>1, <2>1 DEF TxType
  <2>3. \A h \in Handle : fate[h] = "none" => savepoint'[h] = NoName
    BY <2>1, <2>2 DEF NamesInv
  <2>4. \A i \in 1 .. Len(handles) : handles[i] # Fresh /\ handles[i] \in Handle
    BY <2>1, QueueFacts DEF NamesInv
  <2> QED BY <2>2, <2>3, <2>4 DEF NamesInv
<1>2. CASE call # "savepoint"
  <2>1. \A h \in Handle : fate[h] = "none" => savepoint[h] = NoName
    BY <1>2 DEF NamesInv
  <2> QED BY <1>2, <2>1 DEF NamesInv
<1> QED BY <1>1, <1>2

\* After a start that failed or was given up, the ROLLBACK leaves nothing open.
LEMMA DropStartPlace ==
  ASSUME TxType, AnswerInv, PlaceInv, call = "start", handles = <<>>, DropStart, TxType',
         call' = "none", UNCHANGED <<handles, lost, tx>>
  PROVE  PlaceInv'
<1> DEFINE q == Q("ROLLBACK", NoName)
<1>1. q \in Queries /\ q.op = "ROLLBACK"
  BY DEF Q, Queries, Ops, NoName
<1>2. Post(q)
  BY DEF DropStart
<1> HIDE DEF q
<1>3. \/ lost /\ queue' = queue /\ Len(queue) = 0
      \/ ~lost /\ queue' = Append(queue, q)
  BY <1>1, <1>2, PostFacts
<1>4. CASE lost
  BY <1>3, <1>4, LostPlace DEF AnswerInv
<1>5. CASE ~lost
  <2>1. queue' = Append(queue, q)
    BY <1>3, <1>5
  <2>2. \A i \in 1 .. Len(queue') : queue'[i].op = "WRITE" => Inside(i)'
    BY <1>1, <2>1, AppendPlace
  <2>3. Ends(Len(queue))'
    BY <1>1, <2>1, AppendEnds DEF Enders
  <2> QED BY <2>2, <2>3 DEF PlaceInv
<1> QED BY <1>4, <1>5

\* The place does not change where nothing is sent or opened.
LEMMA SamePlace ==
  ASSUME PlaceInv, call # "start", call' # "start", UNCHANGED <<handles, queue, lost, tx>>
  PROVE  PlaceInv'
BY DEF PlaceInv, Inside, Ends

\* Cancel keeps the invariant.
LEMMA CancelStep == TxInv /\ Cancel => TxInv'
<1> SUFFICES ASSUME TxInv, Cancel PROVE TxInv'
  OBVIOUS
<1>0. TxType /\ AnswerInv /\ NamesInv /\ PlaceInv /\ stray = {}
  BY DEF TxInv
<1>1. /\ call # "none" /\ call' = "none" /\ answer' = "none"
      /\ IF call = "start" THEN DropStart ELSE queue' = queue
      /\ savepoint' = IF call = "savepoint" THEN [savepoint EXCEPT ![Fresh] = NoName] ELSE savepoint
      /\ UNCHANGED <<handles, fate, lost, tx, stray>>
  BY DEF Cancel, serverVars
<1>2. /\ queue' \in Seq(Queries)
      /\ lost => queue' = queue
  <2>1. Q("ROLLBACK", NoName) \in Queries
    BY DEF Q, Queries, Ops, NoName
  <2>2. CASE call = "start"
    <3>1. Post(Q("ROLLBACK", NoName))
      BY <1>1, <2>2 DEF DropStart
    <3> QED BY <1>0, <2>1, <3>1, PostFacts DEF Post
  <2>3. CASE call # "start"
    BY <1>0, <1>1, <2>3 DEF TxType
  <2> QED BY <2>2, <2>3
<1>3. savepoint' \in [Handle -> Int]
  BY <1>0, <1>1, NameBackType DEF TxType
<1>4. TxType'
  BY <1>0, <1>1, <1>2, <1>3 DEF TxType, Calls
<1>5. AnswerInv'
  BY <1>0, <1>1, <1>2 DEF AnswerInv
<1>6. NamesInv'
  BY <1>0, <1>1, <1>4, NameBack DEF Calls
<1>7. PlaceInv'
  <2>1. CASE call = "start"
    <3>1. handles = <<>> /\ DropStart
      BY <1>0, <1>1, <2>1 DEF NamesInv
    <3> QED BY <1>0, <1>1, <1>4, <2>1, <3>1, DropStartPlace
  <2>2. CASE call # "start"
    BY <1>0, <1>1, <2>2, SamePlace
  <2> QED BY <2>1, <2>2
<1> QED BY <1>0, <1>1, <1>4, <1>5, <1>6, <1>7 DEF TxInv

\* A handle whose START or SAVEPOINT was answered.
LEMMA Opening ==
  ASSUME TxInv, call \in {"start", "savepoint"}, answer = "ok",
         handles' = Append(handles, Fresh), fate' = [fate EXCEPT ![Fresh] = "open"],
         call' = "none", answer' = "none",
         UNCHANGED <<savepoint, queue, lost, tx, stray>>
  PROVE  TxInv'
<1>0. TxType /\ AnswerInv /\ NamesInv /\ PlaceInv /\ stray = {}
  BY DEF TxInv
<1>1. Fresh \in Handle /\ fate[Fresh] = "none" /\ Fresh \in Nat \ {0}
  BY <1>0, FreshNext DEF NamesInv, Handle
<1>2. /\ handles' \in Seq(Handle) /\ Len(handles') = Len(handles) + 1
      /\ handles'[Len(handles) + 1] = Fresh /\ handles' # <<>>
      /\ \A i \in 1 .. Len(handles) : handles'[i] = handles[i]
  BY <1>0, <1>1 DEF TxType
<1>3. TxType'
  BY <1>0, <1>1, <1>2 DEF TxType, Calls, Fates
<1>4. AnswerInv'
  BY <1>0 DEF AnswerInv
<1>5. /\ fate'[Fresh] = "open" /\ \A h \in Handle : h # Fresh => fate'[h] = fate[h]
  BY <1>0, <1>1 DEF TxType
<1>6. /\ Len(handles) \in Nat
      /\ \A i \in 1 .. Len(handles) : handles[i] # Fresh /\ handles[i] \in Handle
  BY <1>0, <1>1, QueueFacts DEF NamesInv
<1>7. NamesInv'
  <2>1. \E k \in 0 .. MaxHandles : \A h \in Handle : fate'[h] # "none" <=> h <= k
    <3>1. \A h \in Handle : fate[h] # "none" <=> h < Fresh
      BY <1>0, FreshNext
    <3>2. Fresh \in 0 .. MaxHandles
      BY <1>1 DEF Handle
    <3>3. \A h \in Handle : h \in Nat
      BY DEF Handle
    <3>4. \A h \in Handle : fate'[h] # "none" <=> h <= Fresh
      BY <1>1, <1>5, <3>1, <3>3
    <3> QED BY <3>2, <3>4
  <2>2. \A i \in 1 .. Len(handles') : i = Len(handles) + 1 \/ i \in 1 .. Len(handles)
    BY <1>2, <1>6
  <2>3. ASSUME NEW i \in 1 .. Len(handles')
        PROVE  fate'[handles'[i]] = "open"
    BY <1>0, <1>2, <1>5, <1>6, <2>2 DEF NamesInv
  <2>4. ASSUME NEW i \in 1 .. Len(handles')
        PROVE  savepoint'[handles'[i]] = NoName <=> i = 1
    <3>1. CASE i \in 1 .. Len(handles)
      BY <1>0, <1>2, <3>1 DEF NamesInv
    <3>2. CASE i = Len(handles) + 1 /\ call = "start"
      <4>1. handles = <<>> /\ Len(handles) = 0
        BY <1>0, <3>2, QueueFacts DEF NamesInv
      <4>2. savepoint[Fresh] = NoName
        BY <1>0, <1>1, <3>2 DEF NamesInv
      <4> QED BY <1>2, <3>2, <4>1, <4>2
    <3>3. CASE i = Len(handles) + 1 /\ call = "savepoint"
      <4>1. handles # <<>> /\ Len(handles) # 0
        BY <1>0, <3>3, QueueFacts DEF NamesInv
      <4>2. savepoint[Fresh] # NoName
        BY <1>0, <3>3 DEF NamesInv
      <4>3. i # 1
        BY <1>6, <3>3, <4>1
      <4> QED BY <1>2, <3>3, <4>2, <4>3
    <3> QED BY <2>2, <3>1, <3>2, <3>3
  <2>5. ASSUME NEW i \in 1 .. Len(handles'), NEW j \in 1 .. Len(handles'), i # j
        PROVE  handles'[i] # handles'[j]
    <3>1. i = Len(handles) + 1 \/ i \in 1 .. Len(handles)
      BY <2>2
    <3>2. j = Len(handles) + 1 \/ j \in 1 .. Len(handles)
      BY <2>2
    <3>3. CASE i \in 1 .. Len(handles) /\ j \in 1 .. Len(handles)
      BY <1>0, <1>2, <2>5, <3>3 DEF NamesInv
    <3>4. CASE i = Len(handles) + 1 \/ j = Len(handles) + 1
      BY <1>2, <1>6, <2>5, <3>1, <3>2, <3>4
    <3> QED BY <3>1, <3>2, <3>3, <3>4
  <2>6. \A h \in Handle : fate'[h] = "none" => savepoint'[h] = NoName
    BY <1>0, <1>1, <1>5 DEF NamesInv
  <2> QED BY <2>1, <2>3, <2>4, <2>5, <2>6 DEF NamesInv
<1>8. PlaceInv'
  <2>1. Len(queue) = 0
    BY <1>0, QueueFacts DEF AnswerInv
  <2>2. \A i \in 1 .. 0 : FALSE
    OBVIOUS
  <2>3. ~lost => tx # "idle"
    <3>1. CASE call = "start"
      BY <1>0, <3>1 DEF PlaceInv
    <3>2. CASE call = "savepoint"
      BY <1>0, <3>2 DEF PlaceInv, Inside, NamesInv
    <3> QED BY <3>1, <3>2
  <2>4. ~lost => Inside(Len(queue) + 1)'
    <3>1. (Len(queue') + 1) - 1 = 0
      BY <2>1
    <3> QED BY <2>2, <2>3, <3>1 DEF Inside
  <2> QED BY <1>2, <2>1, <2>2, <2>4 DEF PlaceInv
<1> QED BY <1>0, <1>3, <1>4, <1>7, <1>8 DEF TxInv

\* Return keeps the invariant.
LEMMA ReturnStep == TxInv /\ Return => TxInv'
<1> SUFFICES ASSUME TxInv, Return PROVE TxInv'
  OBVIOUS
<1>0. TxType /\ AnswerInv /\ NamesInv /\ PlaceInv /\ stray = {}
  BY DEF TxInv
<1>1. /\ call # "none" /\ answer # "none" /\ call' = "none" /\ answer' = "none"
      /\ UNCHANGED <<lost, tx, stray>>
      /\ IF answer = "ok" /\ call \in {"start", "savepoint"}
           THEN handles' = Append(handles, Fresh) /\ fate' = [fate EXCEPT ![Fresh] = "open"]
           ELSE UNCHANGED <<handles, fate>>
      /\ IF answer = "err" /\ call = "start" THEN DropStart ELSE queue' = queue
      /\ savepoint' = IF answer = "err" /\ call = "savepoint"
                        THEN [savepoint EXCEPT ![Fresh] = NoName] ELSE savepoint
      /\ answer \in {"ok", "err"}
  BY <1>0 DEF Return, serverVars, TxType
<1>2. CASE answer = "ok" /\ call \in {"start", "savepoint"}
  <2>1. /\ handles' = Append(handles, Fresh) /\ fate' = [fate EXCEPT ![Fresh] = "open"]
        /\ queue' = queue /\ savepoint' = savepoint
    BY <1>1, <1>2
  <2> QED BY <1>1, <1>2, <2>1, Opening
<1>3. CASE answer = "ok" /\ call \notin {"start", "savepoint"}
  <2>1. UNCHANGED <<handles, fate, queue, savepoint>>
    BY <1>1, <1>3
  <2>2. TxType' /\ AnswerInv'
    BY <1>0, <1>1, <2>1 DEF TxType, AnswerInv, Calls
  <2>3. NamesInv'
    BY <1>0, <1>1, <1>3, <2>1, <2>2, NameBack DEF Calls
  <2>4. PlaceInv'
    BY <1>0, <1>1, <1>3, <2>1, SamePlace
  <2> QED BY <1>0, <1>1, <2>2, <2>3, <2>4 DEF TxInv
<1>4. CASE answer = "err"
  <2>1. UNCHANGED <<handles, fate>>
    BY <1>1, <1>4
  <2>2. savepoint' = IF call = "savepoint" THEN [savepoint EXCEPT ![Fresh] = NoName] ELSE savepoint
    BY <1>1, <1>4
  <2>3. savepoint' \in [Handle -> Int]
    BY <1>0, <2>2, NameBackType DEF TxType
  <2>4. queue' \in Seq(Queries) /\ (lost => queue' = queue)
    <3>1. Q("ROLLBACK", NoName) \in Queries
      BY DEF Q, Queries, Ops, NoName
    <3>2. CASE call = "start"
      <4>1. Post(Q("ROLLBACK", NoName))
        BY <1>1, <1>4, <3>2 DEF DropStart
      <4> QED BY <1>0, <3>1, <4>1, PostFacts DEF Post
    <3>3. CASE call # "start"
      BY <1>0, <1>1, <3>3 DEF TxType
    <3> QED BY <3>2, <3>3
  <2>5. TxType'
    BY <1>0, <1>1, <2>1, <2>3, <2>4 DEF TxType, Calls
  <2>6. AnswerInv'
    BY <1>0, <1>1, <2>4 DEF AnswerInv
  <2>7. NamesInv'
    BY <1>0, <1>1, <2>1, <2>2, <2>5, NameBack DEF Calls
  <2>8. PlaceInv'
    <3>1. CASE call = "start"
      <4>1. handles = <<>> /\ DropStart
        BY <1>0, <1>1, <1>4, <3>1 DEF NamesInv
      <4> QED BY <1>0, <1>1, <2>1, <2>5, <3>1, <4>1, DropStartPlace
    <3>2. CASE call # "start"
      <4>1. queue' = queue
        BY <1>1, <3>2
      <4> QED BY <1>0, <1>1, <2>1, <3>2, <4>1, SamePlace
    <3> QED BY <3>1, <3>2
  <2> QED BY <1>0, <1>1, <2>5, <2>6, <2>7, <2>8 DEF TxInv
<1> QED BY <1>1, <1>2, <1>3, <1>4

-----------------------------------------------------------------------------
(***************************************************************************)
(* The server's steps.                                                     *)
(***************************************************************************)

\* What a query makes of the transaction.
LEMMA ExecFacts ==
  ASSUME TxInv, Exec
  PROVE  LET q == queue[1] IN
         /\ q.op \in Enders => tx' = "idle"
         /\ tx # "idle" /\ q.op \notin Enders => tx' # "idle"
         /\ tx = "idle" /\ q.op \notin Enders \cup {"START"} => tx' = "idle"
         /\ tx' \in {"idle", "open", "aborted"}
         /\ stray' = {}
         /\ \E res \in {"ok", "err"} : Reply(res) /\ (q.op = "START" /\ res = "ok" => tx' # "idle")
<1>0. TxType /\ PlaceInv /\ stray = {} /\ queue # <<>>
  BY DEF TxInv, Exec
<1>1. PICK q \in Queries : q = queue[1] /\ q = Head(queue) /\ 1 \in 1 .. Len(queue)
  BY <1>0 DEF TxType
<1>2. tx \in {"idle", "open", "aborted"}
  BY <1>0 DEF TxType
<1>3. CASE q.op = "START" /\ ExecStart
  BY <1>0, <1>1, <1>2, <1>3 DEF ExecStart, Fail, Enders
<1>4. CASE q.op = "COMMIT" /\ ExecCommit
  BY <1>0, <1>1, <1>4 DEF ExecCommit, EndTx, Enders
<1>5. CASE q.op = "ROLLBACK" /\ EndTx("ok", {})
  BY <1>0, <1>1, <1>5 DEF EndTx, Enders
<1>6. CASE q.op = "SAVEPOINT" /\ ExecSavepoint(q.name)
  BY <1>0, <1>1, <1>2, <1>6 DEF ExecSavepoint, Fail, Enders
<1>7. CASE q.op = "RELEASE" /\ ExecRelease(q.name)
  BY <1>0, <1>1, <1>2, <1>7 DEF ExecRelease, Fail, Enders
<1>8. CASE q.op = "ROLLBACK TO" /\ ExecRollbackTo(q.name)
  BY <1>0, <1>1, <1>2, <1>8 DEF ExecRollbackTo, Fail, Enders
<1>9. CASE q.op = "WRITE" /\ ExecWrite(q.name)
  <2>1. tx # "idle"
    BY <1>0, <1>1, <1>9 DEF PlaceInv, Inside
  <2> QED BY <1>0, <1>1, <1>2, <1>9, <2>1 DEF ExecWrite, Fail, Enders
<1> QED BY <1>1, <1>3, <1>4, <1>5, <1>6, <1>7, <1>8, <1>9 DEF Exec

\* A sequence without its first element, as when the server takes a query.
LEMMA TailType ==
  ASSUME NEW S, NEW s \in Seq(S), s # <<>>
  PROVE  /\ Tail(s) \in Seq(S) /\ Len(Tail(s)) = Len(s) - 1 /\ Len(s) \in Nat /\ Len(s) >= 1
         /\ \A i \in 1 .. Len(s) - 1 : Tail(s)[i] = s[i + 1] /\ i + 1 \in 1 .. Len(s)
<1>1. Len(s) \in Nat /\ Len(s) >= 1 /\ Tail(s) \in Seq(S) /\ Len(Tail(s)) = Len(s) - 1
  OBVIOUS
<1>2. ASSUME NEW i \in 1 .. Len(s) - 1 PROVE Tail(s)[i] = s[i + 1] /\ i + 1 \in 1 .. Len(s)
  BY <1>1
<1> QED BY <1>1, <1>2

\* Exec keeps the invariant.
LEMMA ExecStep == TxInv /\ Exec => TxInv'
<1> SUFFICES ASSUME TxInv, Exec PROVE TxInv'
  OBVIOUS
<1>0. TxType /\ AnswerInv /\ NamesInv /\ PlaceInv
  BY DEF TxInv
<1>1. /\ queue # <<>> /\ ~lost /\ queue' = Tail(queue)
      /\ UNCHANGED <<handles, savepoint, fate, call, lost>>
  BY DEF Exec
<1>2. PICK q \in Queries : q = queue[1]
  BY <1>0, <1>1 DEF TxType
<1>3. /\ q.op \in Enders => tx' = "idle"
      /\ tx # "idle" /\ q.op \notin Enders => tx' # "idle"
      /\ tx = "idle" /\ q.op \notin Enders \cup {"START"} => tx' = "idle"
      /\ tx' \in {"idle", "open", "aborted"}
      /\ stray' = {}
      /\ \E res \in {"ok", "err"} : Reply(res) /\ (q.op = "START" /\ res = "ok" => tx' # "idle")
  BY <1>2, ExecFacts
<1>4. PICK res \in {"ok", "err"} : Reply(res) /\ (q.op = "START" /\ res = "ok" => tx' # "idle")
  BY <1>3
<1>5. /\ queue' \in Seq(Queries) /\ Len(queue') = Len(queue) - 1 /\ Len(queue) \in Nat /\ Len(queue) >= 1
      /\ \A i \in 1 .. Len(queue') : queue'[i] = queue[i + 1] /\ i + 1 \in 1 .. Len(queue)
      /\ queue' = <<>> <=> Len(queue) = 1
  <2>1. queue \in Seq(Queries) /\ queue # <<>>
    BY <1>0, <1>1 DEF TxType
  <2>2. /\ queue' \in Seq(Queries) /\ Len(queue') = Len(queue) - 1
        /\ Len(queue) \in Nat /\ Len(queue) >= 1
        /\ \A i \in 1 .. Len(queue) - 1 : queue'[i] = queue[i + 1] /\ i + 1 \in 1 .. Len(queue)
    BY <1>1, <2>1, TailType
  <2>3. queue' = <<>> <=> Len(queue') = 0
    BY <2>2
  <2> QED BY <2>2, <2>3
<1>6. answer = "none"
  BY <1>0, <1>1 DEF AnswerInv
<1>7. answer' = IF Len(queue) = 1 /\ call # "none" THEN res ELSE "none"
  BY <1>4, <1>6 DEF Reply
<1>8. TxType'
  BY <1>0, <1>1, <1>3, <1>5, <1>7 DEF TxType
<1>9. AnswerInv'
  BY <1>0, <1>1, <1>5, <1>7 DEF AnswerInv
<1>10. Fresh' = Fresh
  BY <1>0, <1>1, <1>8, SameFresh
<1>11. NamesInv'
  BY <1>0, <1>1, <1>10 DEF NamesInv
<1>12. PlaceInv'
  <2>1. ASSUME NEW k \in 1 .. Len(queue), Inside(k + 1) PROVE Inside(k)'
    <3>1. \A i \in 1 .. k - 1 : i \in 1 .. Len(queue') /\ i + 1 \in 1 .. (k + 1) - 1
      BY <1>5
    <3>2. 1 \in 1 .. (k + 1) - 1
      BY <1>5
    <3>3. q.op \notin Enders /\ tx # "idle"
      BY <1>2, <2>1, <3>2 DEF Inside
    <3>4. \A i \in 1 .. k - 1 : queue'[i].op \notin Enders
      BY <1>5, <2>1, <3>1 DEF Inside
    <3> QED BY <1>3, <3>3, <3>4 DEF Inside
  <2>2. ASSUME NEW i \in 1 .. Len(queue'), queue'[i].op = "WRITE" PROVE Inside(i)'
    <3>1. i \in 1 .. Len(queue) /\ i + 1 \in 1 .. Len(queue) /\ queue[i + 1].op = "WRITE"
      BY <1>5, <2>2
    <3>2. Inside(i + 1)
      BY <1>0, <3>1 DEF PlaceInv
    <3> QED BY <2>1, <3>1, <3>2
  <2>3. handles' # <<>> => Inside(Len(queue) + 1)'
    <3> SUFFICES ASSUME handles # <<>> PROVE Inside(Len(queue) + 1)'
      BY <1>1
    <3>1. PICK k \in 1 .. Len(queue) : k = Len(queue') + 1 /\ k + 1 = Len(queue) + 1
      BY <1>5
    <3>2. Inside(k + 1)
      BY <1>0, <1>1, <3>1 DEF PlaceInv
    <3>3. Inside(k)'
      BY <2>1, <3>2
    <3> QED BY <3>1, <3>3
  <2>4. ASSUME NEW n \in 1 .. Len(queue), Ends(n) PROVE Ends(n - 1)'
    <3>1. \A i \in 1 .. n - 1 : queue'[i] = queue[i + 1] /\ i + 1 \in 1 .. n
      BY <1>5
    <3>2. \A j \in 1 .. n : j # 1 => j - 1 \in 1 .. n - 1 /\ queue'[j - 1] = queue[j]
      BY <1>5
    <3>3. ASSUME tx' # "idle" PROVE \E j \in 1 .. n - 1 : queue'[j].op \in Enders
      <4>1. q.op \notin Enders /\ (tx # "idle" \/ q.op = "START")
        BY <1>3, <3>3
      <4>2. 1 \in 1 .. n
        BY <1>5
      <4>3. PICK j \in 1 .. n : queue[j].op \in Enders
        <5>1. CASE tx # "idle"
          BY <2>4, <5>1 DEF Ends
        <5>2. CASE q.op = "START"
          <6>1. PICK j \in 1 + 1 .. n : queue[j].op \in Enders
            BY <1>2, <2>4, <4>2, <5>2 DEF Ends
          <6> QED BY <6>1
        <5> QED BY <4>1, <5>1, <5>2
      <4>4. j # 1
        BY <1>2, <4>1, <4>3
      <4> QED BY <3>2, <4>3, <4>4
    <3>4. ASSUME NEW i \in 1 .. n - 1, queue'[i].op = "START"
          PROVE  \E j \in i + 1 .. n - 1 : queue'[j].op \in Enders
      <4>1. i + 1 \in 1 .. n /\ queue[i + 1].op = "START"
        BY <3>1, <3>4
      <4>2. PICK j \in (i + 1) + 1 .. n : queue[j].op \in Enders
        BY <2>4, <4>1 DEF Ends
      <4>3. j \in 1 .. n /\ j # 1 /\ j - 1 \in i + 1 .. n - 1
        BY <4>2
      <4> QED BY <3>2, <4>2, <4>3
    <3> QED BY <3>3, <3>4 DEF Ends
  <2>5. handles' = <<>> /\ call' # "start" => Ends(Len(queue))'
    <3> SUFFICES ASSUME handles = <<>>, call # "start" PROVE Ends(Len(queue))'
      BY <1>1
    <3>1. PICK n \in 1 .. Len(queue) : n = Len(queue) /\ Len(queue') = n - 1
      BY <1>5
    <3>2. Ends(n)
      BY <1>0, <3>1 DEF PlaceInv
    <3>3. Ends(n - 1)'
      BY <2>4, <3>2
    <3> QED BY <3>1, <3>3
  <2>6. ASSUME call' = "start" PROVE
          CASE answer' = "none" -> queue'[Len(queue')].op = "START" /\ Ends(Len(queue) - 1)'
            [] answer' = "ok"   -> lost' \/ tx' # "idle"
            [] OTHER            -> TRUE
    <3>1. call = "start" /\ queue[Len(queue)].op = "START" /\ Ends(Len(queue) - 1)
      BY <1>0, <1>1, <1>6, <2>6 DEF PlaceInv
    <3>2. CASE Len(queue) = 1
      <4>1. answer' = res /\ q.op = "START"
        BY <1>2, <1>7, <3>1, <3>2
      <4> QED BY <1>4, <4>1
    <3>3. CASE Len(queue) # 1
      <4>1. PICK n \in 1 .. Len(queue) : n = Len(queue) - 1 /\ Len(queue') = n
        BY <1>5, <3>3
      <4>2. Ends(n)
        BY <3>1, <4>1
      <4>3. Ends(n - 1)'
        BY <2>4, <4>2
      <4>4. answer' = "none"
        BY <1>7, <3>3
      <4>5. queue'[n] = queue[n + 1] /\ n + 1 = Len(queue)
        BY <1>5, <4>1
      <4> QED BY <3>1, <4>1, <4>3, <4>4, <4>5
    <3> QED BY <3>2, <3>3
  <2> QED BY <2>2, <2>3, <2>5, <2>6 DEF PlaceInv
<1> QED BY <1>3, <1>8, <1>9, <1>11, <1>12 DEF TxInv

\* Lose keeps the invariant.
LEMMA LoseStep == TxInv /\ Lose => TxInv'
<1> SUFFICES ASSUME TxInv, Lose PROVE TxInv'
  OBVIOUS
<1>0. TxType /\ AnswerInv /\ NamesInv /\ PlaceInv /\ stray = {}
  BY DEF TxInv
<1>1. /\ lost' = TRUE /\ queue' = <<>> /\ tx' = "idle"
      /\ answer' = IF call # "none" /\ answer = "none" THEN "err" ELSE answer
      /\ UNCHANGED <<handles, savepoint, fate, call, stray>>
  BY DEF Lose
<1>2. queue' \in Seq(Queries) /\ Len(queue') = 0
  BY <1>1
<1>3. TxType'
  BY <1>0, <1>1, <1>2 DEF TxType
<1>4. AnswerInv'
  BY <1>0, <1>1 DEF AnswerInv
<1>5. Fresh' = Fresh
  BY <1>0, <1>1, <1>3, SameFresh
<1>6. NamesInv'
  BY <1>0, <1>1, <1>5 DEF NamesInv
<1>7. PlaceInv'
  BY <1>0, <1>1, <1>2, <1>3, LostPlace
<1> QED BY <1>0, <1>1, <1>3, <1>4, <1>6, <1>7 DEF TxInv

-----------------------------------------------------------------------------
(***************************************************************************)
(* No transaction is left behind.                                          *)
(***************************************************************************)
LEMMA TxInit == Init => TxInv
<1> SUFFICES ASSUME Init PROVE TxInv
  OBVIOUS
<1>1. /\ handles = <<>> /\ savepoint = [h \in Handle |-> NoName] /\ fate = [h \in Handle |-> "none"]
      /\ call = "none" /\ answer = "none" /\ queue = <<>> /\ tx = "idle" /\ lost = FALSE /\ stray = {}
  BY DEF Init
<1>2. NoName \in Int
  BY DEF NoName
<1>3. handles \in Seq(Handle) /\ queue \in Seq(Queries) /\ Len(handles) = 0 /\ Len(queue) = 0
  BY <1>1
<1>4. TxType
  BY <1>1, <1>2, <1>3 DEF TxType, Calls, Fates
<1>5. AnswerInv
  BY <1>1 DEF AnswerInv
<1>6. NamesInv
  <2>1. 0 \in 0 .. MaxHandles /\ \A h \in Handle : ~(h <= 0)
    BY TransactionAssumption DEF Handle
  <2>2. \E k \in 0 .. MaxHandles : \A h \in Handle : fate[h] # "none" <=> h <= k
    BY <1>1, <2>1
  <2> QED BY <1>1, <1>3, <2>2 DEF NamesInv
<1>7. PlaceInv
  <2>1. \A i \in 1 .. 0 : FALSE
    OBVIOUS
  <2>2. Ends(Len(queue))
    BY <1>1, <1>3, <2>1 DEF Ends
  <2> QED BY <1>1, <1>3, <2>1, <2>2 DEF PlaceInv
<1> QED BY <1>1, <1>4, <1>5, <1>6, <1>7 DEF TxInv

\* A step that changes nothing keeps the type and history invariant.
LEMMA TxStutter == TxInv /\ UNCHANGED vars => TxInv'
<1> SUFFICES ASSUME TxInv, UNCHANGED vars PROVE TxInv'
  OBVIOUS
<1>1. UNCHANGED <<handles, savepoint, fate, call, answer, queue, tx, lost, stray>>
  BY DEF vars, appVars, serverVars
<1>2. TxType' /\ AnswerInv' /\ PlaceInv' /\ stray' = {}
  BY <1>1 DEF TxInv, TxType, AnswerInv, PlaceInv, Inside, Ends
<1>3. NamesInv'
  BY <1>1 DEF TxInv, NamesInv, Fresh
<1> QED BY <1>2, <1>3 DEF TxInv

\* Every step of client and server keeps the type and history invariant.
LEMMA TxNext == TxInv /\ [Next]_vars => TxInv'
BY TxStutter, StartStep, SavepointStep, WriteRowStep, CommitStep, RollbackStep, DropTransactionStep,
   ReturnStep, CancelStep, ExecStep, LoseStep DEF Next

\* The type and history invariant holds of every reachable state.
LEMMA TxInvariant == Spec => []TxInv
BY TxInit, TxNext, PTL DEF Spec

\* No handle and no dropped future leaves a transaction behind, and no write
\* made through a handle runs outside of one.
THEOREM NoneLeftOpen == Spec => []NoOrphanTransaction
<1>1. TxInv => NoOrphanTransaction
  <2> SUFFICES ASSUME TxInv, handles = <<>>, call = "none", queue = <<>> PROVE tx = "idle"
    BY DEF TxInv, NoOrphanTransaction
  <2>1. Ends(0)
    BY DEF TxInv, PlaceInv
  <2> QED BY <2>1 DEF Ends
<1> QED BY <1>1, TxInvariant, PTL

-----------------------------------------------------------------------------
(***************************************************************************)
(* Savepoints.  SpInv says which savepoints on the server's stack belong   *)
(* to open handles, and to handles whose closing query is still queued,    *)
(* and what is written behind them.  It holds as long as no savepoint is   *)
(* given the name of an open handle.                                       *)
(***************************************************************************)
Closers == {"RELEASE", "ROLLBACK TO"}
Stacks  == Seq([name : Int, mark : Nat])

\* The innermost savepoint called n is the e-th of stack s.
IsAt(s, n, e) ==
  /\ e \in 1 .. Len(s) /\ s[e].name = n
  /\ \A j \in e + 1 .. Len(s) : s[j].name # n

Known(s, n) == \E e \in 1 .. Len(s) : IsAt(s, n, e)

\* Those called n and m are both there, and n is the outer one.
Before(s, n, m) == \E d, e \in 1 .. Len(s) : IsAt(s, n, d) /\ IsAt(s, m, e) /\ d < e

\* Going back to n discards what was written at place p.
Since(s, n, p) == \E e \in 1 .. Len(s) : IsAt(s, n, e) /\ s[e].mark < p

\* The name of the j-th open handle.
NameOf(j) == savepoint[handles[j]]

\* Handle h is one of those write w was made under.
Under(w, h) == \E i \in 1 .. Len(writes[w]) : writes[w][i] = h

SpType ==
  /\ writes \in Seq(Seq(Handle)) /\ stack \in Stacks
  /\ pending \in Seq(Nat) /\ committed \subseteq Nat

\* What is written was made under handles that had been opened.
WritesInv ==
  /\ \A w \in 1 .. Len(writes) : \A i \in 1 .. Len(writes[w]) : fate[writes[w][i]] # "none"
  /\ \A h \in Handle : fate[h] = "open" => \E j \in 1 .. Len(handles) : handles[j] = h
  /\ \A p \in 1 .. Len(pending) : pending[p] \in 1 .. Len(writes)
  /\ \A i \in 1 .. Len(queue) : queue[i].op = "WRITE" => queue[i].name \in 1 .. Len(writes)
  /\ committed \subseteq 1 .. Len(writes)
  /\ tx = "idle" => stack = <<>> /\ pending = <<>>

\* The queries of a transaction come before its end, and after that there are
\* only starts that were given up; a handle is opened when nothing is queued.
OrderInv ==
  /\ \A i, j \in 1 .. Len(queue) : i < j /\ queue[i].op \in Enders \cup {"START"} =>
       queue[j].op \in {"START", "ROLLBACK"}
  /\ handles # <<>> => \A i \in 1 .. Len(queue) : queue[i].op \notin Enders \cup {"START"}

\* The savepoint of an open handle, or of one whose closing query is still
\* queued, is on the stack, in the order of the handles.
ChainInv ==
  /\ ~lost => \A j \in 2 .. Len(handles) :
       /\ Known(stack, NameOf(j))
       /\ \A k \in j + 1 .. Len(handles) : Before(stack, NameOf(j), NameOf(k))
  /\ \A c \in 1 .. Len(queue) : queue[c].op \in Closers =>
       /\ Known(stack, queue[c].name)
       /\ \A j \in 2 .. Len(handles) : Before(stack, NameOf(j), queue[c].name)
       /\ \A d \in c + 1 .. Len(queue) : queue[d].op \in Closers =>
            Before(stack, queue[d].name, queue[c].name)

\* No savepoint still to be made hides one of these.
HideInv ==
  /\ \A i \in 1 .. Len(queue) : queue[i].op = "SAVEPOINT" =>
       /\ \A j \in 2 .. Len(handles) : queue[i].name # NameOf(j)
       /\ \A c \in i + 1 .. Len(queue) : queue[c].op \in Closers => queue[c].name # queue[i].name
  /\ call = "savepoint" => \A j \in 2 .. Len(handles) : savepoint[Fresh] # NameOf(j)

\* The savepoint that is awaited is the last query, and then the innermost.
AwaitedInv ==
  call = "savepoint" =>
    /\ answer = "none" => queue[Len(queue)] = Q("SAVEPOINT", savepoint[Fresh])
    /\ answer = "ok" /\ ~lost =>
         stack # <<>> /\ stack[Len(stack)] = [name |-> savepoint[Fresh], mark |-> Len(pending)]

\* A savepoint marks what was written before it.
MarkInv ==
  \A i \in 1 .. Len(stack) :
    stack[i].mark <= Len(pending) /\ \A j \in i + 1 .. Len(stack) : stack[i].mark <= stack[j].mark

\* Query c will discard what was written at place p of the transaction.
Discards(c, p) ==
  \/ queue[c].op = "ROLLBACK" /\ \A i \in 1 .. c - 1 : queue[i].op # "COMMIT"
  \/ queue[c].op = "ROLLBACK TO" /\ Since(stack, queue[c].name, p)

\* What is written under an open handle comes after its savepoint; what is
\* written under one that was rolled back is about to go.
DoomInv ==
  /\ \A p \in 1 .. Len(pending) : \A j \in 2 .. Len(handles) :
       Under(pending[p], handles[j]) => Since(stack, NameOf(j), p)
  /\ \A p \in 1 .. Len(pending) : Discarded(pending[p]) =>
       \E c \in 1 .. Len(queue) : Discards(c, p)
  /\ \A i \in 1 .. Len(queue) : queue[i].op = "WRITE" /\ Discarded(queue[i].name) =>
       \E c \in i + 1 .. Len(queue) : Discards(c, Len(pending) + 1)

\* What is committed was made under handles that were.
CommittedInv == \A w \in committed : \A i \in 1 .. Len(writes[w]) : fate[writes[w][i]] = "committed"

SpInv ==
  /\ SpType /\ WritesInv /\ OrderInv /\ ChainInv /\ HideInv /\ AwaitedInv /\ MarkInv
  /\ DoomInv /\ CommittedInv
-----------------------------------------------------------------------------
(***************************************************************************)
(* The stack.                                                              *)
(***************************************************************************)

\* A name is found at one place.
LEMMA OnePlace ==
  ASSUME NEW s \in Stacks, NEW n, NEW d, NEW e, IsAt(s, n, d), IsAt(s, n, e)
  PROVE  d = e
<1>1. Len(s) \in Nat /\ d \in 1 .. Len(s) /\ e \in 1 .. Len(s)
  BY DEF IsAt, Stacks
<1>2. ~(d < e) /\ ~(e < d)
  <2>1. ASSUME d < e PROVE FALSE
    BY <1>1, <2>1 DEF IsAt
  <2>2. ASSUME e < d PROVE FALSE
    BY <1>1, <2>2 DEF IsAt
  <2> QED BY <2>1, <2>2
<1> QED BY <1>1, <1>2

\* The server finds the savepoint that is at a place of its stack.
LEMMA FindIs ==
  ASSUME SpType, NEW n, NEW e, IsAt(stack, n, e)
  PROVE  Find(n) = e /\ Find(n) # 0 /\ e \in 1 .. Len(stack) /\ Len(stack) \in Nat
<1>1. Len(stack) \in Nat /\ e \in 1 .. Len(stack) /\ stack[e].name = n
  BY DEF SpType, Stacks, IsAt
<1> DEFINE P(i) == /\ stack[i].name = n
                   /\ \A j \in i + 1 .. Len(stack) : stack[j].name # n
<1>2. P(e)
  BY DEF IsAt
<1>3. \A i \in 1 .. Len(stack) : P(i) => i = e
  BY OnePlace DEF IsAt, SpType
<1>4. Find(n) = CHOOSE i \in 1 .. Len(stack) : P(i)
  BY <1>1 DEF Find
<1>5. (CHOOSE i \in 1 .. Len(stack) : P(i)) = e
  BY <1>1, <1>2, <1>3
<1>6. Find(n) = e
  BY <1>4, <1>5
<1>7. e # 0
  BY <1>1
<1> QED BY <1>1, <1>6, <1>7

\* A sequence with one element more, as when a query is sent.
LEMMA AppendType ==
  ASSUME NEW S, NEW s \in Seq(S), NEW r \in S
  PROVE  /\ Append(s, r) \in Seq(S) /\ Len(Append(s, r)) = Len(s) + 1 /\ Len(s) \in Nat
         /\ Append(s, r)[Len(s) + 1] = r /\ Append(s, r) # <<>>
         /\ \A i \in 1 .. Len(s) : Append(s, r)[i] = s[i] /\ i \in 1 .. Len(s) + 1
OBVIOUS

\* A savepoint on the stack has a name and a mark.
LEMMA StackType ==
  ASSUME NEW s \in Stacks
  PROVE  Len(s) \in Nat /\ \A i \in 1 .. Len(s) : s[i] \in [name : Int, mark : Nat] /\ s[i].mark \in Nat
<1>1. ASSUME NEW S, s \in Seq(S) PROVE Len(s) \in Nat /\ \A i \in 1 .. Len(s) : s[i] \in S
  BY <1>1
<1>2. Len(s) \in Nat /\ \A i \in 1 .. Len(s) : s[i] \in [name : Int, mark : Nat]
  BY <1>1 DEF Stacks
<1> QED BY <1>2

\* The first elements of a sequence: what is left of a stack or of the writes.
LEMMA CutType ==
  ASSUME NEW S, NEW s \in Seq(S), NEW k \in 0 .. Len(s)
  PROVE  /\ SubSeq(s, 1, k) \in Seq(S) /\ Len(SubSeq(s, 1, k)) = k /\ Len(s) \in Nat
         /\ \A i \in 1 .. k : SubSeq(s, 1, k)[i] = s[i] /\ i \in 1 .. Len(s)
<1>1. Len(s) \in Nat /\ k \in Nat /\ \A i \in 1 .. k : i \in 1 .. Len(s) /\ s[i] \in S
  OBVIOUS
<1>2. SubSeq(s, 1, k) = [i \in 1 .. k |-> s[i]]
  BY <1>1
<1>3. SubSeq(s, 1, k) \in Seq(S) /\ Len(SubSeq(s, 1, k)) = k
  BY <1>1, <1>2
<1> QED BY <1>1, <1>2, <1>3

\* One more savepoint, of another name.
LEMMA PushKeeps ==
  ASSUME NEW s \in Stacks, NEW r \in [name : Int, mark : Nat]
  PROVE  /\ Append(s, r) \in Stacks /\ Len(Append(s, r)) = Len(s) + 1 /\ Len(s) \in Nat
         /\ Append(s, r)[Len(s) + 1] = r
         /\ \A i \in 1 .. Len(s) : Append(s, r)[i] = s[i] /\ i \in 1 .. Len(s) + 1
         /\ IsAt(Append(s, r), r.name, Len(s) + 1)
         /\ \A n, e : n # r.name /\ IsAt(s, n, e) => IsAt(Append(s, r), n, e)
<1>1. PICK t \in Stacks : t = Append(s, r)
  BY AppendType DEF Stacks
<1>2. /\ Len(s) \in Nat /\ Len(t) = Len(s) + 1 /\ t[Len(s) + 1] = r
      /\ \A i \in 1 .. Len(s) : t[i] = s[i] /\ i \in 1 .. Len(s) + 1
  BY <1>1, AppendType DEF Stacks
<1>3. IsAt(t, r.name, Len(s) + 1)
  BY <1>2 DEF IsAt
<1>4. ASSUME NEW n, NEW e, n # r.name, IsAt(s, n, e) PROVE IsAt(t, n, e)
  <2>1. e \in 1 .. Len(s) /\ s[e].name = n /\ \A j \in e + 1 .. Len(s) : s[j].name # n
    BY <1>4 DEF IsAt
  <2>2. \A j \in e + 1 .. Len(t) : j = Len(s) + 1 \/ j \in e + 1 .. Len(s)
    BY <1>2, <2>1
  <2>3. \A j \in e + 1 .. Len(s) : j \in 1 .. Len(s)
    BY <1>2, <2>1
  <2>4. \A j \in e + 1 .. Len(t) : t[j].name # n
    BY <1>2, <1>4, <2>1, <2>2, <2>3
  <2> QED BY <1>2, <2>1, <2>4 DEF IsAt
<1> QED BY <1>1, <1>2, <1>3, <1>4

\* Savepoints up to the k-th are left.
LEMMA CutKeeps ==
  ASSUME NEW s \in Stacks, NEW k \in 0 .. Len(s)
  PROVE  /\ SubSeq(s, 1, k) \in Stacks /\ Len(SubSeq(s, 1, k)) = k /\ Len(s) \in Nat
         /\ \A i \in 1 .. k : SubSeq(s, 1, k)[i] = s[i] /\ i \in 1 .. Len(s)
         /\ \A n, e : IsAt(s, n, e) /\ e <= k => IsAt(SubSeq(s, 1, k), n, e)
<1>1. Len(s) \in Nat /\ k \in Nat /\ k <= Len(s) /\ \A i \in 1 .. k : i \in 1 .. Len(s)
  BY DEF Stacks
<1>4. PICK t \in Stacks : t = SubSeq(s, 1, k)
  BY CutType DEF Stacks
<1>5. Len(t) = k /\ \A i \in 1 .. k : t[i] = s[i]
  BY <1>4, CutType DEF Stacks
<1>6. ASSUME NEW n, NEW e, IsAt(s, n, e), e <= k PROVE IsAt(t, n, e)
  <2>1. e \in 1 .. k /\ s[e].name = n
    BY <1>1, <1>6 DEF IsAt
  <2>2. \A j \in e + 1 .. k : j \in 1 .. k /\ j \in e + 1 .. Len(s)
    BY <1>1, <2>1
  <2>3. \A j \in e + 1 .. k : t[j].name # n
    BY <1>5, <1>6, <2>2 DEF IsAt
  <2> QED BY <1>5, <2>1, <2>3 DEF IsAt
<1> QED BY <1>1, <1>4, <1>5, <1>6

\* What is found stays found, in the same order, when another name is added,
\* which then is the innermost.
LEMMA PushOrder ==
  ASSUME NEW s \in Stacks, NEW r \in [name : Int, mark : Nat], NEW t, t = Append(s, r)
  PROVE  /\ \A n : n # r.name /\ Known(s, n) => Known(t, n) /\ Before(t, n, r.name)
         /\ \A n, m : n # r.name /\ m # r.name /\ Before(s, n, m) => Before(t, n, m)
         /\ \A n, p : n # r.name /\ Since(s, n, p) => Since(t, n, p)
<1>1. /\ Len(t) = Len(s) + 1 /\ Len(s) \in Nat
      /\ \A i \in 1 .. Len(s) : t[i] = s[i] /\ i \in 1 .. Len(s) + 1
      /\ IsAt(t, r.name, Len(s) + 1)
      /\ \A n, e : n # r.name /\ IsAt(s, n, e) => IsAt(t, n, e)
  BY PushKeeps
<1>2. Len(t) \in 1 .. Len(t) /\ \A i \in 1 .. Len(s) : i \in 1 .. Len(t) /\ i < Len(t)
  BY <1>1
<1>3. ASSUME NEW n, n # r.name, Known(s, n) PROVE Known(t, n) /\ Before(t, n, r.name)
  <2>1. PICK e \in 1 .. Len(s) : IsAt(s, n, e)
    BY <1>3 DEF Known
  <2>2. IsAt(t, n, e) /\ e \in 1 .. Len(t) /\ e < Len(t) /\ IsAt(t, r.name, Len(t))
    BY <1>1, <1>2, <1>3, <2>1
  <2> QED BY <1>2, <2>2 DEF Known, Before
<1>4. ASSUME NEW n, NEW m, n # r.name, m # r.name, Before(s, n, m) PROVE Before(t, n, m)
  <2>1. PICK d, e \in 1 .. Len(s) : IsAt(s, n, d) /\ IsAt(s, m, e) /\ d < e
    BY <1>4 DEF Before
  <2>2. IsAt(t, n, d) /\ IsAt(t, m, e) /\ d \in 1 .. Len(t) /\ e \in 1 .. Len(t)
    BY <1>1, <1>2, <1>4, <2>1
  <2> QED BY <2>1, <2>2 DEF Before
<1>5. ASSUME NEW n, NEW p, n # r.name, Since(s, n, p) PROVE Since(t, n, p)
  <2>1. PICK e \in 1 .. Len(s) : IsAt(s, n, e) /\ s[e].mark < p
    BY <1>5 DEF Since
  <2>2. IsAt(t, n, e) /\ e \in 1 .. Len(t) /\ t[e] = s[e]
    BY <1>1, <1>2, <1>5, <2>1
  <2> QED BY <2>1, <2>2 DEF Since
<1> QED BY <1>3, <1>4, <1>5

\* And what is outside of n stays when the stack is cut at n.
LEMMA CutOrder ==
  ASSUME NEW s \in Stacks, NEW n, NEW e, IsAt(s, n, e), NEW k, k = e - 1 \/ k = e,
         NEW t, t = SubSeq(s, 1, k)
  PROVE  /\ \A a : Before(s, a, n) => Known(t, a)
         /\ \A a, b : Before(s, a, b) /\ Before(s, b, n) => Before(t, a, b)
         /\ \A a, p : Before(s, a, n) /\ Since(s, a, p) => Since(t, a, p)
<1>1. Len(s) \in Nat /\ e \in 1 .. Len(s) /\ k \in 0 .. Len(s)
  BY DEF IsAt, Stacks
<1>2. /\ Len(t) = k
      /\ \A i \in 1 .. k : t[i] = s[i] /\ i \in 1 .. Len(s)
      /\ \A a, d : IsAt(s, a, d) /\ d <= k => IsAt(t, a, d)
  BY <1>1, CutKeeps
<1>3. ASSUME NEW a, Before(s, a, n)
      PROVE  \E d \in 1 .. k : IsAt(s, a, d) /\ IsAt(t, a, d)
  <2>1. PICK d \in 1 .. Len(s), f \in 1 .. Len(s) : IsAt(s, a, d) /\ IsAt(s, n, f) /\ d < f
    BY <1>3 DEF Before
  <2>2. f = e
    BY <2>1, OnePlace
  <2>3. d \in 1 .. k /\ d <= k
    BY <1>1, <2>1, <2>2
  <2> QED BY <1>2, <2>1, <2>3
<1>4. ASSUME NEW a, Before(s, a, n) PROVE Known(t, a)
  BY <1>2, <1>3, <1>4 DEF Known
<1>5. ASSUME NEW a, NEW b, Before(s, a, b), Before(s, b, n) PROVE Before(t, a, b)
  <2>1. PICK c \in 1 .. k : IsAt(s, b, c) /\ IsAt(t, b, c)
    BY <1>3, <1>5
  <2>2. PICK d \in 1 .. Len(s), f \in 1 .. Len(s) : IsAt(s, a, d) /\ IsAt(s, b, f) /\ d < f
    BY <1>5 DEF Before
  <2>3. f = c
    BY <2>1, <2>2, OnePlace
  <2>4. d \in 1 .. k /\ d <= k
    BY <1>1, <2>1, <2>2, <2>3
  <2>5. IsAt(t, a, d)
    BY <1>2, <2>2, <2>4
  <2> QED BY <1>2, <2>1, <2>2, <2>3, <2>4, <2>5 DEF Before
<1>6. ASSUME NEW a, NEW p, Before(s, a, n), Since(s, a, p) PROVE Since(t, a, p)
  <2>1. PICK c \in 1 .. k : IsAt(s, a, c) /\ IsAt(t, a, c)
    BY <1>3, <1>6
  <2>2. PICK f \in 1 .. Len(s) : IsAt(s, a, f) /\ s[f].mark < p
    BY <1>6 DEF Since
  <2>3. f = c
    BY <2>1, <2>2, OnePlace
  <2> QED BY <1>2, <2>1, <2>2, <2>3 DEF Since
<1> QED BY <1>4, <1>5, <1>6

-----------------------------------------------------------------------------
(***************************************************************************)
(* What the server may do with the query at the head of the queue.         *)
(***************************************************************************)
First == queue[1]

Refused ==
  /\ First.op \notin Enders \cup {"ROLLBACK TO"}
  /\ First.op = "SAVEPOINT" => answer' # "ok"
  /\ tx' = "idle" => tx = "idle"
  /\ UNCHANGED <<stack, pending, committed>>

Ended ==
  /\ First.op \in Enders
  /\ stack' = <<>> /\ pending' = <<>>
  /\ committed' = committed \/ (First.op = "COMMIT" /\ committed' = committed \cup Elements(pending))

Pushed ==
  /\ First.op = "SAVEPOINT" /\ tx' # "idle"
  /\ stack' = Append(stack, [name |-> First.name, mark |-> Len(pending)])
  /\ UNCHANGED <<pending, committed>>

Released ==
  /\ First.op = "RELEASE" /\ tx' # "idle"
  /\ \E e \in 1 .. Len(stack) : IsAt(stack, First.name, e) /\ stack' = SubSeq(stack, 1, e - 1)
  /\ UNCHANGED <<pending, committed>>

GoneBack ==
  /\ First.op = "ROLLBACK TO" /\ tx' # "idle"
  /\ \E e \in 1 .. Len(stack) :
       /\ IsAt(stack, First.name, e) /\ stack' = SubSeq(stack, 1, e)
       /\ pending' = SubSeq(pending, 1, stack[e].mark)
  /\ UNCHANGED committed

Written ==
  /\ First.op = "WRITE" /\ tx' # "idle"
  /\ pending' = Append(pending, First.name)
  /\ UNCHANGED <<stack, committed>>

\* What the server does with a query is one of the six cases.
LEMMA ExecCases ==
  ASSUME TxInv, SpInv, Exec
  PROVE  Refused \/ Ended \/ Pushed \/ Released \/ GoneBack \/ Written
<1>0. TxType /\ PlaceInv /\ AnswerInv /\ SpType /\ WritesInv /\ ChainInv /\ queue # <<>>
  BY DEF TxInv, SpInv, Exec
<1>1. PICK q \in Queries : q = First /\ q = Head(queue) /\ 1 \in 1 .. Len(queue)
  BY <1>0 DEF TxType, First
<1>2. tx \in {"idle", "open", "aborted"} /\ answer = "none"
  BY <1>0 DEF TxType, AnswerInv
<1>3. ASSUME Fail, q.op \notin Enders \cup {"ROLLBACK TO"} PROVE Refused
  <2>1. answer' # "ok"
    BY <1>2, <1>3 DEF Fail, Reply
  <2>2. tx' = "idle" => tx = "idle"
    BY <1>3 DEF Fail
  <2> QED BY <1>1, <1>3, <2>1, <2>2 DEF Fail, Refused
<1>4. CASE q.op = "START" /\ ExecStart
  <2>1. ASSUME ~Fail PROVE Refused
    BY <1>1, <1>4, <2>1 DEF ExecStart, Refused, Enders
  <2> QED BY <1>3, <1>4, <2>1 DEF Enders
<1>5. CASE q.op = "COMMIT" /\ ExecCommit
  <2>1. \/ EndTx("ok", Elements(pending)) \/ EndTx("err", {}) \/ EndTx("ok", {})
    BY <1>5 DEF ExecCommit
  <2> QED BY <1>1, <1>5, <2>1 DEF EndTx, Ended, Enders
<1>6. CASE q.op = "ROLLBACK" /\ EndTx("ok", {})
  BY <1>1, <1>6 DEF EndTx, Ended, Enders
<1>7. CASE q.op = "SAVEPOINT" /\ ExecSavepoint(q.name)
  <2>1. ASSUME ~Fail PROVE Pushed
    BY <1>1, <1>7, <2>1 DEF ExecSavepoint, Pushed
  <2> QED BY <1>3, <1>7, <2>1 DEF Enders
<1>8. CASE q.op \in Closers
  <2>1. PICK e \in 1 .. Len(stack) : IsAt(stack, q.name, e)
    BY <1>0, <1>1, <1>8 DEF ChainInv, Known, First
  <2>2. Find(q.name) = e /\ Find(q.name) # 0 /\ Len(stack) \in Nat
    BY <1>0, <2>1, FindIs
  <2>3. tx # "idle"
    <3>1. stack # <<>>
      BY <2>1, <2>2
    <3> QED BY <1>0, <3>1 DEF WritesInv
  <2>4. CASE q.op = "RELEASE"
    <3>1. ExecRelease(q.name)
      BY <1>1, <2>4 DEF Exec
    <3>2. ASSUME ~Fail PROVE Released
      <4>1. stack' = SubSeq(stack, 1, e - 1) /\ tx = "open" /\ UNCHANGED <<tx, pending, committed>>
        BY <2>2, <3>1, <3>2 DEF ExecRelease
      <4> QED BY <1>1, <2>1, <2>4, <4>1 DEF Released
    <3> QED BY <1>3, <2>4, <3>2 DEF Enders
  <2>5. CASE q.op = "ROLLBACK TO"
    <3>1. ExecRollbackTo(q.name)
      BY <1>1, <2>5 DEF Exec
    <3>2. /\ stack' = SubSeq(stack, 1, e) /\ tx' = "open" /\ UNCHANGED committed
          /\ pending' = SubSeq(pending, 1, stack[e].mark)
      BY <2>2, <2>3, <3>1 DEF ExecRollbackTo
    <3> QED BY <1>1, <2>1, <2>5, <3>2 DEF GoneBack
  <2> QED BY <1>8, <2>4, <2>5 DEF Closers
<1>9. CASE q.op = "WRITE" /\ ExecWrite(q.name)
  <2>1. tx # "idle"
    BY <1>0, <1>1, <1>9 DEF PlaceInv, Inside, First
  <2>2. ASSUME ~Fail PROVE Written
    BY <1>1, <1>9, <2>1, <2>2 DEF ExecWrite, Written
  <2> QED BY <1>3, <1>9, <2>2 DEF Enders
<1> QED BY <1>1, <1>4, <1>5, <1>6, <1>7, <1>8, <1>9 DEF Exec, Closers

\* The queries behind the head move up.
LEMMA ExecShift ==
  ASSUME TxType, AnswerInv, Exec
  PROVE  /\ Len(queue) \in Nat /\ Len(queue') = Len(queue) - 1 /\ 1 \in 1 .. Len(queue)
         /\ \A i \in 1 .. Len(queue') : queue'[i] = queue[i + 1] /\ i + 1 \in 1 .. Len(queue)
         /\ \A i \in 1 .. Len(queue) : queue[i] \in Queries
         /\ First \in Queries /\ ~lost /\ answer = "none"
         /\ UNCHANGED <<handles, savepoint, fate, writes, call, lost>> /\ Fresh' = Fresh
         /\ answer' # "none" => Len(queue) = 1 /\ call # "none"
<1>1. queue \in Seq(Queries) /\ queue # <<>> /\ queue' = Tail(queue)
  BY DEF TxType, Exec
<1>2. UNCHANGED <<handles, savepoint, fate, writes, call, lost>> /\ ~lost
  BY DEF Exec
<1>3. Fresh' = Fresh
  BY <1>2 DEF Fresh
<1>4. \A i \in 1 .. Len(queue) : queue[i] \in Queries
  BY <1>1
<1>5. /\ Len(queue) \in Nat /\ Len(queue') = Len(queue) - 1 /\ 1 \in 1 .. Len(queue)
      /\ \A i \in 1 .. Len(queue') : queue'[i] = queue[i + 1] /\ i + 1 \in 1 .. Len(queue)
  BY <1>1, TailType
<1>6. answer = "none"
  BY <1>1 DEF AnswerInv
<1>7. \E res : Reply(res)
  BY DEF Exec, ExecStart, ExecCommit, EndTx, ExecSavepoint, ExecRelease, ExecRollbackTo, ExecWrite, Fail
<1>8. answer' # "none" => Len(queue) = 1 /\ call # "none"
  BY <1>6, <1>7 DEF Reply
<1> QED BY <1>2, <1>3, <1>4, <1>5, <1>6, <1>8 DEF First

\* Behind the end of a transaction nothing of one is queued.
LEMMA EndedFacts ==
  ASSUME TxInv, SpInv, Exec, Ended
  PROVE  /\ handles = <<>> /\ Len(handles) = 0
         /\ \A i \in 1 .. Len(queue') : queue'[i].op \in {"START", "ROLLBACK"}
<1>0. TxType /\ AnswerInv /\ OrderInv
  BY DEF TxInv, SpInv
<1>1. First.op \in Enders /\ First = queue[1] /\ 1 \in 1 .. Len(queue)
  BY <1>0, ExecShift DEF Ended, First
<1>2. handles = <<>>
  BY <1>0, <1>1 DEF OrderInv
<1>3. ASSUME NEW i \in 1 .. Len(queue') PROVE queue'[i].op \in {"START", "ROLLBACK"}
  <2>1. queue'[i] = queue[i + 1] /\ i + 1 \in 1 .. Len(queue) /\ 1 < i + 1
    BY <1>0, ExecShift
  <2> QED BY <1>0, <1>1, <2>1 DEF OrderInv
<1> QED BY <1>2, <1>3

\* Executing a query keeps the order of the queue, and no savepoint hides one in use.
LEMMA ExecOrder == ASSUME TxInv, SpInv, Exec PROVE OrderInv' /\ HideInv'
<1>0. TxType /\ AnswerInv /\ OrderInv /\ HideInv
  BY DEF TxInv, SpInv
<1>1. /\ Len(queue) \in Nat /\ Len(queue') = Len(queue) - 1
      /\ \A i \in 1 .. Len(queue') : queue'[i] = queue[i + 1] /\ i + 1 \in 1 .. Len(queue)
      /\ UNCHANGED <<handles, savepoint, call>> /\ Fresh' = Fresh
  BY <1>0, ExecShift
<1>2. \A i, j \in 1 .. Len(queue') : i < j => i + 1 < j + 1
  BY <1>1
<1>3. OrderInv'
  BY <1>0, <1>1, <1>2 DEF OrderInv
<1>4. \A i \in 1 .. Len(queue') : \A c \in i + 1 .. Len(queue') :
        c \in 1 .. Len(queue') /\ c + 1 \in (i + 1) + 1 .. Len(queue)
  BY <1>1
<1>5. HideInv'
  <2>1. ASSUME NEW i \in 1 .. Len(queue'), queue'[i].op = "SAVEPOINT"
        PROVE  /\ \A j \in 2 .. Len(handles) : queue'[i].name # savepoint[handles[j]]
               /\ \A c \in i + 1 .. Len(queue') : queue'[c].op \in Closers => queue'[c].name # queue'[i].name
    <3>1. PICK k \in 1 .. Len(queue) : k = i + 1 /\ queue[k] = queue'[i]
      BY <1>1
    <3>2. /\ \A j \in 2 .. Len(handles) : queue[k].name # NameOf(j)
          /\ \A c \in k + 1 .. Len(queue) : queue[c].op \in Closers => queue[c].name # queue[k].name
      BY <1>0, <2>1, <3>1 DEF HideInv
    <3> QED BY <1>1, <1>4, <3>1, <3>2 DEF NameOf
  <2> QED BY <1>0, <1>1, <2>1 DEF HideInv, NameOf
<1> QED BY <1>3, <1>5

\* The savepoints of the open handles are still there.
LEMMA ExecChain == ASSUME TxInv, SpInv, Exec PROVE ChainInv'
<1>0. TxType /\ AnswerInv /\ SpType /\ OrderInv /\ ChainInv /\ HideInv
  BY DEF TxInv, SpInv
<1>1. /\ Len(queue) \in Nat /\ Len(queue') = Len(queue) - 1 /\ 1 \in 1 .. Len(queue)
      /\ \A i \in 1 .. Len(queue') : queue'[i] = queue[i + 1] /\ i + 1 \in 1 .. Len(queue)
      /\ UNCHANGED <<handles, savepoint, lost>> /\ ~lost /\ First \in Queries
  BY <1>0, ExecShift
<1>2. \A c \in 1 .. Len(queue') : \A d \in c + 1 .. Len(queue') :
        d \in 1 .. Len(queue') /\ d + 1 \in (c + 1) + 1 .. Len(queue)
  BY <1>1
<1>3. \A c \in 1 .. Len(queue') : c + 1 \in 1 + 1 .. Len(queue)
  BY <1>1
<1>4. \A j \in 2 .. Len(handles) : \A k \in j + 1 .. Len(handles) : k \in 2 .. Len(handles)
  BY <1>0, QueueFacts
<1>5. CASE UNCHANGED stack
  BY <1>0, <1>1, <1>2, <1>5 DEF ChainInv, NameOf
<1>6. CASE Ended
  <2>1. Len(handles') = 0 /\ \A i \in 1 .. Len(queue') : queue'[i].op \notin Closers
    BY <1>0, <1>1, <1>6, EndedFacts DEF Closers
  <2>2. \A j \in 2 .. 0 : FALSE
    OBVIOUS
  <2> QED BY <2>1, <2>2 DEF ChainInv
<1>7. CASE Pushed
  <2>1. PICK r \in [name : Int, mark : Nat] : r.name = First.name /\ stack' = Append(stack, r)
    <3>1. Len(pending) \in Nat /\ First.name \in Int
      BY <1>0, <1>1 DEF SpType, Queries
    <3> QED BY <1>7, <3>1 DEF Pushed
  <2>2. stack \in Stacks
    BY <1>0 DEF SpType
  <2>3. /\ \A n : n # r.name /\ Known(stack, n) => Known(stack', n)
        /\ \A n, m : n # r.name /\ m # r.name /\ Before(stack, n, m) => Before(stack', n, m)
    BY <2>1, <2>2, PushOrder
  <2>4. /\ \A j \in 2 .. Len(handles) : NameOf(j) # r.name
        /\ \A c \in 1 .. Len(queue') : queue'[c].op \in Closers => queue'[c].name # r.name
    BY <1>0, <1>1, <1>3, <1>7, <2>1 DEF HideInv, Pushed, First
  <2>5. \A j \in 2 .. Len(handles) :
          /\ Known(stack', NameOf(j))
          /\ \A k \in j + 1 .. Len(handles) : Before(stack', NameOf(j), NameOf(k))
    BY <1>0, <1>1, <1>4, <2>3, <2>4 DEF ChainInv
  <2>6. ASSUME NEW c \in 1 .. Len(queue'), queue'[c].op \in Closers
        PROVE  /\ Known(stack', queue'[c].name)
               /\ \A j \in 2 .. Len(handles) : Before(stack', NameOf(j), queue'[c].name)
               /\ \A d \in c + 1 .. Len(queue') : queue'[d].op \in Closers =>
                    Before(stack', queue'[d].name, queue'[c].name)
    <3>1. PICK i \in 1 .. Len(queue) : i = c + 1 /\ queue[i] = queue'[c]
      BY <1>1
    <3>2. /\ Known(stack, queue[i].name)
          /\ \A j \in 2 .. Len(handles) : Before(stack, NameOf(j), queue[i].name)
          /\ \A d \in i + 1 .. Len(queue) : queue[d].op \in Closers =>
               Before(stack, queue[d].name, queue[i].name)
      BY <1>0, <2>6, <3>1 DEF ChainInv
    <3> QED BY <1>1, <1>2, <2>3, <2>4, <2>6, <3>1, <3>2
  <2> QED BY <1>1, <2>5, <2>6 DEF ChainInv, NameOf
<1>8. CASE Released \/ GoneBack
  <2>0. PICK e \in 1 .. Len(stack) :
          /\ IsAt(stack, First.name, e)
          /\ stack' = SubSeq(stack, 1, e - 1) \/ stack' = SubSeq(stack, 1, e)
    BY <1>8 DEF Released, GoneBack
  <2>1. PICK k : (k = e - 1 \/ k = e) /\ stack' = SubSeq(stack, 1, k)
    BY <2>0
  <2>2. stack \in Stacks
    BY <1>0 DEF SpType
  <2>3. /\ \A a : Before(stack, a, First.name) => Known(stack', a)
        /\ \A a, b : Before(stack, a, b) /\ Before(stack, b, First.name) => Before(stack', a, b)
    <3>1. PICK s, t : s \in Stacks /\ s = stack /\ t = stack' /\ t = SubSeq(s, 1, k)
      BY <2>1, <2>2
    <3>2. IsAt(s, First.name, e)
      BY <2>0, <3>1
    <3>3. /\ \A a : Before(s, a, First.name) => Known(t, a)
          /\ \A a, b : Before(s, a, b) /\ Before(s, b, First.name) => Before(t, a, b)
      BY <2>1, <3>1, <3>2, CutOrder
    <3> QED BY <3>1, <3>3
  <2>4. First.op \in Closers /\ First = queue[1]
    BY <1>8 DEF Released, GoneBack, Closers, First
  <2>5. /\ \A j \in 2 .. Len(handles) : Before(stack, NameOf(j), First.name)
        /\ \A c \in 1 .. Len(queue') : queue'[c].op \in Closers => Before(stack, queue'[c].name, First.name)
    BY <1>0, <1>1, <1>3, <2>4 DEF ChainInv
  <2> QED BY <1>0, <1>1, <1>2, <1>4, <2>3, <2>5 DEF ChainInv, NameOf
<1> QED BY <1>5, <1>6, <1>7, <1>8, ExecCases DEF Refused, Written

\* The marks stay in order, and behind what is written.
LEMMA ExecMarks == ASSUME TxInv, SpInv, Exec PROVE SpType' /\ MarkInv'
<1>0. TxType /\ AnswerInv /\ SpType /\ WritesInv /\ MarkInv
  BY DEF TxInv, SpInv
<1>1. /\ stack \in Stacks /\ pending \in Seq(Nat) /\ Len(pending) \in Nat /\ Len(stack) \in Nat
      /\ \A i \in 1 .. Len(stack) : stack[i].mark \in Nat
  BY <1>0, StackType DEF SpType
<1>2. UNCHANGED writes /\ First \in Queries
  BY <1>0, ExecShift
<1>3. CASE Refused
  BY <1>0, <1>2, <1>3 DEF Refused, SpType, MarkInv
<1>4. CASE Ended
  <2>1. /\ stack' \in Stacks /\ Len(stack') = 0 /\ pending' \in Seq(Nat)
    BY <1>4 DEF Ended, Stacks
  <2>2. Elements(pending) \subseteq Nat
    BY <1>1 DEF Elements
  <2>3. committed' \subseteq Nat
    BY <1>0, <1>4, <2>2 DEF Ended, SpType
  <2>4. \A i \in 1 .. 0 : FALSE
    OBVIOUS
  <2> QED BY <1>0, <1>2, <2>1, <2>3, <2>4 DEF SpType, MarkInv
<1>5. CASE Pushed
  <2>1. PICK r \in [name : Int, mark : Nat] : r.mark = Len(pending) /\ stack' = Append(stack, r)
    BY <1>1, <1>2, <1>5 DEF Pushed, Queries
  <2>2. /\ stack' \in Stacks /\ Len(stack') = Len(stack) + 1 /\ stack'[Len(stack) + 1] = r
        /\ \A i \in 1 .. Len(stack) : stack'[i] = stack[i]
    BY <1>1, <2>1, PushKeeps
  <2>3. SpType'
    BY <1>0, <1>2, <1>5, <2>2 DEF SpType, Pushed
  <2>4. \A i \in 1 .. Len(stack') : i \in 1 .. Len(stack) \/ i = Len(stack) + 1
    BY <1>1, <2>2
  <2>5. ASSUME NEW i \in 1 .. Len(stack') PROVE stack'[i].mark <= Len(pending)
    BY <1>0, <1>1, <2>1, <2>2, <2>4 DEF MarkInv
  <2>6. ASSUME NEW i \in 1 .. Len(stack'), NEW j \in i + 1 .. Len(stack')
        PROVE  stack'[i].mark <= stack'[j].mark
    <3>1. /\ i \in 1 .. Len(stack)
          /\ j = Len(stack) + 1 \/ (j \in i + 1 .. Len(stack) /\ j \in 1 .. Len(stack))
      <4>1. i \in Int /\ j \in Int /\ 1 <= i /\ i < j /\ j <= Len(stack) + 1
        BY <1>1, <2>2
      <4>2. Len(stack) \in Nat
        BY <1>1
      <4>3. i \in 1 .. Len(stack)
        BY <4>1, <4>2
      <4>4. CASE j = Len(stack) + 1
        BY <4>3, <4>4
      <4>5. CASE j # Len(stack) + 1
        BY <4>1, <4>2, <4>3, <4>5
      <4> QED BY <4>4, <4>5
    <3> QED BY <1>0, <2>1, <2>2, <2>5, <3>1 DEF MarkInv
  <2>7. pending' = pending
    BY <1>5 DEF Pushed
  <2> QED BY <2>3, <2>5, <2>6, <2>7 DEF MarkInv
<1>6. ASSUME NEW k \in 0 .. Len(stack), stack' = SubSeq(stack, 1, k)
      PROVE  /\ stack' \in Stacks /\ Len(stack') = k
             /\ \A i \in 1 .. k : stack'[i] = stack[i] /\ i \in 1 .. Len(stack)
             /\ \A i \in 1 .. k : \A j \in i + 1 .. k : stack'[i].mark <= stack'[j].mark
  <2>1. /\ stack' \in Stacks /\ Len(stack') = k
        /\ \A i \in 1 .. k : stack'[i] = stack[i] /\ i \in 1 .. Len(stack)
    BY <1>1, <1>6, CutKeeps
  <2>2. \A i \in 1 .. k : \A j \in i + 1 .. k : j \in 1 .. k /\ j \in i + 1 .. Len(stack)
    BY <1>1
  <2>3. \A i \in 1 .. k : \A j \in i + 1 .. k : stack'[i].mark <= stack'[j].mark
    BY <1>0, <2>1, <2>2 DEF MarkInv
  <2> QED BY <2>1, <2>3
<1>7. CASE Released
  <2>1. PICK e \in 1 .. Len(stack) : stack' = SubSeq(stack, 1, e - 1)
    BY <1>7 DEF Released
  <2>2. PICK k \in 0 .. Len(stack) : k = e - 1
    BY <1>1
  <2>3. SpType'
    BY <1>0, <1>2, <1>6, <1>7, <2>1, <2>2 DEF Released, SpType
  <2>4. pending' = pending
    BY <1>7 DEF Released
  <2> QED BY <1>0, <1>6, <2>1, <2>2, <2>3, <2>4 DEF MarkInv
<1>8. CASE GoneBack
  <2>1. PICK e \in 1 .. Len(stack) :
          stack' = SubSeq(stack, 1, e) /\ pending' = SubSeq(pending, 1, stack[e].mark)
    BY <1>8 DEF GoneBack
  <2>2. e \in 0 .. Len(stack) /\ stack[e].mark \in 0 .. Len(pending)
    BY <1>0, <1>1 DEF MarkInv
  <2>3. pending' \in Seq(Nat) /\ Len(pending') = stack[e].mark
    BY <1>1, <2>1, <2>2, CutType
  <2>4. SpType'
    BY <1>0, <1>2, <1>6, <1>8, <2>1, <2>2, <2>3 DEF GoneBack, SpType
  <2>5. ASSUME NEW i \in 1 .. e PROVE stack[i].mark <= stack[e].mark
    <3>1. i = e \/ e \in i + 1 .. Len(stack)
      BY <1>1
    <3>2. i \in 1 .. Len(stack)
      BY <1>1
    <3> QED BY <1>0, <1>1, <3>1, <3>2 DEF MarkInv
  <2> QED BY <1>6, <2>1, <2>2, <2>3, <2>4, <2>5 DEF MarkInv
<1>9. CASE Written
  <2>1. First.name \in 1 .. Len(writes) /\ Len(writes) \in Nat
    <3>1. 1 \in 1 .. Len(queue)
      BY <1>0, ExecShift
    <3> QED BY <1>0, <1>9, <3>1 DEF WritesInv, Written, First, SpType
  <2>2. pending' \in Seq(Nat) /\ Len(pending') = Len(pending) + 1
    BY <1>1, <1>9, <2>1, AppendType DEF Written
  <2>3. SpType' /\ stack' = stack
    BY <1>0, <1>2, <1>9, <2>2 DEF Written, SpType
  <2>4. \A i \in 1 .. Len(stack) : stack[i].mark <= Len(pending) + 1
    BY <1>0, <1>1 DEF MarkInv
  <2> QED BY <1>0, <2>2, <2>3, <2>4 DEF MarkInv
<1> QED BY <1>3, <1>4, <1>5, <1>7, <1>8, <1>9, ExecCases

\* What is written has been sent.
LEMMA ExecWrites == ASSUME TxInv, SpInv, Exec PROVE WritesInv'
<1>0. TxType /\ AnswerInv /\ SpType /\ WritesInv /\ MarkInv
  BY DEF TxInv, SpInv
<1>1. /\ Len(pending) \in Nat /\ pending \in Seq(Nat) /\ Len(stack) \in Nat
      /\ \A i \in 1 .. Len(stack) : stack[i].mark \in Nat
  BY <1>0, StackType DEF SpType
<1>2. /\ 1 \in 1 .. Len(queue)
      /\ \A i \in 1 .. Len(queue') : queue'[i] = queue[i + 1] /\ i + 1 \in 1 .. Len(queue)
      /\ UNCHANGED <<handles, fate, writes>>
  BY <1>0, ExecShift
<1>3. \A p \in 1 .. Len(pending') : pending'[p] \in 1 .. Len(writes)
  <2>1. CASE pending' = pending
    BY <1>0, <2>1 DEF WritesInv
  <2>2. CASE Ended
    BY <2>2 DEF Ended
  <2>3. CASE GoneBack
    <3>1. PICK e \in 1 .. Len(stack) : pending' = SubSeq(pending, 1, stack[e].mark)
      BY <2>3 DEF GoneBack
    <3>2. stack[e].mark \in 0 .. Len(pending)
      BY <1>0, <1>1 DEF MarkInv
    <3>3. \A p \in 1 .. Len(pending') : pending'[p] = pending[p] /\ p \in 1 .. Len(pending)
      BY <1>1, <3>1, <3>2, CutType
    <3> QED BY <1>0, <3>3 DEF WritesInv
  <2>4. CASE Written
    <3>1. First.name \in 1 .. Len(writes)
      BY <1>0, <1>2, <2>4 DEF WritesInv, Written, First
    <3>2. First.name \in Nat
      <4>1. Len(writes) \in Nat
        BY <1>0 DEF SpType
      <4> QED BY <3>1, <4>1
    <3>3. /\ Len(pending') = Len(pending) + 1 /\ pending'[Len(pending) + 1] = First.name
          /\ \A p \in 1 .. Len(pending) : pending'[p] = pending[p]
      BY <1>1, <2>4, <3>2, AppendType DEF Written
    <3>4. \A p \in 1 .. Len(pending') : p \in 1 .. Len(pending) \/ p = Len(pending) + 1
      BY <1>1, <3>3
    <3> QED BY <1>0, <3>1, <3>3, <3>4 DEF WritesInv
  <2> QED BY <2>1, <2>2, <2>3, <2>4, ExecCases DEF Refused, Pushed, Released
<1>4. committed' \subseteq 1 .. Len(writes)
  <2>1. Elements(pending) \subseteq 1 .. Len(writes)
    BY <1>0 DEF Elements, WritesInv
  <2> QED BY <1>0, <2>1, ExecCases DEF Refused, Ended, Pushed, Released, GoneBack, Written, WritesInv
<1>5. tx' = "idle" => stack' = <<>> /\ pending' = <<>>
  BY <1>0, ExecCases DEF Refused, Ended, Pushed, Released, GoneBack, Written, WritesInv
<1> QED BY <1>0, <1>2, <1>3, <1>4, <1>5 DEF WritesInv

\* What is written next comes after every savepoint.
LEMMA KnownSince ==
  ASSUME NEW s \in Stacks, NEW l, \A i \in 1 .. Len(s) : s[i].mark <= l, l \in Nat,
         NEW n, Known(s, n)
  PROVE  Since(s, n, l + 1)
<1>1. PICK e \in 1 .. Len(s) : IsAt(s, n, e)
  BY DEF Known
<1>2. s[e].mark \in Nat /\ s[e].mark <= l
  BY StackType
<1>3. s[e].mark < l + 1
  BY <1>2
<1> QED BY <1>1, <1>3 DEF Since

\* Places in a queue whose first query is gone.
LEMMA OneLess ==
  ASSUME NEW l \in Nat, NEW c \in 1 .. l, c # 1
  PROVE  /\ c - 1 \in 1 .. l - 1 /\ (c - 1) + 1 = c
         /\ \A i \in 1 .. (c - 1) - 1 : i \in 1 .. l - 1 /\ i + 1 \in 1 .. c - 1
OBVIOUS

\* A query that discards moves up with the others.
LEMMA DiscardsShift ==
  ASSUME TxType, AnswerInv, Exec, NEW c \in 1 .. Len(queue), c # 1, NEW p, NEW m, Discards(c, p),
         queue[c].op = "ROLLBACK TO" /\ Since(stack, queue[c].name, p) =>
           Since(stack', queue[c].name, m)
  PROVE  c - 1 \in 1 .. Len(queue') /\ Discards(c - 1, m)'
<1>1. /\ Len(queue) \in Nat /\ Len(queue') = Len(queue) - 1
      /\ \A i \in 1 .. Len(queue') : queue'[i] = queue[i + 1] /\ i + 1 \in 1 .. Len(queue)
  BY ExecShift
<1>2. PICK l \in Nat : l = Len(queue) /\ Len(queue') = l - 1 /\ c \in 1 .. l
  BY <1>1
<1>3. PICK d \in 1 .. l - 1 : /\ d = c - 1 /\ d + 1 = c
                             /\ \A i \in 1 .. d - 1 : i \in 1 .. l - 1 /\ i + 1 \in 1 .. c - 1
  BY <1>2, OneLess
<1>5. d \in 1 .. Len(queue') /\ queue'[d] = queue[c]
  BY <1>1, <1>2, <1>3
<1>4. Discards(d, m)'
  <2>1. CASE queue[c].op = "ROLLBACK"
    <3>1. \A i \in 1 .. c - 1 : queue[i].op # "COMMIT"
      BY <2>1 DEF Discards
    <3>2. \A i \in 1 .. d - 1 : queue'[i].op # "COMMIT"
      BY <1>1, <1>2, <1>3, <3>1
    <3> QED BY <1>5, <2>1, <3>2 DEF Discards
  <2>2. CASE queue[c].op # "ROLLBACK"
    BY <1>5, <2>2 DEF Discards
  <2> QED BY <2>1, <2>2
<1> QED BY <1>3, <1>4, <1>5

\* What was found and came before p still does.
LEMMA ExecSince ==
  ASSUME TxInv, SpInv, Exec, ~Ended,
         NEW n, First.op \in Closers => Before(stack, n, First.name),
         First.op = "SAVEPOINT" => n # First.name,
         NEW p, Since(stack, n, p)
  PROVE  Since(stack', n, p)
<1>0. TxType /\ AnswerInv /\ SpType
  BY DEF TxInv, SpInv
<1>1. stack \in Stacks
  BY <1>0 DEF SpType
<1>2. CASE Pushed
  <2>1. PICK r \in [name : Int, mark : Nat] : r.name = First.name /\ stack' = Append(stack, r)
    <3>1. Len(pending) \in Nat /\ First.name \in Int
      BY <1>0, ExecShift DEF SpType, Queries
    <3> QED BY <1>2, <3>1 DEF Pushed
  <2>2. First.op = "SAVEPOINT"
    BY <1>2 DEF Pushed
  <2> QED BY <1>1, <2>1, <2>2, PushOrder
<1>3. CASE Released \/ GoneBack
  <2>0. PICK e \in 1 .. Len(stack) :
          /\ IsAt(stack, First.name, e)
          /\ stack' = SubSeq(stack, 1, e - 1) \/ stack' = SubSeq(stack, 1, e)
    BY <1>3 DEF Released, GoneBack
  <2>1. PICK k : (k = e - 1 \/ k = e) /\ stack' = SubSeq(stack, 1, k)
    BY <2>0
  <2>2. Before(stack, n, First.name)
    BY <1>3 DEF Released, GoneBack, Closers
  <2>3. PICK s, t, m : s \in Stacks /\ s = stack /\ t = stack' /\ t = SubSeq(s, 1, k) /\ m = First.name
    BY <1>1, <2>1
  <2>4. IsAt(s, m, e) /\ Before(s, n, m) /\ Since(s, n, p)
    BY <2>0, <2>2, <2>3
  <2>5. Since(t, n, p)
    BY <2>1, <2>3, <2>4, CutOrder
  <2> QED BY <2>3, <2>5
<1>4. CASE stack' = stack
  BY <1>4
<1> QED BY <1>2, <1>3, <1>4, ExecCases DEF Refused, Written

\* What is discarded is gone before anything is committed.
LEMMA ExecDoom == ASSUME TxInv, SpInv, Exec PROVE DoomInv'
<1>0. TxType /\ AnswerInv /\ SpType /\ WritesInv /\ OrderInv /\ ChainInv /\ HideInv /\ MarkInv /\ DoomInv
  BY DEF TxInv, SpInv
<1>1. /\ Len(queue) \in Nat /\ Len(queue') = Len(queue) - 1 /\ 1 \in 1 .. Len(queue)
      /\ \A i \in 1 .. Len(queue') : queue'[i] = queue[i + 1] /\ i + 1 \in 1 .. Len(queue)
      /\ UNCHANGED <<handles, savepoint, fate, writes>> /\ ~lost
  BY <1>0, ExecShift
<1>2. /\ stack' \in Stacks /\ Len(pending') \in Nat
      /\ \A i \in 1 .. Len(stack') : stack'[i].mark <= Len(pending')
      /\ ChainInv' /\ pending \in Seq(Nat) /\ Len(pending) \in Nat
      /\ stack \in Stacks /\ \A i \in 1 .. Len(stack) : stack[i].mark \in Nat
  <2>1. SpType' /\ MarkInv' /\ ChainInv'
    BY ExecMarks, ExecChain
  <2> QED BY <1>0, <2>1, StackType DEF SpType, MarkInv
<1>3. ASSUME NEW n, Known(stack', n) PROVE Since(stack', n, Len(pending') + 1)
  BY <1>2, <1>3, KnownSince
<1>4. CASE Ended
  <2>1. /\ pending' = <<>> /\ Len(pending') = 0
        /\ \A i \in 1 .. Len(queue') : queue'[i].op # "WRITE"
    BY <1>4, EndedFacts DEF Ended
  <2>2. \A i \in 1 .. 0 : FALSE
    OBVIOUS
  <2> QED BY <2>1, <2>2 DEF DoomInv
<1>5. CASE ~Ended
  \* An old place is kept as it was, a new one is that of the write executed.
  <2>1. ASSUME NEW p \in 1 .. Len(pending')
        PROVE  \/ /\ p \in 1 .. Len(pending) /\ pending'[p] = pending[p]
                  /\ GoneBack => \A e : IsAt(stack, First.name, e) => p <= stack[e].mark
               \/ p = Len(pending') /\ p = Len(pending) + 1 /\ Written /\ pending'[p] = First.name
    <3>1. CASE pending' = pending /\ ~GoneBack
      BY <2>1, <3>1
    <3>2. CASE GoneBack
      <4>1. PICK e \in 1 .. Len(stack) :
              IsAt(stack, First.name, e) /\ pending' = SubSeq(pending, 1, stack[e].mark)
        BY <3>2 DEF GoneBack
      <4>2. stack[e].mark \in 0 .. Len(pending)
        BY <1>0, <1>2, <4>1 DEF MarkInv
      <4>3. /\ p \in 1 .. stack[e].mark /\ p <= stack[e].mark
            /\ p \in 1 .. Len(pending) /\ pending'[p] = pending[p]
        BY <1>2, <2>1, <4>1, <4>2, CutType
      <4>4. \A d : IsAt(stack, First.name, d) => d = e
        BY <1>2, <4>1, OnePlace
      <4> QED BY <4>3, <4>4
    <3>3. CASE Written
      <4>1. First.name \in Nat
        <5>1. First.name \in 1 .. Len(writes) /\ Len(writes) \in Nat
          BY <1>0, <1>1, <3>3 DEF WritesInv, Written, First, SpType
        <5> QED BY <5>1
      <4>2. /\ Len(pending') = Len(pending) + 1 /\ pending'[Len(pending) + 1] = First.name
            /\ \A i \in 1 .. Len(pending) : pending'[i] = pending[i]
        BY <1>2, <3>3, <4>1, AppendType DEF Written
      <4>3. p = Len(pending) + 1 \/ p \in 1 .. Len(pending)
        BY <1>2, <2>1, <4>2
      <4>4. ~GoneBack
        BY <3>3 DEF GoneBack, Written
      <4> QED BY <3>3, <4>2, <4>3, <4>4
    <3> QED BY <1>5, <3>1, <3>2, <3>3, ExecCases DEF Refused, Pushed, Released, GoneBack
  <2>2. ASSUME NEW n, NEW p, Since(stack, n, p),
               First.op \in Closers => Before(stack, n, First.name),
               First.op = "SAVEPOINT" => n # First.name
        PROVE  Since(stack', n, p)
    BY <1>5, <2>2, ExecSince
  <2>3. ASSUME NEW p \in 1 .. Len(pending'), NEW j \in 2 .. Len(handles), Under(pending'[p], handles[j])
        PROVE  Since(stack', NameOf(j), p)
    <3>1. /\ First.op \in Closers => Before(stack, NameOf(j), First.name)
          /\ First.op = "SAVEPOINT" => NameOf(j) # First.name
      BY <1>0, <1>1 DEF ChainInv, HideInv, First
    <3>2. CASE p \in 1 .. Len(pending) /\ pending'[p] = pending[p]
      <4>1. Since(stack, NameOf(j), p)
        BY <1>0, <2>3, <3>2 DEF DoomInv
      <4> QED BY <2>2, <3>1, <4>1
    <3>3. CASE p = Len(pending) + 1 /\ Written
      <4>1. Known(stack, NameOf(j))
        BY <1>0, <1>1 DEF ChainInv
      <4>2. Since(stack, NameOf(j), Len(pending) + 1)
        BY <1>0, <1>2, <4>1, KnownSince DEF MarkInv
      <4> QED BY <2>2, <3>1, <3>3, <4>2
    <3> QED BY <2>1, <3>2, <3>3
  <2>4. ASSUME NEW c \in 2 .. Len(queue), NEW p, Discards(c, p)
        PROVE  c - 1 \in 1 .. Len(queue') /\ Discards(c - 1, p)'
    <3>1. /\ c \in 1 .. Len(queue) /\ c # 1 /\ c \in 1 + 1 .. Len(queue)
      BY <1>1
    <3>2. ASSUME queue[c].op = "ROLLBACK TO"
          PROVE  /\ First.op \in Closers => Before(stack, queue[c].name, First.name)
                 /\ First.op = "SAVEPOINT" => queue[c].name # First.name
      BY <1>0, <1>1, <3>1, <3>2 DEF ChainInv, HideInv, First, Closers
    <3>3. queue[c].op = "ROLLBACK TO" /\ Since(stack, queue[c].name, p) =>
            Since(stack', queue[c].name, p)
      BY <2>2, <3>2
    <3> QED BY <1>0, <2>4, <3>1, <3>3, DiscardsShift
  <2>5. ASSUME NEW p \in 1 .. Len(pending'), Discarded(pending'[p])
        PROVE  \E c \in 1 .. Len(queue') : Discards(c, p)'
    <3>1. PICK c \in 2 .. Len(queue) : Discards(c, p)
      <4>1. CASE /\ p \in 1 .. Len(pending) /\ pending'[p] = pending[p]
                 /\ GoneBack => \A e : IsAt(stack, First.name, e) => p <= stack[e].mark
        <5>1. PICK c \in 1 .. Len(queue) : Discards(c, p)
          BY <1>0, <2>5, <4>1 DEF DoomInv
        <5>2. c # 1
          <6>1. SUFFICES ASSUME c = 1 PROVE FALSE
            OBVIOUS
          <6>2. First.op = "ROLLBACK" \/ (First.op = "ROLLBACK TO" /\ Since(stack, First.name, p))
            BY <5>1, <6>1 DEF Discards, First
          <6>3. GoneBack /\ Since(stack, First.name, p)
            <7>1. ~Refused
              BY <6>2 DEF Refused, Enders
            <7>2. ~Pushed /\ ~Released /\ ~Written
              BY <6>2 DEF Pushed, Released, Written
            <7>3. GoneBack
              BY <1>5, <7>1, <7>2, ExecCases
            <7>4. First.op # "ROLLBACK"
              BY <7>3 DEF GoneBack
            <7> QED BY <6>2, <7>3, <7>4
          <6>4. PICK e \in 1 .. Len(stack) : IsAt(stack, First.name, e) /\ stack[e].mark < p
            BY <6>3 DEF Since
          <6>5. p <= stack[e].mark /\ stack[e].mark \in Nat /\ p \in Nat
            BY <1>2, <4>1, <6>3, <6>4
          <6> QED BY <6>4, <6>5
        <5>3. c \in 2 .. Len(queue)
          BY <1>1, <5>2
        <5> QED BY <5>1, <5>3
      <4>2. CASE p = Len(pending) + 1 /\ Written /\ pending'[p] = First.name
        <5>1. First.op = "WRITE" /\ Discarded(First.name)
          BY <2>5, <4>2 DEF Written
        <5>2. PICK c \in 1 + 1 .. Len(queue) : Discards(c, Len(pending) + 1)
          BY <1>0, <1>1, <5>1 DEF DoomInv, First
        <5> QED BY <4>2, <5>2
      <4> QED BY <2>1, <4>1, <4>2
    <3> QED BY <2>4, <3>1
  <2>6. ASSUME NEW i \in 1 .. Len(queue'), queue'[i].op = "WRITE", Discarded(queue'[i].name)
        PROVE  \E c \in i + 1 .. Len(queue') : Discards(c, Len(pending) + 1)'
    <3>1. queue'[i] = queue[i + 1] /\ i + 1 \in 1 .. Len(queue)
      BY <1>1
    <3>2. PICK c \in (i + 1) + 1 .. Len(queue) : Discards(c, Len(pending) + 1)
      BY <1>0, <2>6, <3>1 DEF DoomInv
    <3>3. /\ c \in 1 .. Len(queue) /\ c # 1 /\ c - 1 \in i + 1 .. Len(queue') /\ c - 1 \in 1 .. Len(queue')
          /\ queue'[c - 1] = queue[c]
      <4>1. c \in 1 .. Len(queue) /\ c # 1 /\ c - 1 \in i + 1 .. Len(queue') /\ c - 1 \in 1 .. Len(queue')
            /\ (c - 1) + 1 = c
        BY <1>1, <3>1
      <4> QED BY <1>1, <4>1
    <3>4. queue[c].op = "ROLLBACK TO" => Since(stack', queue[c].name, Len(pending') + 1)
      <4> SUFFICES ASSUME queue[c].op = "ROLLBACK TO" PROVE Since(stack', queue[c].name, Len(pending') + 1)
        OBVIOUS
      <4>1. Known(stack', queue[c].name)
        BY <1>2, <3>3 DEF ChainInv, Closers
      <4> QED BY <1>3, <4>1
    <3>5. PICK l, m : l = Len(pending) + 1 /\ m = Len(pending') + 1
      OBVIOUS
    <3>6. Discards(c - 1, m)'
      BY <1>0, <3>2, <3>3, <3>4, <3>5, DiscardsShift
    <3>7. \E d \in i + 1 .. Len(queue') : Discards(d, m)'
      BY <3>3, <3>6
    <3> QED BY <3>5, <3>7 DEF Discards
  <2>7. \A w : (\E i \in 1 .. Len(writes'[w]) : fate'[writes'[w][i]] = "rolledback") <=> Discarded(w)
    BY <1>1 DEF Discarded
  <2>8. \A w, h : (\E i \in 1 .. Len(writes'[w]) : writes'[w][i] = h) <=> Under(w, h)
    BY <1>1 DEF Under
  <2>9. \A p \in 1 .. Len(pending') : \A j \in 2 .. Len(handles') :
          Under(pending[p], handles[j])' => Since(stack', NameOf(j)', p)
    BY <1>1, <2>3, <2>8 DEF NameOf, Under
  <2>10. \A p \in 1 .. Len(pending') : Discarded(pending[p])' =>
           \E c \in 1 .. Len(queue') : Discards(c, p)'
    BY <2>5, <2>7 DEF Discarded
  <2>11. \A i \in 1 .. Len(queue') : queue'[i].op = "WRITE" /\ Discarded(queue[i].name)' =>
           \E c \in i + 1 .. Len(queue') : Discards(c, Len(pending) + 1)'
    BY <2>6, <2>7 DEF Discarded
  <2> QED BY <2>9, <2>10, <2>11 DEF DoomInv
<1> QED BY <1>4, <1>5

\* What a COMMIT finds was written under handles that were all committed.
LEMMA ExecCommitted == ASSUME TxInv, SpInv, Exec PROVE CommittedInv'
<1>0. TxType /\ AnswerInv /\ SpType /\ WritesInv /\ OrderInv /\ DoomInv /\ CommittedInv
  BY DEF TxInv, SpInv
<1>1. 1 \in 1 .. Len(queue) /\ Len(queue) \in Nat /\ UNCHANGED <<handles, fate, writes>>
  BY <1>0, ExecShift
<1>2. CASE committed' = committed
  BY <1>0, <1>1, <1>2 DEF CommittedInv
<1>3. CASE Ended /\ First.op = "COMMIT" /\ committed' = committed \cup Elements(pending)
  <2>1. Len(handles) = 0
    BY <1>3, EndedFacts
  <2>2. ASSUME NEW p \in 1 .. Len(pending) PROVE ~Discarded(pending[p])
    <3>1. SUFFICES ASSUME Discarded(pending[p]) PROVE FALSE
      OBVIOUS
    <3>2. PICK c \in 1 .. Len(queue) : Discards(c, p)
      BY <1>0, <3>1 DEF DoomInv
    <3>3. queue[c].op \in {"ROLLBACK", "ROLLBACK TO"} /\ queue[1].op = "COMMIT"
      BY <1>3, <3>2 DEF Discards, First
    <3>4. c # 1 /\ 1 < c /\ 1 \in 1 .. c - 1
      <4>1. c # 1
        BY <3>3
      <4> QED BY <1>1, <4>1
    <3>5. queue[c].op \in {"START", "ROLLBACK"}
      BY <1>0, <1>1, <3>3, <3>4 DEF OrderInv, Enders
    <3> QED BY <3>2, <3>3, <3>4, <3>5 DEF Discards
  <2>3. ASSUME NEW p \in 1 .. Len(pending), NEW i \in 1 .. Len(writes[pending[p]])
        PROVE  fate[writes[pending[p]][i]] = "committed"
    <3>1. PICK w \in 1 .. Len(writes) : w = pending[p]
      BY <1>0 DEF WritesInv
    <3>2. writes[w][i] \in Handle
      <4>1. writes[w] \in Seq(Handle)
        BY <1>0 DEF SpType
      <4> QED BY <2>3, <3>1, <4>1
    <3>3. fate[writes[w][i]] \in Fates /\ fate[writes[w][i]] # "none"
      BY <1>0, <2>3, <3>1, <3>2 DEF TxType, WritesInv
    <3>4. fate[writes[w][i]] # "open"
      <4>1. \A j \in 1 .. 0 : FALSE
        OBVIOUS
      <4> QED BY <1>0, <2>1, <3>2, <4>1 DEF WritesInv
    <3>5. fate[writes[w][i]] # "rolledback"
      BY <2>2, <2>3, <3>1 DEF Discarded
    <3> QED BY <3>1, <3>3, <3>4, <3>5 DEF Fates
  <2> QED BY <1>0, <1>1, <1>3, <2>3 DEF CommittedInv, Elements
<1> QED BY <1>2, <1>3, ExecCases DEF Refused, Ended, Pushed, Released, GoneBack, Written

\* Executing a query keeps what is known of the query whose answer is awaited.
LEMMA ExecAwaited == ASSUME TxInv, SpInv, Exec PROVE AwaitedInv'
<1>0. TxType /\ AnswerInv /\ SpType /\ AwaitedInv
  BY DEF TxInv, SpInv
<1>1. AnswerInv'
  BY ExecStep DEF TxInv
<1>2. /\ Len(queue) \in Nat /\ Len(queue') = Len(queue) - 1
      /\ \A i \in 1 .. Len(queue') : queue'[i] = queue[i + 1]
      /\ UNCHANGED <<savepoint, call, lost>> /\ Fresh' = Fresh /\ answer = "none"
      /\ answer' # "none" => Len(queue) = 1
  BY <1>0, ExecShift
<1> SUFFICES ASSUME call = "savepoint" PROVE AwaitedInv'
  BY <1>2 DEF AwaitedInv
<1>3. queue[Len(queue)] = Q("SAVEPOINT", savepoint[Fresh])
  BY <1>0, <1>2 DEF AwaitedInv
<1>4. ASSUME answer' = "none" PROVE queue'[Len(queue')] = Q("SAVEPOINT", savepoint[Fresh])
  <2>1. queue' # <<>> /\ queue' \in Seq(Queries)
    <3>1. queue' # <<>>
      BY <1>1, <1>2, <1>4 DEF AnswerInv
    <3> QED BY <3>1, ExecStep DEF TxInv, TxType
  <2>2. Len(queue') \in 1 .. Len(queue') /\ Len(queue') + 1 = Len(queue)
    <3>1. Len(queue') \in Nat /\ Len(queue') # 0
      BY <2>1
    <3> QED BY <1>2, <3>1
  <2> QED BY <1>2, <1>3, <2>2
<1>5. ASSUME answer' = "ok"
      PROVE  /\ stack' # <<>>
             /\ stack'[Len(stack')] = [name |-> savepoint[Fresh], mark |-> Len(pending')]
  <2>1. First.op = "SAVEPOINT" /\ First.name = savepoint[Fresh]
    <3>1. First = Q("SAVEPOINT", savepoint[Fresh])
      BY <1>2, <1>3, <1>5 DEF First
    <3> QED BY <3>1 DEF Q
  <2>2. Pushed
    BY <1>5, <2>1, ExecCases DEF Refused, Ended, Enders, Released, GoneBack, Written
  <2>3. PICK r \in [name : Int, mark : Nat] :
          r = [name |-> savepoint[Fresh], mark |-> Len(pending)] /\ stack' = Append(stack, r)
    <3>1. Len(pending) \in Nat /\ First.name \in Int
      BY <1>0, ExecShift DEF SpType, Queries
    <3> QED BY <2>1, <2>2, <3>1 DEF Pushed
  <2>4. Len(stack') = Len(stack) + 1 /\ stack'[Len(stack) + 1] = r /\ stack' # <<>>
    <3>1. stack \in Stacks
      BY <1>0 DEF SpType
    <3>2. Len(stack') = Len(stack) + 1 /\ stack'[Len(stack) + 1] = r /\ Len(stack) \in Nat
      BY <2>3, <3>1, PushKeeps
    <3>3. stack' # <<>>
      <4>1. Len(stack') # 0
        BY <3>2
      <4> QED BY <4>1
    <3> QED BY <3>2, <3>3
  <2> QED BY <2>2, <2>3, <2>4 DEF Pushed
<1>6. call' = call /\ savepoint' = savepoint /\ Fresh' = Fresh
  BY <1>2
<1>7. (savepoint[Fresh])' = savepoint[Fresh]
  BY <1>6
<1> QED BY <1>4, <1>5, <1>7 DEF AwaitedInv, Q

\* Executing a query keeps the savepoint invariant.
LEMMA SpExec == ASSUME TxInv, SpInv, Exec PROVE SpInv'
BY ExecMarks, ExecWrites, ExecOrder, ExecChain, ExecDoom, ExecCommitted, ExecAwaited DEF SpInv

\* With the connection, all of it is gone.
LEMMA SpLose == ASSUME TxInv, SpInv, Lose PROVE SpInv'
<1>0. TxType /\ SpType /\ WritesInv /\ HideInv /\ AwaitedInv /\ CommittedInv
  BY DEF TxInv, SpInv
<1>1. /\ lost' = TRUE /\ queue' = <<>> /\ tx' = "idle" /\ stack' = <<>> /\ pending' = <<>>
      /\ answer' = IF call # "none" /\ answer = "none" THEN "err" ELSE answer
      /\ UNCHANGED <<handles, savepoint, fate, writes, call, committed>>
  BY DEF Lose
<1>2. Len(queue') = 0 /\ Len(stack') = 0 /\ Len(pending') = 0 /\ \A i \in 1 .. 0 : FALSE
  BY <1>1
<1>3. SpType'
  BY <1>0, <1>1 DEF SpType, Stacks
<1>4. WritesInv'
  BY <1>0, <1>1, <1>2 DEF WritesInv
<1>5. OrderInv' /\ ChainInv' /\ MarkInv' /\ DoomInv'
  BY <1>1, <1>2 DEF OrderInv, ChainInv, MarkInv, DoomInv
<1>6. HideInv'
  <2>1. Fresh' = Fresh
    BY <1>1 DEF Fresh
  <2> QED BY <1>0, <1>1, <1>2, <2>1 DEF HideInv, NameOf
<1>7. AwaitedInv'
  BY <1>1 DEF AwaitedInv
<1>8. CommittedInv'
  BY <1>0, <1>1 DEF CommittedInv
<1> QED BY <1>3, <1>4, <1>5, <1>6, <1>7, <1>8 DEF SpInv

-----------------------------------------------------------------------------
(***************************************************************************)
(* What the application does.                                              *)
(***************************************************************************)

\* After a loss nothing is queued and nothing is on the stack.
LEMMA LostParts ==
  ASSUME TxInv, SpInv, lost
  PROVE  queue = <<>> /\ stack = <<>> /\ pending = <<>>
BY DEF TxInv, SpInv, AnswerInv, WritesInv

\* Once the connection is lost the parts about queue, stack and pending writes hold trivially.
LEMMA LostKeeps ==
  ASSUME TxInv, SpInv, lost, UNCHANGED <<queue, stack, pending, lost>>
  PROVE  OrderInv' /\ ChainInv' /\ MarkInv' /\ DoomInv'
<1>1. /\ lost' /\ Len(queue') = 0 /\ Len(stack') = 0 /\ Len(pending') = 0
      /\ \A i \in 1 .. 0 : FALSE
  BY LostParts
<1> QED BY <1>1 DEF OrderInv, ChainInv, MarkInv, DoomInv

\* Nothing is sent, opened or closed.
LEMMA DoomStays ==
  ASSUME TxInv, SpInv, UNCHANGED <<handles, fate, writes, queue, stack, pending>>,
         \A i \in 1 .. Len(handles) : savepoint'[handles[i]] = savepoint[handles[i]]
  PROVE  DoomInv'
<1>0. DoomInv /\ TxType
  BY DEF SpInv, TxInv
<1>1. \A j \in 2 .. Len(handles) : NameOf(j)' = NameOf(j)
  <2>1. \A j \in 2 .. Len(handles) : j \in 1 .. Len(handles)
    BY <1>0, QueueFacts
  <2> QED BY <2>1 DEF NameOf
<1>2. \A w : Discarded(w)' <=> Discarded(w)
  BY DEF Discarded
<1>3. \A w, h : Under(w, h)' <=> Under(w, h)
  BY DEF Under
<1>4. \A c, p : Discards(c, p)' <=> Discards(c, p)
  BY DEF Discards
<1>5. \A p \in 1 .. Len(pending) : \A j \in 2 .. Len(handles) :
        Under(pending[p], handles[j])' => Since(stack, NameOf(j)', p)
  BY <1>0, <1>1 DEF DoomInv, Under
<1>6. \A p \in 1 .. Len(pending) : Discarded(pending[p])' =>
        \E c \in 1 .. Len(queue) : Discards(c, p)'
  BY <1>0, <1>4 DEF DoomInv, Discarded
<1>7. \A i \in 1 .. Len(queue) : queue[i].op = "WRITE" /\ Discarded(queue[i].name)' =>
        \E c \in i + 1 .. Len(queue) : Discards(c, Len(pending) + 1)'
  <2>1. PICK m : m = Len(pending) + 1 /\ m = Len(pending') + 1
    OBVIOUS
  <2>2. \A i \in 1 .. Len(queue) : queue[i].op = "WRITE" /\ Discarded(queue[i].name) =>
          \E c \in i + 1 .. Len(queue) : Discards(c, m)'
    BY <1>0, <1>4, <2>1 DEF DoomInv
  <2>3. \A c : Discards(c, m)' <=> Discards(c, Len(pending) + 1)'
    BY <2>1 DEF Discards
  <2>4. \A i : Discarded(queue[i].name)' <=> Discarded(queue[i].name)
    BY DEF Discarded
  <2> QED BY <2>2, <2>3, <2>4
<1> QED BY <1>5, <1>6, <1>7 DEF DoomInv

\* A step of the client that sends, opens and closes nothing keeps the savepoint invariant.
LEMMA SpCalm ==
  ASSUME TxInv, SpInv, call' # "savepoint",
         UNCHANGED <<handles, fate, writes, queue, tx, stack, pending, committed, lost>>,
         \A i \in 1 .. Len(handles) : savepoint'[handles[i]] = savepoint[handles[i]]
  PROVE  SpInv'
<1>0. SpType /\ WritesInv /\ OrderInv /\ ChainInv /\ HideInv /\ MarkInv /\ DoomInv /\ CommittedInv /\ TxType
  BY DEF SpInv, TxInv
<1>1. SpType' /\ WritesInv' /\ OrderInv' /\ MarkInv' /\ CommittedInv'
  BY <1>0 DEF SpType, WritesInv, OrderInv, MarkInv, CommittedInv
<1>2. \A j \in 2 .. Len(handles) : NameOf(j)' = NameOf(j)
  <2>1. \A j \in 2 .. Len(handles) : j \in 1 .. Len(handles)
    BY <1>0, QueueFacts
  <2> QED BY <2>1 DEF NameOf
<1>3. \A j \in 2 .. Len(handles) : \A k \in j + 1 .. Len(handles) : k \in 2 .. Len(handles)
  BY <1>0, QueueFacts
<1>4. ChainInv'
  BY <1>0, <1>2, <1>3 DEF ChainInv
<1>5. HideInv' /\ AwaitedInv'
  BY <1>0, <1>2 DEF HideInv, AwaitedInv
<1>6. DoomInv'
  BY DoomStays
<1> QED BY <1>1, <1>4, <1>5, <1>6 DEF SpInv

\* A query at the end of the queue discards nothing less.
LEMMA DiscardsAppend ==
  ASSUME TxType, NEW q \in Queries, queue' = Append(queue, q), stack' = stack,
         NEW c \in 1 .. Len(queue), NEW p, Discards(c, p)
  PROVE  Discards(c, p)'
<1>1. \A i \in 1 .. Len(queue) : queue'[i] = queue[i]
  BY Appended
<1>2. \A i \in 1 .. c - 1 : i \in 1 .. Len(queue)
  BY QueueFacts
<1> QED BY <1>1, <1>2 DEF Discards

\* Another query, which opens or closes no savepoint and no handle, leaves the
\* savepoints as they are.
LEMMA AppendChain ==
  ASSUME TxInv, SpInv, NEW q \in Queries, queue' = Append(queue, q), q.op \notin Closers,
         UNCHANGED <<handles, stack, lost>>,
         \A i \in 1 .. Len(handles) : savepoint'[handles[i]] = savepoint[handles[i]]
  PROVE  ChainInv'
<1>0. ChainInv /\ TxType
  BY DEF SpInv, TxInv
<1>1. /\ Len(queue) \in Nat /\ Len(queue') = Len(queue) + 1 /\ queue'[Len(queue) + 1] = q
      /\ \A i \in 1 .. Len(queue) : queue'[i] = queue[i]
  BY <1>0, Appended, QueueFacts
<1>2. \A c \in 1 .. Len(queue') : queue'[c].op \in Closers => c \in 1 .. Len(queue)
  BY <1>1
<1>3. \A c \in 1 .. Len(queue) : \A d \in c + 1 .. Len(queue') :
        d \in 1 .. Len(queue') /\ (d \in 1 .. Len(queue) => d \in c + 1 .. Len(queue))
  BY <1>1
<1>4. /\ \A j \in 2 .. Len(handles) : savepoint'[handles[j]] = NameOf(j)
      /\ \A j \in 2 .. Len(handles) : \A k \in j + 1 .. Len(handles) : k \in 2 .. Len(handles)
  <2>1. \A j \in 2 .. Len(handles) : j \in 1 .. Len(handles)
    BY <1>0, QueueFacts
  <2>2. \A j \in 2 .. Len(handles) : \A k \in j + 1 .. Len(handles) : k \in 2 .. Len(handles)
    BY <1>0, QueueFacts
  <2> QED BY <2>1, <2>2 DEF NameOf
<1>5. ASSUME NEW c \in 1 .. Len(queue'), queue'[c].op \in Closers
      PROVE  /\ Known(stack, queue'[c].name)
             /\ \A j \in 2 .. Len(handles) : Before(stack, NameOf(j), queue'[c].name)
             /\ \A d \in c + 1 .. Len(queue') : queue'[d].op \in Closers =>
                  Before(stack, queue'[d].name, queue'[c].name)
  BY <1>0, <1>1, <1>2, <1>3, <1>5 DEF ChainInv
<1> QED BY <1>0, <1>4, <1>5 DEF ChainInv, NameOf

\* What is doomed stays so when a query is added and no handle closed.
LEMMA AppendDoom ==
  ASSUME TxInv, SpInv, NEW q \in Queries, queue' = Append(queue, q),
         UNCHANGED <<handles, stack, pending, fate>>,
         \A i \in 1 .. Len(handles) : savepoint'[handles[i]] = savepoint[handles[i]],
         \A w \in 1 .. Len(writes) : writes'[w] = writes[w],
         q.op = "WRITE" => ~Discarded(q.name)'
  PROVE  DoomInv'
<1>0. DoomInv /\ WritesInv /\ TxType
  BY DEF SpInv, TxInv
<1>1. /\ Len(queue) \in Nat /\ Len(queue') = Len(queue) + 1 /\ queue'[Len(queue) + 1] = q
      /\ \A i \in 1 .. Len(queue) : queue'[i] = queue[i] /\ i \in 1 .. Len(queue')
      /\ \A i \in 1 .. Len(queue') : i \in 1 .. Len(queue) \/ i = Len(queue) + 1
  <2>1. /\ Len(queue) \in Nat /\ Len(queue') = Len(queue) + 1 /\ queue'[Len(queue) + 1] = q
        /\ \A i \in 1 .. Len(queue) : queue'[i] = queue[i]
    BY <1>0, Appended, QueueFacts
  <2> QED BY <2>1
<1>2. \A j \in 2 .. Len(handles) : savepoint'[handles[j]] = NameOf(j)
  <2>1. \A j \in 2 .. Len(handles) : j \in 1 .. Len(handles)
    BY <1>0, QueueFacts
  <2> QED BY <2>1 DEF NameOf
<1>3. \A w \in 1 .. Len(writes) : Discarded(w)' <=> Discarded(w)
  BY DEF Discarded
<1>4. \A w \in 1 .. Len(writes) : \A h : Under(w, h)' <=> Under(w, h)
  BY DEF Under
<1>5. ASSUME NEW p \in 1 .. Len(pending), NEW j \in 2 .. Len(handles), Under(pending[p], handles[j])'
      PROVE  Since(stack, NameOf(j)', p)
  <2>1. PICK w, h : w \in 1 .. Len(writes) /\ w = pending[p] /\ h = handles[j]
    BY <1>0 DEF WritesInv
  <2>2. Under(w, h)'
    BY <1>5, <2>1 DEF Under
  <2>3. Under(pending[p], handles[j])
    BY <1>4, <2>1, <2>2
  <2>4. NameOf(j)' = NameOf(j)
    BY <1>2 DEF NameOf
  <2> QED BY <1>0, <2>3, <2>4 DEF DoomInv
<1>6. ASSUME NEW p \in 1 .. Len(pending), Discarded(pending[p])'
      PROVE  \E c \in 1 .. Len(queue') : Discards(c, p)'
  <2>1. PICK w \in 1 .. Len(writes) : w = pending[p]
    BY <1>0 DEF WritesInv
  <2>2. Discarded(w)'
    BY <1>6, <2>1 DEF Discarded
  <2>3. Discarded(pending[p])
    BY <1>3, <2>1, <2>2
  <2>4. PICK c \in 1 .. Len(queue) : Discards(c, p)
    BY <1>0, <2>3 DEF DoomInv
  <2> QED BY <1>0, <1>1, <2>4, DiscardsAppend
<1>7. ASSUME NEW i \in 1 .. Len(queue'), queue'[i].op = "WRITE", Discarded(queue[i].name)'
      PROVE  \E c \in i + 1 .. Len(queue') : Discards(c, Len(pending) + 1)'
  <2>1. i \in 1 .. Len(queue)
    <3>1. PICK w : w = q.name
      OBVIOUS
    <3>2. CASE i = Len(queue) + 1
      <4>1. queue'[i] = q
        BY <1>1, <3>2
      <4>2. Discarded(q.name)'
        BY <1>7, <4>1 DEF Discarded
      <4> QED BY <1>7, <4>1, <4>2
    <3> QED BY <1>1, <3>2
  <2>2. PICK w \in 1 .. Len(writes) : w = queue[i].name /\ w = queue'[i].name /\ queue[i].op = "WRITE"
    BY <1>0, <1>1, <1>7, <2>1 DEF WritesInv
  <2>3. Discarded(w)'
    BY <1>7, <2>2 DEF Discarded
  <2>4. Discarded(queue[i].name)
    BY <1>3, <2>2, <2>3
  <2>5. PICK c \in i + 1 .. Len(queue) : Discards(c, Len(pending) + 1)
    BY <1>0, <2>1, <2>2, <2>4 DEF DoomInv
  <2>6. c \in 1 .. Len(queue) /\ c \in i + 1 .. Len(queue')
    BY <1>1, <2>1
  <2>7. PICK m : m = Len(pending) + 1
    OBVIOUS
  <2>8. Discards(c, m)'
    BY <1>0, <2>5, <2>6, <2>7, DiscardsAppend
  <2> QED BY <2>6, <2>7, <2>8 DEF Discards
<1> QED BY <1>5, <1>6, <1>7 DEF DoomInv

\* Sending a query at its turn keeps the order of the queue.
LEMMA AppendOrder ==
  ASSUME TxType, OrderInv, NEW q \in Queries, queue' = Append(queue, q),
         q.op \in {"START", "ROLLBACK"} \/ handles # <<>>,
         handles' # <<>> => handles # <<>> /\ q.op \notin Enders \cup {"START"}
  PROVE  OrderInv'
<1>1. /\ Len(queue) \in Nat /\ Len(queue') = Len(queue) + 1 /\ queue'[Len(queue) + 1] = q
      /\ \A i \in 1 .. Len(queue) : queue'[i] = queue[i]
  BY Appended, QueueFacts
<1>2. \A i \in 1 .. Len(queue') : i \in 1 .. Len(queue) \/ i = Len(queue) + 1
  BY <1>1
<1>3. \A i, j \in 1 .. Len(queue') : i < j => i \in 1 .. Len(queue)
  BY <1>1
<1>4. ASSUME NEW i \in 1 .. Len(queue'), NEW j \in 1 .. Len(queue'), i < j,
             queue'[i].op \in Enders \cup {"START"}
      PROVE  queue'[j].op \in {"START", "ROLLBACK"}
  <2>1. i \in 1 .. Len(queue) /\ queue[i].op \in Enders \cup {"START"}
    BY <1>1, <1>3, <1>4
  <2>2. handles = <<>>
    BY <2>1 DEF OrderInv
  <2>3. CASE j = Len(queue) + 1
    BY <1>1, <2>2, <2>3
  <2>4. CASE j \in 1 .. Len(queue)
    BY <1>1, <1>4, <2>1, <2>4 DEF OrderInv
  <2> QED BY <1>2, <2>3, <2>4
<1>5. ASSUME handles' # <<>>, NEW i \in 1 .. Len(queue') PROVE queue'[i].op \notin Enders \cup {"START"}
  BY <1>1, <1>2, <1>5 DEF OrderInv
<1> QED BY <1>4, <1>5 DEF OrderInv

\* Sending a query keeps that no savepoint still to be made hides one in use: its name
\* is not that of an open handle.
LEMMA AppendHide ==
  ASSUME TxType, HideInv, NEW q \in Queries, queue' = Append(queue, q), handles' = handles,
         \A i \in 1 .. Len(handles) : savepoint'[handles[i]] = savepoint[handles[i]],
         q.op \notin Closers,
         q.op = "SAVEPOINT" => \A j \in 2 .. Len(handles) : q.name # NameOf(j),
         call' = "savepoint" => savepoint'[Fresh'] = q.name /\ q.op = "SAVEPOINT"
  PROVE  HideInv'
<1>1. /\ Len(queue) \in Nat /\ Len(queue') = Len(queue) + 1 /\ queue'[Len(queue) + 1] = q
      /\ \A i \in 1 .. Len(queue) : queue'[i] = queue[i]
  BY Appended, QueueFacts
<1>2. \A i \in 1 .. Len(queue') : i \in 1 .. Len(queue) \/ i = Len(queue) + 1
  BY <1>1
<1>3. \A i \in 1 .. Len(queue') : \A c \in i + 1 .. Len(queue') :
        c \in 1 .. Len(queue') /\ (c \in 1 .. Len(queue) => c \in i + 1 .. Len(queue))
  BY <1>1
<1>4. \A j \in 2 .. Len(handles) : savepoint'[handles[j]] = NameOf(j)
  <2>1. \A j \in 2 .. Len(handles) : j \in 1 .. Len(handles)
    BY QueueFacts
  <2> QED BY <2>1 DEF NameOf
<1>5. \A i \in 1 .. Len(queue) : \A c \in i + 1 .. Len(queue') : queue'[c].op \in Closers =>
        c \in i + 1 .. Len(queue) /\ queue'[c] = queue[c]
  <2>1. \A i \in 1 .. Len(queue) : i \in 1 .. Len(queue')
    BY <1>1
  <2>2. \A c \in 1 .. Len(queue') : queue'[c].op \in Closers => c \in 1 .. Len(queue)
    BY <1>1, <1>2
  <2> QED BY <1>1, <1>3, <2>1, <2>2
<1>6. ASSUME NEW i \in 1 .. Len(queue'), queue'[i].op = "SAVEPOINT"
      PROVE  /\ \A j \in 2 .. Len(handles) : queue'[i].name # NameOf(j)
             /\ \A c \in i + 1 .. Len(queue') : queue'[c].op \in Closers => queue'[c].name # queue'[i].name
  <2>1. CASE i = Len(queue) + 1
    <3>1. queue'[i] = q /\ \A c \in i + 1 .. Len(queue') : FALSE
      BY <1>1, <2>1
    <3> QED BY <1>6, <3>1
  <2>2. CASE i \in 1 .. Len(queue)
    BY <1>1, <1>5, <1>6, <2>2 DEF HideInv
  <2> QED BY <1>2, <2>1, <2>2
<1>7. call' = "savepoint" => \A j \in 2 .. Len(handles) : savepoint'[Fresh'] # NameOf(j)
  OBVIOUS
<1> QED BY <1>4, <1>6, <1>7 DEF HideInv, NameOf

\* A start, or the rollback of one that was given up.
LEMMA SpOutside ==
  ASSUME TxInv, SpInv, handles = <<>>, NEW q \in Queries, q.op \in {"START", "ROLLBACK"},
         queue' = Append(queue, q), call' # "savepoint",
         UNCHANGED <<handles, savepoint, fate, writes, tx, stack, pending, committed, lost>>
  PROVE  SpInv'
<1>0. /\ SpType /\ WritesInv /\ OrderInv /\ ChainInv /\ HideInv /\ MarkInv /\ DoomInv /\ CommittedInv
      /\ TxType
  BY DEF SpInv, TxInv
<1>1. /\ Len(queue) \in Nat /\ Len(queue') = Len(queue) + 1 /\ queue'[Len(queue) + 1] = q
      /\ \A i \in 1 .. Len(queue) : queue'[i] = queue[i]
  BY <1>0, Appended, QueueFacts
<1>2. \A i \in 1 .. Len(queue') : i \in 1 .. Len(queue) \/ i = Len(queue) + 1
  BY <1>1
<1>3. SpType' /\ MarkInv' /\ CommittedInv'
  BY <1>0 DEF SpType, MarkInv, CommittedInv
<1>4. WritesInv'
  BY <1>0, <1>1, <1>2 DEF WritesInv
<1>5. OrderInv'
  BY <1>0, AppendOrder
<1>6. ChainInv'
  BY AppendChain DEF Closers
<1>7. HideInv'
  BY <1>0, AppendHide DEF Closers
<1>8. AwaitedInv'
  BY DEF AwaitedInv
<1>9. DoomInv'
  BY AppendDoom
<1> QED BY <1>3, <1>4, <1>5, <1>6, <1>7, <1>8, <1>9 DEF SpInv

\* Another savepoint is asked for, of a name that no open handle has.
LEMMA SpSavepoint == ASSUME TxInv, SpInv, ~NamesReused, NEW n \in Name, Savepoint(n) PROVE SpInv'
<1>0. /\ SpType /\ WritesInv /\ OrderInv /\ ChainInv /\ HideInv /\ MarkInv /\ DoomInv /\ CommittedInv
      /\ TxType /\ AnswerInv /\ NamesInv
  BY DEF SpInv, TxInv
<1>1. PICK q \in Queries : q = Q("SAVEPOINT", n) /\ q.op = "SAVEPOINT" /\ q.name = n
  <2>1. Q("SAVEPOINT", n) \in Queries
    BY TransactionAssumption DEF Q, Queries, Ops, Name, Handle
  <2> QED BY <2>1 DEF Q
<1>2. /\ handles # <<>> /\ Fresh \in Handle /\ Await("savepoint", q)
      /\ \A i \in 1 .. Len(handles) : savepoint[handles[i]] # n
      /\ savepoint' = [savepoint EXCEPT ![Fresh] = n]
      /\ UNCHANGED <<handles, fate, writes, lost, tx, stack, pending, committed>>
  BY <1>1 DEF Savepoint, serverVars
<1>3. /\ call = "none" /\ call' = "savepoint" /\ answer = "none"
      /\ \/ lost /\ queue' = queue /\ answer' = "err" /\ Len(queue) = 0
         \/ ~lost /\ queue' = Append(queue, q) /\ answer' = "none"
  BY <1>0, <1>2, AwaitFacts DEF Calls
<1>4. fate[Fresh] = "none" /\ Fresh' = Fresh
  BY <1>0, <1>2, FreshNext DEF Handle, Fresh
<1>5. savepoint'[Fresh] = n /\ \A h \in Handle : h # Fresh => savepoint'[h] = savepoint[h]
  BY <1>0, <1>2 DEF TxType
<1>6. \A i \in 1 .. Len(handles) : savepoint'[handles[i]] = savepoint[handles[i]]
  BY <1>0, <1>4, <1>5, QueueFacts DEF NamesInv
<1>7. SpType' /\ MarkInv' /\ CommittedInv'
  BY <1>0, <1>2 DEF SpType, MarkInv, CommittedInv
<1>8. \A j \in 2 .. Len(handles) : NameOf(j) # n /\ savepoint'[handles[j]] # n
  <2>1. \A j \in 2 .. Len(handles) : j \in 1 .. Len(handles)
    BY <1>0, QueueFacts
  <2> QED BY <1>2, <1>6, <2>1 DEF NameOf
<1>9. CASE lost
  <2>1. queue' = queue /\ answer' = "err" /\ Len(queue) = 0 /\ \A i \in 1 .. 0 : FALSE
    BY <1>3, <1>9
  <2>2. WritesInv'
    BY <1>0, <1>2, <2>1 DEF WritesInv
  <2>3. OrderInv' /\ ChainInv' /\ MarkInv' /\ DoomInv'
    BY <1>2, <1>9, <2>1, LostKeeps
  <2>4. HideInv'
    BY <1>2, <1>4, <1>5, <1>8, <2>1 DEF HideInv, NameOf
  <2>5. AwaitedInv'
    BY <2>1 DEF AwaitedInv
  <2> QED BY <1>7, <2>2, <2>3, <2>4, <2>5 DEF SpInv
<1>10. CASE ~lost
  <2>1. queue' = Append(queue, q) /\ answer' = "none"
    BY <1>3, <1>10
  <2>2. /\ Len(queue) \in Nat /\ Len(queue') = Len(queue) + 1 /\ queue'[Len(queue) + 1] = q
        /\ \A i \in 1 .. Len(queue) : queue'[i] = queue[i]
    BY <1>0, <2>1, Appended, QueueFacts
  <2>3. \A i \in 1 .. Len(queue') : i \in 1 .. Len(queue) \/ i = Len(queue) + 1
    BY <2>2
  <2>4. WritesInv'
    BY <1>0, <1>1, <1>2, <2>2, <2>3 DEF WritesInv
  <2>5. OrderInv'
    BY <1>0, <1>1, <1>2, <2>1, AppendOrder DEF Enders
  <2>6. ChainInv'
    BY <1>1, <1>2, <1>6, <2>1, AppendChain DEF Closers
  <2>7. HideInv'
    BY <1>0, <1>1, <1>2, <1>4, <1>5, <1>6, <1>8, <2>1, AppendHide DEF Closers
  <2>8. AwaitedInv'
    <3>1. (savepoint[Fresh])' = n
      BY <1>4, <1>5
    <3>2. queue'[Len(queue')] = Q("SAVEPOINT", n)
      BY <1>1, <2>2
    <3> QED BY <2>1, <3>1, <3>2 DEF AwaitedInv, Q
  <2>9. DoomInv'
    BY <1>1, <1>2, <1>6, <2>1, AppendDoom
  <2> QED BY <1>7, <2>4, <2>5, <2>6, <2>7, <2>8, <2>9 DEF SpInv
<1> QED BY <1>9, <1>10

\* A write is asked for, under the handles that are open.
LEMMA SpWriteRow == ASSUME TxInv, SpInv, WriteRow PROVE SpInv'
<1>0. /\ SpType /\ WritesInv /\ OrderInv /\ ChainInv /\ HideInv /\ MarkInv /\ DoomInv /\ CommittedInv
      /\ TxType /\ AnswerInv /\ NamesInv
  BY DEF SpInv, TxInv
<1>1. PICK q \in Queries : q = Q("WRITE", NewWrite) /\ q.op = "WRITE" /\ q.name = Len(writes) + 1
  <2>1. Q("WRITE", NewWrite) \in Queries
    BY TransactionAssumption DEF WriteRow, Q, Queries, Ops, Write
  <2> QED BY <2>1 DEF Q, NewWrite
<1>2. /\ handles # <<>> /\ Await("write", q) /\ writes' = Append(writes, handles)
      /\ UNCHANGED <<handles, savepoint, fate, lost, tx, stack, pending, committed>>
  BY <1>1 DEF WriteRow, serverVars
<1>3. /\ call = "none" /\ call' = "write" /\ answer = "none"
      /\ \/ lost /\ queue' = queue /\ answer' = "err" /\ Len(queue) = 0
         \/ ~lost /\ queue' = Append(queue, q) /\ answer' = "none"
  BY <1>0, <1>2, AwaitFacts DEF Calls
<1>4. /\ writes' \in Seq(Seq(Handle)) /\ Len(writes') = Len(writes) + 1 /\ Len(writes) \in Nat
      /\ writes'[Len(writes) + 1] = handles
      /\ \A w \in 1 .. Len(writes) : writes'[w] = writes[w] /\ w \in 1 .. Len(writes) + 1
  <2>1. writes \in Seq(Seq(Handle)) /\ handles \in Seq(Handle)
    BY <1>0 DEF SpType, TxType
  <2> QED BY <1>2, <2>1, AppendType
<1>5. \A w \in 1 .. Len(writes') : w \in 1 .. Len(writes) \/ w = Len(writes) + 1
  BY <1>4
<1>6. \A i \in 1 .. Len(handles) : fate[handles[i]] = "open"
  BY <1>0 DEF NamesInv
<1>7. SpType' /\ MarkInv'
  BY <1>0, <1>2, <1>4 DEF SpType, MarkInv
<1>8. CommittedInv'
  BY <1>0, <1>2, <1>4 DEF CommittedInv, WritesInv
<1>9. \A w \in 1 .. Len(writes') : \A i \in 1 .. Len(writes'[w]) : fate[writes'[w][i]] # "none"
  <2>1. SUFFICES ASSUME NEW w \in 1 .. Len(writes'), NEW i \in 1 .. Len(writes'[w])
                 PROVE  fate[writes'[w][i]] # "none"
    OBVIOUS
  <2>2. CASE w \in 1 .. Len(writes)
    <3>1. writes'[w] = writes[w]
      BY <1>4, <2>2
    <3>2. \A j \in 1 .. Len(writes[w]) : fate[writes[w][j]] # "none"
      BY <1>0, <2>2 DEF WritesInv
    <3> QED BY <2>1, <3>1, <3>2
  <2>3. CASE w = Len(writes) + 1
    <3>1. writes'[w] = handles
      BY <1>4, <2>3
    <3> QED BY <1>6, <2>1, <3>1
  <2> QED BY <1>5, <2>1, <2>2, <2>3
<1>10. /\ \A p \in 1 .. Len(pending) : pending[p] \in 1 .. Len(writes')
       /\ committed \subseteq 1 .. Len(writes')
  BY <1>0, <1>4 DEF WritesInv
<1>11. AwaitedInv'
  BY <1>3 DEF AwaitedInv
<1>12. CASE lost
  <2>1. queue' = queue /\ Len(queue) = 0 /\ \A i \in 1 .. 0 : FALSE
    BY <1>3, <1>12
  <2>2. WritesInv'
    BY <1>0, <1>2, <1>9, <1>10, <2>1 DEF WritesInv
  <2>3. OrderInv' /\ ChainInv' /\ MarkInv' /\ DoomInv'
    BY <1>2, <1>12, <2>1, LostKeeps
  <2>4. HideInv'
    BY <1>3, <2>1 DEF HideInv
  <2> QED BY <1>7, <1>8, <1>11, <2>2, <2>3, <2>4 DEF SpInv
<1>13. CASE ~lost
  <2>1. queue' = Append(queue, q) /\ answer' = "none"
    BY <1>3, <1>13
  <2>2. /\ Len(queue) \in Nat /\ Len(queue') = Len(queue) + 1 /\ queue'[Len(queue) + 1] = q
        /\ \A i \in 1 .. Len(queue) : queue'[i] = queue[i]
    BY <1>0, <2>1, Appended, QueueFacts
  <2>3. \A i \in 1 .. Len(queue') : i \in 1 .. Len(queue) \/ i = Len(queue) + 1
    BY <2>2
  <2>4. \A i \in 1 .. Len(queue') : queue'[i].op = "WRITE" => queue'[i].name \in 1 .. Len(writes')
    <3>1. Len(writes) + 1 \in 1 .. Len(writes')
      BY <1>4
    <3>2. \A i \in 1 .. Len(queue) : queue[i].op = "WRITE" => queue[i].name \in 1 .. Len(writes')
      BY <1>0, <1>4 DEF WritesInv
    <3> QED BY <1>1, <2>2, <2>3, <3>1, <3>2
  <2>5. WritesInv'
    BY <1>0, <1>2, <1>9, <1>10, <2>4 DEF WritesInv
  <2>6. OrderInv'
    BY <1>0, <1>1, <1>2, <2>1, AppendOrder DEF Enders
  <2>7. ChainInv'
    BY <1>1, <1>2, <2>1, AppendChain DEF Closers
  <2>8. HideInv'
    BY <1>0, <1>1, <1>2, <1>3, <2>1, AppendHide DEF Closers
  <2>9. ~Discarded(q.name)'
    <3>1. PICK w : w = Len(writes) + 1
      OBVIOUS
    <3>2. writes'[w] = handles /\ q.name = w
      BY <1>1, <1>4, <3>1
    <3>3. ~Discarded(w)'
      BY <1>2, <1>6, <3>2 DEF Discarded
    <3> QED BY <3>2, <3>3
  <2>10. DoomInv'
    BY <1>1, <1>2, <1>4, <2>1, <2>9, AppendDoom
  <2> QED BY <1>7, <1>8, <1>11, <2>5, <2>6, <2>7, <2>8, <2>10 DEF SpInv
<1> QED BY <1>12, <1>13

\* Places in the list of handles without its last.
LEMMA FrontRange ==
  ASSUME NEW l \in Nat, NEW m \in Nat, l = m + 1
  PROVE  /\ \A j \in 2 .. m : j \in 2 .. l /\ j \in 1 .. m /\ l \in j + 1 .. l
         /\ \A j \in 2 .. m : \A k \in j + 1 .. m : k \in j + 1 .. l /\ k \in 1 .. m
         /\ l # 1 => l \in 2 .. l
         /\ l \in 1 .. l /\ \A j \in 1 .. l : j \in 1 .. m \/ j = l
OBVIOUS

\* Places in a queue with one query more.
LEMMA OneMoreRange ==
  ASSUME NEW n \in Nat, NEW e \in Nat, e = n + 1
  PROVE  /\ \A i \in 1 .. e : i \in 1 .. n \/ i = e
         /\ \A i \in 1 .. n : i \in 1 .. e /\ e \in i + 1 .. e
         /\ \A i \in 1 .. n : \A c \in i + 1 .. e : c = e \/ (c \in i + 1 .. n /\ c \in 1 .. n)
         /\ \A i \in 1 .. n : \A c \in i + 1 .. n : c \in 1 .. n /\ c \in i + 1 .. e
         /\ e \in 1 .. e /\ \A c \in e + 1 .. e : FALSE
OBVIOUS

\* Query q closes the innermost handle as f says.
Closes(q, f) ==
  /\ IF savepoint[Top] = NoName THEN q.op \in Enders
                              ELSE q.op \in Closers /\ q.name = savepoint[Top]
  /\ f = "rolledback" => q.op \in {"ROLLBACK", "ROLLBACK TO"}

\* The innermost handle is closed, and a query sent that closes its savepoint
\* or, for the outermost, ends the transaction.
LEMMA SpClose ==
  ASSUME TxInv, SpInv, handles # <<>>, NEW f \in {"committed", "rolledback"}, Close(f),
         NEW q \in Queries,
         Closes(q, f),
         \/ lost /\ queue' = queue
         \/ ~lost /\ queue' = Append(queue, q),
         call' # "savepoint"
  PROVE  SpInv'
<1>0. /\ SpType /\ WritesInv /\ OrderInv /\ ChainInv /\ HideInv /\ MarkInv /\ DoomInv /\ CommittedInv
      /\ TxType /\ NamesInv
  BY DEF SpInv, TxInv
<1>1. /\ fate' = [fate EXCEPT ![Top] = f] /\ handles' = SubSeq(handles, 1, Len(handles) - 1)
      /\ UNCHANGED <<savepoint, writes, tx, stack, pending, committed, lost>>
  BY DEF Close, serverVars
<1>2. /\ Len(handles) \in 1 .. Len(handles) /\ Top \in Handle /\ fate[Top] = "open"
      /\ savepoint[Top] = NoName <=> Len(handles) = 1
  BY <1>0, TopFacts
<1>3. PICK l, m \in Nat :
        /\ l = Len(handles) /\ l = m + 1 /\ Len(handles') = m
        /\ \A i \in 1 .. m : handles'[i] = handles[i] /\ i \in 1 .. l
        /\ Top = handles[l] /\ savepoint[Top] = NameOf(l)
  <2>0. Len(handles) \in Nat
    BY <1>0, QueueFacts
  <2>1. handles \in Seq(Handle) /\ Len(handles) >= 1 /\ Len(handles) - 1 \in Nat
    BY <1>0, <1>2, <2>0 DEF TxType
  <2>2. /\ Len(handles') = Len(handles) - 1
        /\ \A i \in 1 .. Len(handles) - 1 : handles'[i] = handles[i] /\ i \in 1 .. Len(handles)
    BY <1>1, <2>1, FrontType
  <2>3. PICK m \in Nat : m = Len(handles) - 1 /\ Len(handles) = m + 1
    BY <2>0, <2>1
  <2> QED BY <2>0, <2>2, <2>3 DEF Top, NameOf
<1>4. /\ fate'[Top] = f /\ \A h \in Handle : h # Top => fate'[h] = fate[h]
  BY <1>0, <1>1, <1>2 DEF TxType
<1>5. \A w \in 1 .. Len(writes) : \A i \in 1 .. Len(writes[w]) : writes[w][i] \in Handle
  <2> SUFFICES ASSUME NEW w \in 1 .. Len(writes), NEW i \in 1 .. Len(writes[w]) PROVE writes[w][i] \in Handle
    OBVIOUS
  <2>1. writes[w] \in Seq(Handle)
    BY <1>0 DEF SpType
  <2> QED BY <2>1
<1>6. /\ \A j \in 2 .. m : j \in 2 .. l /\ j \in 1 .. m /\ l \in j + 1 .. l
      /\ \A j \in 2 .. m : \A k \in j + 1 .. m : k \in j + 1 .. l /\ k \in 1 .. m
      /\ l # 1 => l \in 2 .. l
      /\ l \in 1 .. l /\ \A j \in 1 .. l : j \in 1 .. m \/ j = l
  BY <1>3, FrontRange
<1>7. \A j \in 1 .. m : NameOf(j)' = NameOf(j)
  BY <1>1, <1>3 DEF NameOf
<1>8. SpType' /\ MarkInv' /\ AwaitedInv'
  BY <1>0, <1>1 DEF SpType, MarkInv, AwaitedInv
<1>9. CommittedInv'
  <2>1. SUFFICES ASSUME NEW w \in committed, NEW i \in 1 .. Len(writes[w])
                 PROVE  fate'[writes[w][i]] = "committed"
    BY <1>1 DEF CommittedInv
  <2>2. writes[w][i] \in Handle /\ fate[writes[w][i]] = "committed"
    BY <1>0, <1>5, <2>1 DEF CommittedInv, WritesInv
  <2> QED BY <1>2, <1>4, <2>2
<1>10. \A w \in 1 .. Len(writes) : \A i \in 1 .. Len(writes[w]) : fate'[writes[w][i]] # "none"
  BY <1>0, <1>4, <1>5 DEF WritesInv
<1>11. ASSUME NEW h \in Handle, fate'[h] = "open" PROVE \E j \in 1 .. m : handles'[j] = h
  <2>1. h # Top /\ fate[h] = "open"
    BY <1>4, <1>11
  <2>2. PICK j \in 1 .. l : handles[j] = h
    BY <1>0, <1>3, <2>1 DEF WritesInv
  <2>3. j # l
    BY <1>3, <2>1, <2>2
  <2>4. j \in 1 .. m
    BY <1>6, <2>3
  <2> QED BY <1>3, <2>2, <2>4
<1>12. CASE lost
  <2>1. queue' = queue /\ lost' /\ Len(queue) = 0 /\ \A i \in 1 .. 0 : FALSE
    <3>1. queue' = queue /\ lost' /\ queue = <<>>
      BY <1>1, <1>12, LostParts
    <3> QED BY <3>1
  <2>2. WritesInv'
    <3>1. \A h \in Handle : fate'[h] = "open" => \E j \in 1 .. Len(handles') : handles'[j] = h
      BY <1>3, <1>11
    <3> QED BY <1>0, <1>1, <1>10, <2>1, <3>1 DEF WritesInv
  <2>3. OrderInv' /\ ChainInv' /\ MarkInv' /\ DoomInv'
    BY <1>1, <1>12, <2>1, LostKeeps
  <2>4. HideInv'
    BY <2>1 DEF HideInv
  <2> QED BY <1>8, <1>9, <2>2, <2>3, <2>4 DEF SpInv
<1>13. CASE ~lost
  <2>1. queue' = Append(queue, q)
    BY <1>13
  <2>2. PICK n, e \in Nat :
          /\ n = Len(queue) /\ e = n + 1 /\ Len(queue') = e /\ queue'[e] = q
          /\ \A i \in 1 .. n : queue'[i] = queue[i]
    BY <1>0, <2>1, Appended, QueueFacts
  <2>3. /\ \A i \in 1 .. e : i \in 1 .. n \/ i = e
        /\ \A i \in 1 .. n : i \in 1 .. e /\ e \in i + 1 .. e
        /\ \A i \in 1 .. n : \A c \in i + 1 .. e : c = e \/ (c \in i + 1 .. n /\ c \in 1 .. n)
        /\ \A i \in 1 .. n : \A c \in i + 1 .. n : c \in 1 .. n /\ c \in i + 1 .. e
        /\ e \in 1 .. e /\ \A c \in e + 1 .. e : FALSE
    BY <2>2, OneMoreRange
  <2>4. q.op \notin {"START", "WRITE", "SAVEPOINT"} /\ (q.op \in Closers <=> l # 1) /\ (l # 1 => q.name = NameOf(l))
    BY <1>2, <1>3 DEF Closes, Enders, Closers
  <2>5. WritesInv'
    <3>1. \A h \in Handle : fate'[h] = "open" => \E j \in 1 .. Len(handles') : handles'[j] = h
      BY <1>3, <1>11
    <3>2. \A i \in 1 .. Len(queue') : queue'[i].op = "WRITE" => queue'[i].name \in 1 .. Len(writes)
      BY <1>0, <2>2, <2>3, <2>4 DEF WritesInv
    <3> QED BY <1>0, <1>1, <1>10, <3>1, <3>2 DEF WritesInv
  <2>6. OrderInv'
    <3>1. handles' # <<>> => l # 1
      <4>1. SubSeq(handles, 1, Len(handles) - 1) \in Seq(Handle)
        <5>1. handles \in Seq(Handle) /\ Len(handles) >= 1
          BY <1>0, <1>3 DEF TxType
        <5> QED BY <5>1, FrontType
      <4>2. l = 1 => Len(handles') = 0
        BY <1>3
      <4>3. handles' \in Seq(Handle)
        BY <1>1, <4>1
      <4>4. Len(handles') = 0 => handles' = <<>>
        BY <4>3
      <4> QED BY <4>2, <4>4
    <3>2. handles' # <<>> => q.op \notin Enders \cup {"START"}
      BY <2>4, <3>1 DEF Enders, Closers
    <3> QED BY <1>0, <2>1, <3>2, AppendOrder
  <2>7. l # 1 => /\ Known(stack, NameOf(l))
                 /\ \A j \in 2 .. m : Before(stack, NameOf(j), NameOf(l))
    BY <1>0, <1>3, <1>6, <1>13 DEF ChainInv
  <2>8. \A j \in 2 .. m :
          /\ Known(stack, NameOf(j))
          /\ \A k \in j + 1 .. m : Before(stack, NameOf(j), NameOf(k))
    BY <1>0, <1>3, <1>6, <1>13 DEF ChainInv
  <2>9. ASSUME NEW c \in 1 .. e, queue'[c].op \in Closers
        PROVE  /\ Known(stack, queue'[c].name)
               /\ \A j \in 2 .. m : Before(stack, NameOf(j), queue'[c].name)
               /\ \A d \in c + 1 .. e : queue'[d].op \in Closers =>
                    Before(stack, queue'[d].name, queue'[c].name)
    <3>1. CASE c = e
      BY <2>2, <2>3, <2>4, <2>7, <2>9, <3>1
    <3>2. CASE c \in 1 .. n
      <4>1. queue'[c] = queue[c]
        BY <2>2, <3>2
      <4>2. /\ Known(stack, queue[c].name)
            /\ \A j \in 2 .. l : Before(stack, NameOf(j), queue[c].name)
            /\ \A d \in c + 1 .. n : queue[d].op \in Closers =>
                 Before(stack, queue[d].name, queue[c].name)
        BY <1>0, <1>3, <2>2, <2>9, <3>2, <4>1 DEF ChainInv
      <4>3. ASSUME NEW d \in c + 1 .. e, queue'[d].op \in Closers
            PROVE  Before(stack, queue'[d].name, queue[c].name)
        <5>1. CASE d = e
          BY <1>6, <2>2, <2>4, <4>2, <4>3, <5>1
        <5>2. CASE d \in c + 1 .. n /\ d \in 1 .. n
          BY <2>2, <4>2, <4>3, <5>2
        <5> QED BY <2>3, <3>2, <5>1, <5>2
      <4> QED BY <1>6, <4>1, <4>2, <4>3
    <3> QED BY <2>3, <3>1, <3>2
  <2>10. ChainInv'
    <3>1. \A j \in 2 .. m : \A k \in j + 1 .. m : NameOf(j)' = NameOf(j) /\ NameOf(k)' = NameOf(k)
      BY <1>6, <1>7
    <3>2. \A j \in 2 .. m : NameOf(j)' = NameOf(j)
      BY <1>6, <1>7
    <3>3. \A j \in 2 .. Len(handles') :
            /\ Known(stack', NameOf(j)')
            /\ \A k \in j + 1 .. Len(handles') : Before(stack', NameOf(j)', NameOf(k)')
      BY <1>1, <1>3, <2>8, <3>1, <3>2
    <3>4. ASSUME NEW c \in 1 .. Len(queue'), queue'[c].op \in Closers
          PROVE  /\ Known(stack', queue'[c].name)
                 /\ \A j \in 2 .. Len(handles') : Before(stack', NameOf(j)', queue'[c].name)
                 /\ \A d \in c + 1 .. Len(queue') : queue'[d].op \in Closers =>
                      Before(stack', queue'[d].name, queue'[c].name)
      BY <1>1, <1>3, <2>2, <2>9, <3>2, <3>4
    <3> QED BY <3>3, <3>4 DEF ChainInv
  <2>11. HideInv'
    <3>1. \A j \in 2 .. m : NameOf(j)' = NameOf(j) /\ j \in 2 .. l
      BY <1>6, <1>7
    <3>2. ASSUME NEW i \in 1 .. e, queue'[i].op = "SAVEPOINT"
          PROVE  /\ \A j \in 2 .. m : queue'[i].name # NameOf(j)
                 /\ \A c \in i + 1 .. e : queue'[c].op \in Closers => queue'[c].name # queue'[i].name
      <4>1. i \in 1 .. n /\ queue'[i] = queue[i]
        BY <2>2, <2>3, <2>4, <3>2
      <4>2. /\ \A j \in 2 .. l : queue[i].name # NameOf(j)
            /\ \A c \in i + 1 .. n : queue[c].op \in Closers => queue[c].name # queue[i].name
        BY <1>0, <1>3, <2>2, <3>2, <4>1 DEF HideInv
      <4>3. ASSUME NEW c \in i + 1 .. e, queue'[c].op \in Closers
            PROVE  queue'[c].name # queue[i].name
        <5>1. CASE c = e
          BY <1>6, <2>2, <2>4, <4>2, <4>3, <5>1
        <5>2. CASE c \in i + 1 .. n /\ c \in 1 .. n
          BY <2>2, <4>2, <4>3, <5>2
        <5> QED BY <2>3, <4>1, <5>1, <5>2
      <4> QED BY <3>1, <4>1, <4>2, <4>3
    <3>3. \A i \in 1 .. Len(queue') : queue'[i].op = "SAVEPOINT" =>
            /\ \A j \in 2 .. Len(handles') : queue'[i].name # NameOf(j)'
            /\ \A c \in i + 1 .. Len(queue') : queue'[c].op \in Closers => queue'[c].name # queue'[i].name
      BY <1>3, <2>2, <3>1, <3>2
    <3> QED BY <3>3 DEF HideInv
  <2>12. ASSUME f = "rolledback", NEW p, l # 1 => Since(stack, NameOf(l), p)
         PROVE  Discards(e, p)'
    <3>1. CASE l = 1
      <4>1. q.op = "ROLLBACK"
        BY <1>2, <1>3, <2>12, <3>1 DEF Closes, Enders
      <4>2. \A i \in 1 .. n : queue'[i].op # "COMMIT"
        BY <1>0, <2>2 DEF OrderInv, Enders
      <4>3. \A i \in 1 .. e - 1 : i \in 1 .. n
        BY <2>3
      <4> QED BY <2>2, <4>1, <4>2, <4>3 DEF Discards
    <3>2. CASE l # 1
      <4>1. q.op = "ROLLBACK TO" /\ q.name = NameOf(l)
        BY <2>4, <2>12, <3>2 DEF Closes, Closers
      <4> QED BY <1>1, <2>2, <2>12, <3>2, <4>1 DEF Discards
    <3> QED BY <3>1, <3>2
  <2>13. ASSUME NEW w \in 1 .. Len(writes), Discarded(w)'
         PROVE  Discarded(w) \/ (f = "rolledback" /\ Under(w, Top))
    <3>1. PICK i \in 1 .. Len(writes[w]) : fate'[writes[w][i]] = "rolledback"
      BY <1>1, <2>13 DEF Discarded
    <3>2. writes[w][i] \in Handle
      BY <1>5
    <3> QED BY <1>4, <3>1, <3>2 DEF Discarded, Under
  <2>14. ASSUME NEW c \in 1 .. n, NEW p, Discards(c, p) PROVE Discards(c, p)' /\ c \in 1 .. e
    BY <1>0, <1>1, <2>1, <2>2, <2>3, <2>14, DiscardsAppend
  <2>15. ASSUME NEW p \in 1 .. Len(pending), NEW j \in 2 .. m, Under(pending[p], handles'[j])
         PROVE  Since(stack, NameOf(j), p)
    BY <1>0, <1>3, <1>6, <2>15 DEF DoomInv
  <2>16. ASSUME NEW p \in 1 .. Len(pending), NEW w, w = pending[p], Discarded(w)'
         PROVE  \E c \in 1 .. e : Discards(c, p)'
    <3>1. w \in 1 .. Len(writes)
      BY <1>0, <2>16 DEF WritesInv
    <3>2. CASE Discarded(w)
      <4>1. PICK c \in 1 .. n : Discards(c, p)
        BY <1>0, <2>2, <2>16, <3>2 DEF DoomInv
      <4> QED BY <2>14, <4>1
    <3>3. CASE f = "rolledback" /\ Under(w, Top)
      <4>1. l # 1 => Since(stack, NameOf(l), p)
        BY <1>0, <1>3, <1>6, <2>16, <3>3 DEF DoomInv
      <4>2. Discards(e, p)'
        BY <2>12, <3>3, <4>1
      <4>3. e \in 1 .. e
        BY <2>3
      <4> QED BY <4>2, <4>3
    <3> QED BY <2>13, <2>16, <3>1, <3>2, <3>3
  <2>17. ASSUME NEW i \in 1 .. e, queue'[i].op = "WRITE", NEW w, w = queue'[i].name, Discarded(w)',
                NEW p, p = Len(pending) + 1
         PROVE  \E c \in i + 1 .. e : Discards(c, p)'
    <3>1. i \in 1 .. n /\ queue'[i] = queue[i]
      BY <2>2, <2>3, <2>4, <2>17
    <3>2. w \in 1 .. Len(writes)
      BY <1>0, <2>2, <2>17, <3>1 DEF WritesInv
    <3>3. CASE Discarded(w)
      <4>1. PICK c \in i + 1 .. n : Discards(c, p)
        BY <1>0, <2>2, <2>17, <3>1, <3>3 DEF DoomInv
      <4>2. c \in 1 .. n /\ c \in i + 1 .. e
        BY <2>3, <3>1
      <4> QED BY <2>14, <4>1, <4>2
    <3>4. CASE f = "rolledback" /\ Under(w, Top)
      <4>1. l # 1 => Since(stack, NameOf(l), p)
        <5>1. stack \in Stacks /\ Len(pending) \in Nat /\ \A x \in 1 .. Len(stack) : stack[x].mark <= Len(pending)
          BY <1>0 DEF SpType, MarkInv
        <5> QED BY <2>7, <2>17, <5>1, KnownSince
      <4>2. Discards(e, p)'
        BY <2>12, <3>4, <4>1
      <4> QED BY <2>3, <3>1, <4>2
    <3> QED BY <2>13, <2>17, <3>2, <3>3, <3>4
  <2>18. DoomInv'
    <3>1. \A p \in 1 .. Len(pending') : \A j \in 2 .. Len(handles') :
            Under(pending[p], handles[j])' => Since(stack', NameOf(j)', p)
      <4>1. \A j \in 2 .. m : NameOf(j)' = NameOf(j)
        BY <1>6, <1>7
      <4>2. \A w, h : (\E i \in 1 .. Len(writes'[w]) : writes'[w][i] = h) <=> Under(w, h)
        BY <1>1 DEF Under
      <4> QED BY <1>1, <1>3, <2>15, <4>1, <4>2 DEF Under
    <3>2. ASSUME NEW p \in 1 .. Len(pending'), Discarded(pending[p])'
          PROVE  \E c \in 1 .. Len(queue') : Discards(c, p)'
      <4>1. PICK w : w = pending[p]
        OBVIOUS
      <4>2. Discarded(w)'
        BY <1>1, <3>2, <4>1 DEF Discarded
      <4> QED BY <1>1, <2>2, <2>16, <4>1, <4>2
    <3>3. ASSUME NEW i \in 1 .. Len(queue'), queue'[i].op = "WRITE", Discarded(queue[i].name)'
          PROVE  \E c \in i + 1 .. Len(queue') : Discards(c, Len(pending) + 1)'
      <4>1. PICK w, p : w = queue'[i].name /\ p = Len(pending) + 1
        OBVIOUS
      <4>2. Discarded(w)'
        BY <3>3, <4>1 DEF Discarded
      <4>3. \E c \in i + 1 .. Len(queue') : Discards(c, p)'
        BY <2>2, <2>17, <3>3, <4>1, <4>2
      <4> QED BY <1>1, <4>1, <4>3 DEF Discards
    <3> QED BY <3>1, <3>2, <3>3 DEF DoomInv
  <2> QED BY <1>8, <1>9, <2>5, <2>6, <2>10, <2>11, <2>18 DEF SpInv
<1> QED BY <1>12, <1>13

\* Commit, Rollback and DropTransaction.
LEMMA SpCommit == ASSUME TxInv, SpInv, Commit PROVE SpInv'
<1>0. TxType /\ AnswerInv /\ NamesInv
  BY DEF TxInv
<1>1. handles # <<>> /\ Await("commit", CommitQuery) /\ Close("committed")
  BY DEF Commit
<1>2. Top \in Handle /\ savepoint[Top] \in Int
  BY <1>0, <1>1, TopFacts DEF TxType
<1>3. CommitQuery \in Queries /\ Closes(CommitQuery, "committed")
  BY <1>2 DEF CommitQuery, Q, Queries, Ops, Enders, Closers, Closes, NoName
<1>4. /\ call' = "commit"
      /\ \/ lost /\ queue' = queue
         \/ ~lost /\ queue' = Append(queue, CommitQuery)
  BY <1>0, <1>1, <1>3, AwaitFacts DEF Calls
<1> QED BY <1>1, <1>3, <1>4, SpClose

\* The query that rollback and the cleaner send is one that closes its handle.
LEMMA RollbackCloses ==
  ASSUME TxInv, handles # <<>>
  PROVE  RollbackQuery \in Queries /\ Closes(RollbackQuery, "rolledback")
<1>1. Top \in Handle /\ savepoint[Top] \in Int
  BY TopFacts DEF TxType, TxInv
<1> QED BY <1>1 DEF RollbackQuery, Q, Queries, Ops, Enders, Closers, Closes, NoName

\* Transaction::rollback keeps the savepoint invariant.
LEMMA SpRollback == ASSUME TxInv, SpInv, Rollback PROVE SpInv'
<1>0. TxType /\ AnswerInv
  BY DEF TxInv
<1>1. handles # <<>> /\ Await("rollback", RollbackQuery) /\ Close("rolledback")
  BY DEF Rollback
<1>2. RollbackQuery \in Queries /\ Closes(RollbackQuery, "rolledback")
  BY <1>1, RollbackCloses
<1>3. /\ call' = "rollback"
      /\ \/ lost /\ queue' = queue
         \/ ~lost /\ queue' = Append(queue, RollbackQuery)
  BY <1>0, <1>1, <1>2, AwaitFacts DEF Calls
<1> QED BY <1>1, <1>2, <1>3, SpClose

\* Dropping a Transaction keeps the savepoint invariant.
LEMMA SpDropTransaction == ASSUME TxInv, SpInv, DropTransaction PROVE SpInv'
<1>0. TxType /\ AnswerInv
  BY DEF TxInv
<1>1. /\ handles # <<>> /\ call = "none" /\ call' = call
      /\ Post(RollbackQuery) /\ Close("rolledback")
  BY DEF DropTransaction
<1>2. RollbackQuery \in Queries /\ Closes(RollbackQuery, "rolledback")
  BY <1>1, RollbackCloses
<1>3. \/ lost /\ queue' = queue
      \/ ~lost /\ queue' = Append(queue, RollbackQuery)
  BY <1>0, <1>1, <1>2, PostFacts
<1> QED BY <1>1, <1>2, <1>3, SpClose

\* A transaction is asked for.
LEMMA SpStart == ASSUME TxInv, SpInv, Start PROVE SpInv'
<1>0. TxType /\ AnswerInv
  BY DEF TxInv
<1>1. PICK q \in Queries : q = Q("START", NoName) /\ q.op = "START"
  <2>1. Q("START", NoName) \in Queries
    BY DEF Q, Queries, Ops, NoName
  <2> QED BY <2>1 DEF Q
<1>2. /\ handles = <<>> /\ Await("start", q)
      /\ UNCHANGED <<handles, savepoint, fate, writes, tx, stack, pending, committed, lost>>
  BY <1>1 DEF Start, serverVars
<1>3. /\ call' = "start"
      /\ \/ lost /\ queue' = queue
         \/ ~lost /\ queue' = Append(queue, q)
  BY <1>0, <1>2, AwaitFacts DEF Calls
<1>4. CASE queue' = queue
  BY <1>2, <1>3, <1>4, SpCalm
<1>5. CASE queue' = Append(queue, q)
  BY <1>1, <1>2, <1>3, <1>5, SpOutside
<1> QED BY <1>3, <1>4, <1>5

\* A start is given up, or fails.
LEMMA SpDropStart ==
  ASSUME TxInv, SpInv, handles = <<>>, DropStart, call' = "none",
         UNCHANGED <<handles, savepoint, fate, writes, tx, stack, pending, committed, lost>>
  PROVE  SpInv'
<1>0. TxType /\ AnswerInv
  BY DEF TxInv
<1>1. PICK q \in Queries : q = Q("ROLLBACK", NoName) /\ q.op = "ROLLBACK"
  <2>1. Q("ROLLBACK", NoName) \in Queries
    BY DEF Q, Queries, Ops, NoName
  <2> QED BY <2>1 DEF Q
<1>2. \/ lost /\ queue' = queue
      \/ ~lost /\ queue' = Append(queue, q)
  BY <1>0, <1>1, PostFacts DEF DropStart
<1>3. CASE queue' = queue
  BY <1>3, SpCalm
<1>4. CASE queue' = Append(queue, q)
  BY <1>1, <1>4, SpOutside
<1> QED BY <1>2, <1>3, <1>4

\* Whatever becomes of the savepoint that was awaited, no open handle has it.
LEMMA NameGone ==
  ASSUME TxInv,
         savepoint' = IF call = "savepoint" THEN [savepoint EXCEPT ![Fresh] = NoName] ELSE savepoint
  PROVE  \A i \in 1 .. Len(handles) : savepoint'[handles[i]] = savepoint[handles[i]]
<1>0. TxType /\ NamesInv
  BY DEF TxInv
<1>1. CASE call = "savepoint"
  <2>1. Fresh \in Handle /\ fate[Fresh] = "none"
    BY <1>0, <1>1, FreshNext DEF NamesInv, Handle
  <2>2. \A h \in Handle : h # Fresh => savepoint'[h] = savepoint[h]
    BY <1>0, <1>1, <2>1 DEF TxType
  <2>3. \A i \in 1 .. Len(handles) : handles[i] # Fresh /\ handles[i] \in Handle
    BY <1>0, <2>1, QueueFacts DEF NamesInv
  <2> QED BY <2>2, <2>3
<1>2. CASE call # "savepoint"
  BY <1>2
<1> QED BY <1>1, <1>2

\* Dropping the future of a call keeps the savepoint invariant.
LEMMA SpCancel == ASSUME TxInv, SpInv, Cancel PROVE SpInv'
<1>1. /\ call # "none" /\ call' = "none"
      /\ IF call = "start" THEN DropStart ELSE queue' = queue
      /\ savepoint' = IF call = "savepoint" THEN [savepoint EXCEPT ![Fresh] = NoName] ELSE savepoint
      /\ UNCHANGED <<handles, fate, writes, tx, stack, pending, committed, lost>>
  BY DEF Cancel, serverVars
<1>2. CASE call = "start"
  <2>1. handles = <<>> /\ savepoint' = savepoint /\ DropStart
    BY <1>1, <1>2 DEF TxInv, NamesInv
  <2> QED BY <1>1, <2>1, SpDropStart
<1>3. CASE call # "start"
  <2>1. \A i \in 1 .. Len(handles) : savepoint'[handles[i]] = savepoint[handles[i]]
    BY <1>1, NameGone
  <2> QED BY <1>1, <1>3, <2>1, SpCalm
<1> QED BY <1>2, <1>3

\* Places in the list of handles with one more.
LEMMA OpenRange ==
  ASSUME NEW l \in Nat, NEW k \in Nat, k = l + 1
  PROVE  /\ \A j \in 1 .. k : j \in 1 .. l \/ j = k
         /\ \A j \in 2 .. k : j = k \/ (j \in 2 .. l /\ j \in 1 .. l)
         /\ \A j \in 2 .. k : \A i \in j + 1 .. k :
              j \in 2 .. l /\ j \in 1 .. l /\ (i = k \/ (i \in j + 1 .. l /\ i \in 1 .. l))
         /\ \A j \in 1 .. l : j \in 1 .. k
         /\ k \in 1 .. k /\ (k \in 2 .. k => l # 0)
OBVIOUS

\* A handle whose START or SAVEPOINT was answered: its savepoint is the
\* innermost, and nothing has been written behind it.
LEMMA SpOpen ==
  ASSUME TxInv, SpInv, call \in {"start", "savepoint"}, answer = "ok",
         handles' = Append(handles, Fresh), fate' = [fate EXCEPT ![Fresh] = "open"],
         call' = "none",
         UNCHANGED <<savepoint, writes, queue, tx, stack, pending, committed, lost>>
  PROVE  SpInv'
<1>0. /\ SpType /\ WritesInv /\ ChainInv /\ HideInv /\ AwaitedInv /\ MarkInv /\ DoomInv /\ CommittedInv
      /\ TxType /\ AnswerInv /\ NamesInv
  BY DEF SpInv, TxInv
<1>1. /\ Len(queue) = 0 /\ Len(queue') = 0 /\ \A i \in 1 .. 0 : FALSE
  <2>1. queue = <<>>
    BY <1>0 DEF AnswerInv
  <2> QED BY <2>1
<1>2. Fresh \in Handle /\ fate[Fresh] = "none"
  BY <1>0, FreshNext DEF NamesInv, Handle
<1>3. PICK l, k \in Nat :
        /\ l = Len(handles) /\ k = l + 1 /\ Len(handles') = k /\ handles'[k] = Fresh
        /\ \A i \in 1 .. l : handles'[i] = handles[i]
  <2>1. handles \in Seq(Handle)
    BY <1>0 DEF TxType
  <2>2. /\ Len(handles') = Len(handles) + 1 /\ Len(handles) \in Nat
        /\ handles'[Len(handles) + 1] = Fresh
        /\ \A i \in 1 .. Len(handles) : handles'[i] = handles[i]
    BY <1>2, <2>1, AppendType
  <2> QED BY <2>2
<1>4. /\ \A j \in 1 .. k : j \in 1 .. l \/ j = k
      /\ \A j \in 2 .. k : j = k \/ (j \in 2 .. l /\ j \in 1 .. l)
      /\ \A j \in 2 .. k : \A i \in j + 1 .. k : j \in 2 .. l /\ j \in 1 .. l /\ (i = k \/ (i \in j + 1 .. l /\ i \in 1 .. l))
      /\ \A j \in 1 .. l : j \in 1 .. k
      /\ k \in 1 .. k /\ (k \in 2 .. k => l # 0)
  BY <1>3, OpenRange
<1>5. fate'[Fresh] = "open" /\ \A h \in Handle : h # Fresh => fate'[h] = fate[h]
  BY <1>0, <1>2 DEF TxType
<1>6. ASSUME NEW w \in 1 .. Len(writes), NEW i \in 1 .. Len(writes[w])
      PROVE  /\ writes[w][i] \in Handle /\ writes[w][i] # Fresh
             /\ fate'[writes[w][i]] = fate[writes[w][i]] /\ fate[writes[w][i]] # "none"
  <2>1. writes[w] \in Seq(Handle)
    BY <1>0 DEF SpType
  <2>2. writes[w][i] \in Handle
    BY <2>1
  <2> QED BY <1>0, <1>2, <1>5, <2>2 DEF WritesInv
<1>7. SpType' /\ MarkInv' /\ AwaitedInv'
  BY <1>0 DEF SpType, MarkInv, AwaitedInv
<1>8. OrderInv' /\ HideInv'
  BY <1>1 DEF OrderInv, HideInv
<1>9. WritesInv'
  <2>1. ASSUME NEW h \in Handle, fate'[h] = "open" PROVE \E j \in 1 .. k : handles'[j] = h
    <3>1. CASE h = Fresh
      BY <1>3, <1>4, <3>1
    <3>2. CASE h # Fresh
      <4>1. PICK j \in 1 .. l : handles[j] = h
        BY <1>0, <1>3, <1>5, <2>1, <3>2 DEF WritesInv
      <4> QED BY <1>3, <1>4, <4>1
    <3> QED BY <3>1, <3>2
  <2>2. \A w \in 1 .. Len(writes) : \A i \in 1 .. Len(writes[w]) : fate'[writes[w][i]] # "none"
    BY <1>6
  <2> QED BY <1>0, <1>1, <1>3, <2>1, <2>2 DEF WritesInv
<1>10. CommittedInv'
  <2>1. ASSUME NEW w \in committed, NEW i \in 1 .. Len(writes[w]) PROVE fate'[writes[w][i]] = "committed"
    BY <1>0, <1>6, <2>1 DEF CommittedInv, WritesInv
  <2> QED BY <2>1 DEF CommittedInv
<1>11. \A j \in 1 .. l : NameOf(j)' = NameOf(j)
  BY <1>3 DEF NameOf
<1>12. NameOf(k)' = savepoint[Fresh]
  BY <1>3 DEF NameOf
<1>13. ASSUME ~lost, l # 0
       PROVE  /\ Known(stack, savepoint[Fresh])
              /\ \A j \in 2 .. l : Before(stack, NameOf(j), savepoint[Fresh])
  <2>1. call = "savepoint"
    <3>1. handles # <<>>
      BY <1>3, <1>13
    <3> QED BY <1>0, <3>1 DEF NamesInv
  <2>2. PICK s, n : s \in Stacks /\ s = stack /\ n = savepoint[Fresh]
    BY <1>0 DEF SpType
  <2>3. s # <<>> /\ s[Len(s)].name = n
    BY <1>0, <1>13, <2>1, <2>2 DEF AwaitedInv
  <2>4. Len(s) \in 1 .. Len(s) /\ \A j \in Len(s) + 1 .. Len(s) : FALSE
    <3>1. Len(s) \in Nat /\ Len(s) # 0
      <4>1. s \in Seq([name : Int, mark : Nat])
        BY <2>2 DEF Stacks
      <4> QED BY <2>3, <4>1
    <3> QED BY <3>1
  <2>5. IsAt(s, n, Len(s))
    BY <2>3, <2>4 DEF IsAt
  <2>6. Known(s, n)
    BY <2>4, <2>5 DEF Known
  <2>7. ASSUME NEW j \in 2 .. l PROVE Before(s, NameOf(j), n)
    <3>1. Known(s, NameOf(j)) /\ NameOf(j) # n
      BY <1>0, <1>3, <1>13, <2>1, <2>2 DEF ChainInv, HideInv
    <3>2. PICK e \in 1 .. Len(s) : IsAt(s, NameOf(j), e)
      BY <3>1 DEF Known
    <3>3. e # Len(s)
      BY <2>3, <3>1, <3>2 DEF IsAt
    <3>4. e < Len(s)
      BY <2>4, <3>3
    <3> QED BY <2>4, <2>5, <3>2, <3>4 DEF Before
  <2> QED BY <2>2, <2>6, <2>7
<1>14. ChainInv'
  <2>1. ASSUME ~lost, NEW j \in 2 .. k
        PROVE  /\ Known(stack, NameOf(j)')
               /\ \A i \in j + 1 .. k : Before(stack, NameOf(j)', NameOf(i)')
    <3>0. l # 0
      BY <1>3, <2>1
    <3>1. Known(stack, NameOf(j)')
      <4>1. CASE j = k
        BY <1>12, <1>13, <2>1, <3>0, <4>1
      <4>2. CASE j \in 2 .. l /\ j \in 1 .. l
        <5>1. Known(stack, NameOf(j)) /\ NameOf(j)' = NameOf(j)
          BY <1>0, <1>3, <1>11, <2>1, <4>2 DEF ChainInv
        <5> QED BY <5>1
      <4> QED BY <1>4, <4>1, <4>2
    <3>2. ASSUME NEW i \in j + 1 .. k PROVE Before(stack, NameOf(j)', NameOf(i)')
      <4>1. j \in 2 .. l /\ j \in 1 .. l /\ NameOf(j)' = NameOf(j)
        BY <1>4, <1>11
      <4>2. CASE i = k
        BY <1>12, <1>13, <2>1, <3>0, <4>1, <4>2
      <4>3. CASE i \in j + 1 .. l /\ i \in 1 .. l
        <5>1. Before(stack, NameOf(j), NameOf(i)) /\ NameOf(i)' = NameOf(i)
          BY <1>0, <1>3, <1>11, <2>1, <4>1, <4>3 DEF ChainInv
        <5> QED BY <4>1, <5>1
      <4> QED BY <1>4, <4>2, <4>3
    <3> QED BY <3>1, <3>2
  <2> QED BY <1>1, <1>3, <2>1 DEF ChainInv
<1>15. DoomInv'
  <2>1. ASSUME NEW p \in 1 .. Len(pending), NEW j \in 2 .. k, NEW w, w = pending[p], Under(w, handles'[j])
        PROVE  Since(stack, NameOf(j)', p)
    <3>1. w \in 1 .. Len(writes)
      BY <1>0, <2>1 DEF WritesInv
    <3>2. j # k
      BY <1>3, <1>6, <2>1, <3>1 DEF Under
    <3>3. j \in 2 .. l /\ j \in 1 .. l /\ NameOf(j)' = NameOf(j) /\ handles'[j] = handles[j]
      BY <1>3, <1>4, <1>11, <3>2
    <3>4. Since(stack, NameOf(j), p)
      BY <1>0, <1>3, <2>1, <3>3 DEF DoomInv
    <3> QED BY <3>3, <3>4
  <2>2. ASSUME NEW p \in 1 .. Len(pending), NEW w, w = pending[p], Discarded(w)' PROVE FALSE
    <3>1. w \in 1 .. Len(writes)
      BY <1>0, <2>2 DEF WritesInv
    <3>2. Discarded(w)
      BY <1>6, <2>2, <3>1 DEF Discarded
    <3> QED BY <1>0, <1>1, <2>2, <3>2 DEF DoomInv
  <2>3. \A p \in 1 .. Len(pending') : \A j \in 2 .. Len(handles') :
          Under(pending[p], handles[j])' => Since(stack', NameOf(j)', p)
    <3>1. \A w, h : (\E i \in 1 .. Len(writes'[w]) : writes'[w][i] = h) <=> Under(w, h)
      BY DEF Under
    <3> QED BY <1>3, <2>1, <3>1 DEF Under
  <2>4. \A p \in 1 .. Len(pending') : ~Discarded(pending[p])'
    <3> SUFFICES ASSUME NEW p \in 1 .. Len(pending), Discarded(pending[p])' PROVE FALSE
      OBVIOUS
    <3>1. PICK w : w = pending[p]
      OBVIOUS
    <3>2. Discarded(w)'
      BY <3>1 DEF Discarded
    <3> QED BY <2>2, <3>1, <3>2
  <2> QED BY <1>1, <2>3, <2>4 DEF DoomInv
<1> QED BY <1>7, <1>8, <1>9, <1>10, <1>14, <1>15 DEF SpInv

\* A call that returns keeps the savepoint invariant.
LEMMA SpReturn == ASSUME TxInv, SpInv, Return PROVE SpInv'
<1>1. /\ call # "none" /\ answer # "none" /\ call' = "none"
      /\ IF answer = "ok" /\ call \in {"start", "savepoint"}
           THEN handles' = Append(handles, Fresh) /\ fate' = [fate EXCEPT ![Fresh] = "open"]
           ELSE UNCHANGED <<handles, fate>>
      /\ IF answer = "err" /\ call = "start" THEN DropStart ELSE queue' = queue
      /\ savepoint' = IF answer = "err" /\ call = "savepoint"
                        THEN [savepoint EXCEPT ![Fresh] = NoName] ELSE savepoint
      /\ UNCHANGED <<writes, tx, stack, pending, committed, lost>>
      /\ answer \in {"ok", "err"}
  BY DEF Return, serverVars, TxInv, TxType
<1>2. CASE answer = "ok" /\ call \in {"start", "savepoint"}
  <2>1. /\ handles' = Append(handles, Fresh) /\ fate' = [fate EXCEPT ![Fresh] = "open"]
        /\ queue' = queue /\ savepoint' = savepoint
    BY <1>1, <1>2
  <2> QED BY <1>1, <1>2, <2>1, SpOpen
<1>3. CASE answer = "ok" /\ call \notin {"start", "savepoint"}
  <2>1. UNCHANGED <<handles, fate, queue, savepoint>>
    BY <1>1, <1>3
  <2> QED BY <1>1, <2>1, SpCalm
<1>4. CASE answer = "err" /\ call = "start"
  <2>1. handles = <<>> /\ savepoint' = savepoint /\ DropStart /\ UNCHANGED <<handles, fate>>
    BY <1>1, <1>4 DEF TxInv, NamesInv
  <2> QED BY <1>1, <2>1, SpDropStart
<1>5. CASE answer = "err" /\ call # "start"
  <2>1. /\ UNCHANGED <<handles, fate, queue>>
        /\ savepoint' = IF call = "savepoint" THEN [savepoint EXCEPT ![Fresh] = NoName] ELSE savepoint
    BY <1>1, <1>5
  <2>2. \A i \in 1 .. Len(handles) : savepoint'[handles[i]] = savepoint[handles[i]]
    BY <2>1, NameGone
  <2> QED BY <1>1, <2>1, <2>2, SpCalm
<1> QED BY <1>1, <1>2, <1>3, <1>4, <1>5

-----------------------------------------------------------------------------

\* The savepoint invariant holds before the first call.
LEMMA SpInit == Init => SpInv
<1> SUFFICES ASSUME Init PROVE SpInv
  OBVIOUS
<1>1. /\ handles = <<>> /\ fate = [h \in Handle |-> "none"] /\ writes = <<>> /\ call = "none"
      /\ queue = <<>> /\ stack = <<>> /\ pending = <<>> /\ committed = {}
  BY DEF Init
<1>2. /\ Len(handles) = 0 /\ Len(writes) = 0 /\ Len(queue) = 0 /\ Len(stack) = 0 /\ Len(pending) = 0
      /\ \A i \in 1 .. 0 : FALSE
  BY <1>1
<1>3. \A j \in 2 .. 0 : FALSE
  OBVIOUS
<1>4. SpType
  BY <1>1 DEF SpType, Stacks
<1>5. WritesInv
  BY <1>1, <1>2 DEF WritesInv
<1>6. OrderInv /\ HideInv /\ AwaitedInv /\ MarkInv /\ CommittedInv
  BY <1>1, <1>2 DEF OrderInv, HideInv, AwaitedInv, MarkInv, CommittedInv
<1>7. ChainInv /\ DoomInv
  BY <1>2, <1>3 DEF ChainInv, DoomInv
<1> QED BY <1>4, <1>5, <1>6, <1>7 DEF SpInv

\* A step that changes nothing keeps the savepoint invariant.
LEMMA SpStutter == ASSUME TxInv, SpInv, UNCHANGED vars PROVE SpInv'
<1>1. UNCHANGED <<handles, savepoint, fate, writes, call, answer, queue, tx, stack, pending, committed, lost>>
  BY DEF vars, appVars, serverVars
<1>2. CASE call # "savepoint"
  BY <1>1, <1>2, SpCalm
<1>3. CASE call = "savepoint"
  <2>1. Fresh' = Fresh
    BY <1>1 DEF Fresh
  <2>2. SpType' /\ WritesInv' /\ OrderInv' /\ MarkInv' /\ CommittedInv'
    <3>1. SpType'
      BY <1>1 DEF SpInv, SpType, Stacks
    <3>2. WritesInv'
      BY <1>1 DEF SpInv, WritesInv
    <3>3. OrderInv'
      BY <1>1 DEF SpInv, OrderInv
    <3>4. MarkInv'
      BY <1>1 DEF SpInv, MarkInv
    <3>5. CommittedInv'
      BY <1>1 DEF SpInv, CommittedInv
    <3> QED BY <3>1, <3>2, <3>3, <3>4, <3>5
  <2>3. ChainInv' /\ HideInv' /\ AwaitedInv'
    BY <1>1, <2>1 DEF SpInv, ChainInv, HideInv, AwaitedInv, NameOf
  <2>4. DoomInv'
    BY <1>1, DoomStays
  <2> QED BY <2>2, <2>3, <2>4 DEF SpInv
<1> QED BY <1>2, <1>3

\* Every step keeps the savepoint invariant when no name is used twice.
LEMMA SpNext == ASSUME ~NamesReused PROVE TxInv /\ SpInv /\ [Next]_vars => (TxInv /\ SpInv)'
<1> SUFFICES ASSUME TxInv, SpInv, [Next]_vars PROVE SpInv'
  BY TxNext
<1> QED BY SpStutter, SpStart, SpSavepoint, SpWriteRow, SpCommit, SpRollback, SpDropTransaction,
           SpReturn, SpCancel, SpExec, SpLose DEF Next

\* The savepoint invariant holds of every reachable state.
LEMMA SpInvariant == ASSUME ~NamesReused PROVE Spec => [](TxInv /\ SpInv)
<1>1. Init => TxInv /\ SpInv
  BY TxInit, SpInit
<1>2. TxInv /\ SpInv /\ [Next]_vars => (TxInv /\ SpInv)'
  BY SpNext
<1> QED BY <1>1, <1>2, PTL DEF Spec

\* What was written under a handle that was rolled back or dropped, or under
\* one nested in it, is never committed, however many handles are nested and
\* whichever futures are dropped, as long as no savepoint is given the name of
\* a handle that is still open.
THEOREM RolledBackStaysOut == ASSUME ~NamesReused PROVE Spec => []RolledBackNeverCommitted
<1>1. SpInv => RolledBackNeverCommitted
  <2> SUFFICES ASSUME SpInv, NEW w \in committed PROVE ~Discarded(w)
    BY DEF RolledBackNeverCommitted
  <2>1. \A i \in 1 .. Len(writes[w]) : fate[writes[w][i]] = "committed"
    BY DEF SpInv, CommittedInv
  <2> QED BY <2>1 DEF Discarded
<1> QED BY <1>1, SpInvariant, PTL

-----------------------------------------------------------------------------
(***************************************************************************)
(* Commits.  WholeInv says where a write that was answered Ok is until its *)
(* outermost handle's COMMIT is executed, and what a commit that was       *)
(* answered Ok has done.                                                   *)
(***************************************************************************)

\* Handle h was opened as a transaction, not as a savepoint.
Outermost(h) == fate[h] # "none" /\ savepoint[h] = NoName

\* The latest of these: the one whose transaction the server is in.
Latest(h) == Outermost(h) /\ \A g \in Handle : g > h => ~Outermost(g)

\* Write w has succeeded, whether or not the answer has been returned.
Told(w) == wrote[w] = "ok" \/ (call = "write" /\ answer = "ok" /\ w = Len(writes))

\* Write w has failed, or nobody is going to learn of its answer.
Failed(w) == wrote[w] # "ok" /\ (call = "write" /\ w = Len(writes) => answer = "err")

\* The transaction of the latest outermost handle can still be committed.
Live == ~lost /\ (handles # <<>> \/ \E c \in 1 .. Len(queue) : queue[c].op = "COMMIT")

\* If every statement under h was answered Ok, all that was not discarded is
\* committed.
Whole(h) ==
  (\A v \in 1 .. Len(writes) : writes[v][1] = h => wrote[v] = "ok")
  => \A w \in 1 .. Len(writes) : writes[w][1] = h /\ ~Discarded(w) => w \in committed

\* What the writes and the answers to them are.
WholeType ==
  /\ wrote \in [Write -> {"none", "ok", "err"}] /\ acked \subseteq Handle
  /\ \A w \in 1 .. Len(writes) : w \in Write /\ writes[w] # <<>>
  /\ \A w \in Write : wrote[w] = "ok" =>
       /\ w \in 1 .. Len(writes)
       /\ \A i \in 1 .. Len(queue) : queue[i].op = "WRITE" => queue[i].name # w

\* Every write was made under an outermost handle; those the server has not
\* disposed of, under the latest.
RootInv ==
  /\ handles # <<>> => Latest(handles[1])
  /\ \A w \in 1 .. Len(writes) : Outermost(writes[w][1])
  /\ \A p \in 1 .. Len(pending) : Latest(writes[pending[p]][1])
  /\ \A i \in 1 .. Len(queue) : queue[i].op = "WRITE" => Latest(writes[queue[i].name][1])
  /\ \A i, j \in 1 .. Len(queue) :
       i < j /\ queue[i].op = "WRITE" /\ queue[j].op = "WRITE" => queue[i].name < queue[j].name

\* What the call that is awaited is about.
CallInv ==
  /\ call = "start" /\ answer = "ok" => tx # "aborted" /\ pending = <<>>
  /\ call = "write" =>
       /\ handles # <<>> /\ writes # <<>> /\ writes[Len(writes)] = handles
       /\ answer = "none" => queue[Len(queue)] = Q("WRITE", Len(writes))
       /\ wrote[Len(writes)] # "ok"
  /\ call = "commit" => \E h \in Handle : Latest(h)
  /\ call = "commit" /\ handles = <<>> =>
       /\ answer = "none" => queue[Len(queue)].op = "COMMIT"
       /\ \A h \in Handle : Latest(h) => fate[h] = "committed"

\* Going back to a savepoint discards what was written under its handle, and
\* nothing else.
UntouchedInv ==
  /\ \A p \in 1 .. Len(pending) : \A j \in 2 .. Len(handles) :
       Since(stack, NameOf(j), p) => Under(pending[p], handles[j])
  /\ \A i \in 1 .. Len(queue) : queue[i].op = "WRITE" =>
       \A j \in 1 .. Len(handles) : Under(queue[i].name, handles[j])
  /\ \A c \in 1 .. Len(queue) : queue[c].op = "ROLLBACK TO" =>
       /\ \A p \in 1 .. Len(pending) : Since(stack, queue[c].name, p) => Discarded(pending[p])
       /\ \A i \in 1 .. c - 1 : queue[i].op = "WRITE" => Discarded(queue[i].name)

\* A COMMIT finds the transaction it is to commit.
CommitInv == \A c \in 1 .. Len(queue) : queue[c].op = "COMMIT" => tx # "idle"

\* What has succeeded and was not discarded is in the transaction.
KeptInv ==
  Live => \A w \in 1 .. Len(writes) :
    Latest(writes[w][1]) /\ Told(w) /\ ~Discarded(w) => \E p \in 1 .. Len(pending) : pending[p] = w

\* A transaction fails because a statement of it has.
AbortInv ==
  Live /\ tx = "aborted" =>
    \E w \in 1 .. Len(writes) : Latest(writes[w][1]) /\ Failed(w)

\* What is written under one outermost handle is committed together.
TogetherInv ==
  \A v, w \in 1 .. Len(writes) :
    writes[v][1] = writes[w][1] /\ v \in committed /\ Told(w) /\ ~Discarded(w) => w \in committed

\* A commit that was answered Ok has committed the whole.
AckInv ==
  /\ \A h \in acked : Outermost(h) /\ fate[h] = "committed" /\ Whole(h)
  /\ call = "commit" /\ handles = <<>> /\ answer = "ok" => \A h \in Handle : Latest(h) => Whole(h)

\* The invariant.
WholeInv ==
  /\ WholeType /\ RootInv /\ CallInv /\ UntouchedInv /\ CommitInv
  /\ KeptInv /\ AbortInv /\ TogetherInv /\ AckInv

-----------------------------------------------------------------------------
(***************************************************************************)
(* Handles and writes.                                                     *)
(***************************************************************************)

\* Only one handle is the latest.
LEMMA LatestIs ==
  ASSUME NEW g \in Handle, NEW h \in Handle, Latest(g), Latest(h)
  PROVE  g = h
<1>1. g \in Int /\ h \in Int
  BY TransactionAssumption DEF Handle
<1>2. ~(g < h) /\ ~(h < g)
  BY <1>1 DEF Latest
<1> QED BY <1>1, <1>2

\* As long as no handle becomes an outermost one, the latest stays the latest.
LEMMA SameLatest ==
  ASSUME \A h \in Handle : Outermost(h)' <=> Outermost(h)
  PROVE  \A h \in Handle : Latest(h)' <=> Latest(h)
BY DEF Latest

\* A write was made under some handles, the outermost first.
LEMMA MadeUnder ==
  ASSUME SpType, WholeType, NEW w \in 1 .. Len(writes)
  PROVE  /\ writes[w] \in Seq(Handle) /\ writes[w] # <<>> /\ writes[w][1] \in Handle
         /\ 1 \in 1 .. Len(writes[w]) /\ w \in Write /\ w \in Nat
         /\ \A i \in 1 .. Len(writes[w]) : writes[w][i] \in Handle
<1>1. writes[w] \in Seq(Handle) /\ writes[w] # <<>> /\ w \in Write
  BY DEF SpType, WholeType
<1>2. Len(writes[w]) \in Nat /\ Len(writes[w]) # 0 /\ \A i \in 1 .. Len(writes[w]) : writes[w][i] \in Handle
  BY <1>1
<1>3. 1 \in 1 .. Len(writes[w])
  BY <1>2
<1>4. Len(writes) \in Nat
  BY DEF SpType
<1>5. w \in Nat
  BY <1>4
<1> QED BY <1>1, <1>2, <1>3, <1>5

\* The outermost open handle is open.
LEMMA FirstOpen ==
  ASSUME TxType, NamesInv, handles # <<>>
  PROVE  1 \in 1 .. Len(handles) /\ handles[1] \in Handle /\ fate[handles[1]] = "open"
<1>1. 1 \in 1 .. Len(handles)
  BY TopFacts
<1> QED BY <1>1, QueueFacts DEF NamesInv

\* The writes that are with the server are writes.
LEMMA WithServer ==
  ASSUME WritesInv, SpType, WholeType
  PROVE  /\ \A p \in 1 .. Len(pending) :
              pending[p] \in 1 .. Len(writes) /\ writes[pending[p]][1] \in Handle
         /\ \A i \in 1 .. Len(queue) : queue[i].op = "WRITE" =>
              queue[i].name \in 1 .. Len(writes) /\ writes[queue[i].name][1] \in Handle
         /\ \A v \in committed : v \in 1 .. Len(writes)
BY MadeUnder DEF WritesInv

\* The handles a write was made under, and their fates, stay.
LEMMA SameBooks ==
  ASSUME UNCHANGED <<writes, fate>>
  PROVE  /\ \A w : Discarded(w)' <=> Discarded(w)
         /\ \A w, h : Under(w, h)' <=> Under(w, h)
BY DEF Discarded, Under

\* What the parts of the invariant are.
LEMMA WholeParts ==
  ASSUME TxInv, SpInv, WholeInv
  PROVE  /\ TxType /\ AnswerInv /\ NamesInv /\ SpType /\ WritesInv /\ OrderInv /\ CommittedInv
         /\ WholeType /\ RootInv /\ CallInv /\ UntouchedInv /\ CommitInv
         /\ KeptInv /\ AbortInv /\ TogetherInv /\ AckInv
BY DEF TxInv, SpInv, WholeInv

-----------------------------------------------------------------------------
(***************************************************************************)
(* Steps that neither write nor close nor open.                            *)
(***************************************************************************)

\* No query that writes, commits or goes back is new.
NoneMore ==
  \A i \in 1 .. Len(queue') : queue'[i].op \in {"WRITE", "COMMIT", "ROLLBACK TO"} =>
    i \in 1 .. Len(queue) /\ queue'[i] = queue[i]

\* The last place, or one of those before.
LEMMA LastOr ==
  ASSUME NEW n \in Nat
  PROVE  /\ \A i \in 1 .. n + 1 : i \in 1 .. n \/ i = n + 1
         /\ n + 1 \in 1 .. n + 1 /\ \A i \in 1 .. n : i \in 1 .. n + 1
OBVIOUS

\* Another query is none of these.
LEMMA AppendNoneMore ==
  ASSUME TxType, NEW q \in Queries, q.op \notin {"WRITE", "COMMIT", "ROLLBACK TO"},
         queue' = Append(queue, q)
  PROVE  NoneMore
<1>1. /\ Len(queue') = Len(queue) + 1 /\ queue'[Len(queue) + 1] = q /\ Len(queue) \in Nat
      /\ \A i \in 1 .. Len(queue) : queue'[i] = queue[i]
  BY Appended, QueueFacts
<1>2. \A i \in 1 .. Len(queue) + 1 : i \in 1 .. Len(queue) \/ i = Len(queue) + 1
  BY <1>1, LastOr
<1> QED BY <1>1, <1>2 DEF NoneMore

\* What comes before a query of the queue is in it, too.
LEMMA EarlierIn ==
  ASSUME NEW l \in Nat, NEW c \in 1 .. l, NEW i \in 1 .. c - 1
  PROVE  i \in 1 .. l
OBVIOUS

\* The queue after a step is as long as some number says.
LEMMA NextLen ==
  ASSUME TxType'
  PROVE  Len(queue') \in Nat /\ Len(handles') \in Nat
BY DEF TxType

\* Nothing is written, closed or opened, and no write is told of that had not
\* been answered.
Calm ==
  /\ UNCHANGED <<handles, fate, writes, tx, stack, pending, committed, lost>>
  /\ (\A w : Told(w)' => Told(w)) /\ (\A w : Failed(w) => Failed(w)')
  /\ \A h \in Handle : Outermost(h)' <=> Outermost(h)
  /\ \A i \in 1 .. Len(handles) : savepoint'[handles[i]] = savepoint[handles[i]]
  /\ call' \in {"none", "start", "savepoint"} /\ (call' # "none" => answer' # "ok")
  /\ NoneMore

\* A step that neither writes, closes nor opens keeps what is known of commits.
LEMMA CalmParts ==
  ASSUME TxInv, SpInv, WholeInv, TxType', Calm
  PROVE  RootInv' /\ CallInv' /\ UntouchedInv' /\ CommitInv' /\ KeptInv' /\ AbortInv' /\ TogetherInv'
<1>0. /\ TxType /\ NamesInv /\ SpType /\ WritesInv
      /\ WholeType /\ RootInv /\ UntouchedInv /\ CommitInv
      /\ KeptInv /\ AbortInv /\ TogetherInv
  BY WholeParts
<1>u. /\ UNCHANGED <<handles, fate, writes, tx, stack, pending, committed, lost>>
      /\ NoneMore
  BY DEF Calm
<1>1. /\ \A h \in Handle : Latest(h)' <=> Latest(h)
      /\ \A w : Discarded(w)' <=> Discarded(w)
      /\ \A w, h : Under(w, h)' <=> Under(w, h)
  BY <1>u, SameLatest, SameBooks DEF Calm
<1>2. /\ \A w \in 1 .. Len(writes) : writes[w][1] \in Handle
      /\ \A p \in 1 .. Len(pending) : writes[pending[p]][1] \in Handle
      /\ \A i \in 1 .. Len(queue) : queue[i].op = "WRITE" => writes[queue[i].name][1] \in Handle
      /\ handles # <<>> => handles[1] \in Handle
  BY <1>0, MadeUnder, WithServer, FirstOpen
<1>4. RootInv'
  <2>1. handles # <<>> => Latest(handles[1])'
    BY <1>0, <1>1, <1>2, <1>u DEF RootInv
  <2>2. \A w \in 1 .. Len(writes) : Outermost(writes[w][1])'
    BY <1>0, <1>2, <1>u DEF RootInv, Calm
  <2>3. \A p \in 1 .. Len(pending) : Latest(writes[pending[p]][1])'
    BY <1>0, <1>1, <1>2, <1>u DEF RootInv
  <2>4. \A i \in 1 .. Len(queue') : queue'[i].op = "WRITE" => Latest(writes[queue[i].name][1])'
    BY <1>0, <1>1, <1>2, <1>u DEF RootInv, NoneMore
  <2>5. \A i, j \in 1 .. Len(queue') :
          i < j /\ queue'[i].op = "WRITE" /\ queue'[j].op = "WRITE" => queue'[i].name < queue'[j].name
    BY <1>0, <1>u DEF RootInv, NoneMore
  <2> QED BY <1>u, <2>1, <2>2, <2>3, <2>4, <2>5 DEF RootInv
<1>5. CallInv'
  BY DEF CallInv, Calm
<1>6. UntouchedInv'
  <2>1. \A j \in 2 .. Len(handles) : NameOf(j)' = NameOf(j)
    <3>1. \A j \in 2 .. Len(handles) : j \in 1 .. Len(handles)
      BY <1>0, QueueFacts
    <3>2. \A i \in 1 .. Len(handles) : savepoint'[handles[i]] = savepoint[handles[i]]
      BY DEF Calm
    <3> QED BY <3>1, <3>2, <1>u DEF NameOf
  <2>2. \A p \in 1 .. Len(pending) : \A j \in 2 .. Len(handles) :
          Since(stack, NameOf(j)', p) => Under(pending[p], handles[j])'
    <3>1. \A p \in 1 .. Len(pending) : \A j \in 2 .. Len(handles) :
            Since(stack, NameOf(j)', p) => Under(pending[p], handles[j])
      BY <1>0, <2>1 DEF UntouchedInv
    <3> QED BY <1>u, <3>1 DEF Under
  <2>3. \A i \in 1 .. Len(queue') : queue'[i].op = "WRITE" =>
          \A j \in 1 .. Len(handles) : Under(queue[i].name, handles[j])'
    <3>1. \A i \in 1 .. Len(queue') : queue'[i].op = "WRITE" =>
            queue'[i] = queue[i] /\ \A j \in 1 .. Len(handles) : Under(queue[i].name, handles[j])
      BY <1>0, <1>u DEF UntouchedInv, NoneMore
    <3> SUFFICES ASSUME NEW i \in 1 .. Len(queue'), queue'[i].op = "WRITE", NEW j \in 1 .. Len(handles)
                 PROVE  Under(queue[i].name, handles[j])'
      OBVIOUS
    <3>2. queue'[i] = queue[i] /\ Under(queue[i].name, handles[j])
      BY <3>1
    <3> QED BY <1>u, <3>2 DEF Under
  <2>4. \A c \in 1 .. Len(queue') : queue'[c].op = "ROLLBACK TO" =>
          \A p \in 1 .. Len(pending) : Since(stack, queue'[c].name, p) => Discarded(pending[p])'
    BY <1>0, <1>u DEF UntouchedInv, NoneMore, Discarded
  <2>5. \A c \in 1 .. Len(queue') : queue'[c].op = "ROLLBACK TO" =>
          \A i \in 1 .. c - 1 : queue'[i].op = "WRITE" => Discarded(queue[i].name)'
    <3> SUFFICES ASSUME NEW c \in 1 .. Len(queue'), queue'[c].op = "ROLLBACK TO",
                        NEW i \in 1 .. c - 1, queue'[i].op = "WRITE"
                 PROVE  Discarded(queue[i].name)'
      OBVIOUS
    <3>1. c \in 1 .. Len(queue) /\ queue'[c] = queue[c] /\ Len(queue) \in Nat
      BY <1>0, <1>u, QueueFacts DEF NoneMore
    <3>2. i \in 1 .. Len(queue')
      BY NextLen, EarlierIn
    <3>3. queue'[i] = queue[i]
      BY <1>u, <3>2 DEF NoneMore
    <3>4. Discarded(queue[i].name)
      BY <1>0, <3>1, <3>3 DEF UntouchedInv
    <3> QED BY <1>u, <3>3, <3>4 DEF Discarded
  <2> QED BY <1>u, <2>2, <2>3, <2>4, <2>5 DEF UntouchedInv
<1>7. CommitInv'
  BY <1>0, <1>u DEF CommitInv, NoneMore
<1>8. Live' => Live
  BY <1>u DEF Live, NoneMore
<1>9. (\A w : Told(w)' => Told(w)) /\ (\A w : Failed(w) => Failed(w)')
  BY DEF Calm
<1>10. KeptInv'
  BY <1>0, <1>1, <1>2, <1>8, <1>9, <1>u DEF KeptInv
<1>11. AbortInv'
  BY <1>0, <1>1, <1>2, <1>8, <1>9, <1>u DEF AbortInv
<1>12. TogetherInv'
  BY <1>0, <1>1, <1>9, <1>u DEF TogetherInv
<1> QED BY <1>4, <1>5, <1>6, <1>7, <1>10, <1>11, <1>12

\* So does one that tells the application of no write and no commit.
LEMMA WholeCalm ==
  ASSUME TxInv, SpInv, WholeInv, TxType', Calm, UNCHANGED <<wrote, acked>>
  PROVE  WholeInv'
<1>0. WholeType /\ AckInv
  BY WholeParts
<1>1. UNCHANGED <<handles, fate, writes, committed>> /\ NoneMore
  BY DEF Calm
<1>2. WholeType'
  BY <1>0, <1>1 DEF WholeType, NoneMore
<1>3. \A w : Discarded(w)' <=> Discarded(w)
  BY <1>1, SameBooks
<1>4. \A h : Whole(h)' <=> Whole(h)
  BY <1>1, <1>3 DEF Whole
<1>5. \A h \in acked : Outermost(h)' /\ fate'[h] = "committed" /\ Whole(h)'
  BY <1>0, <1>1, <1>4 DEF AckInv, WholeType, Calm
<1>6. AckInv'
  BY <1>5 DEF AckInv, Calm
<1> QED BY <1>2, <1>6, CalmParts DEF WholeInv

\* The name of a handle not yet in use makes none the outermost.
LEMMA FreshMoves ==
  ASSUME TxInv, Fresh \in Handle, fate' = fate, NEW v, savepoint' = [savepoint EXCEPT ![Fresh] = v]
  PROVE  /\ \A h \in Handle : Outermost(h)' <=> Outermost(h)
         /\ \A i \in 1 .. Len(handles) : savepoint'[handles[i]] = savepoint[handles[i]]
<1>0. TxType /\ NamesInv
  BY DEF TxInv
<1>1. fate[Fresh] = "none"
  BY <1>0, FreshNext DEF Handle
<1>2. \A h \in Handle : h # Fresh => savepoint'[h] = savepoint[h]
  BY <1>0 DEF TxType
<1>3. \A h \in Handle : Outermost(h)' <=> Outermost(h)
  BY <1>1, <1>2 DEF Outermost
<1>4. \A i \in 1 .. Len(handles) : handles[i] # Fresh /\ handles[i] \in Handle
  BY <1>0, <1>1, QueueFacts DEF NamesInv
<1> QED BY <1>2, <1>3, <1>4

\* A call that neither commits nor writes is begun.
LEMMA WholeAwait ==
  ASSUME TxInv, SpInv, WholeInv, TxType', NEW op \in {"start", "savepoint"}, NEW q \in Queries,
         q.op \in {"START", "SAVEPOINT"}, Await(op, q),
         UNCHANGED <<handles, fate, writes, wrote, acked, tx, stack, pending, committed, lost>>,
         \A h \in Handle : Outermost(h)' <=> Outermost(h),
         \A i \in 1 .. Len(handles) : savepoint'[handles[i]] = savepoint[handles[i]]
  PROVE  WholeInv'
<1>0. TxType /\ AnswerInv
  BY DEF TxInv
<1>1. /\ call' = op
      /\ \/ queue' = queue /\ answer' = "err"
         \/ queue' = Append(queue, q) /\ answer' = "none"
  BY <1>0, AwaitFacts DEF Calls
<1>2. NoneMore
  <2>1. CASE queue' = queue
    BY <2>1 DEF NoneMore
  <2>2. CASE queue' = Append(queue, q)
    BY <1>0, <2>2, AppendNoneMore
  <2> QED BY <1>1, <2>1, <2>2
<1>3. (\A w : Told(w)' => Told(w)) /\ (\A w : Failed(w) => Failed(w)')
  BY <1>1 DEF Told, Failed
<1>4. Calm
  BY <1>1, <1>2, <1>3 DEF Calm
<1> QED BY <1>4, WholeCalm

\* Asking for a transaction.
LEMMA WholeStart == ASSUME TxInv, SpInv, WholeInv, TxInv', Start PROVE WholeInv'
<1>1. Q("START", NoName) \in Queries /\ Q("START", NoName).op = "START"
  BY DEF Q, Queries, Ops, NoName
<1>2. /\ Await("start", Q("START", NoName)) /\ TxType'
      /\ UNCHANGED <<handles, savepoint, fate, writes, wrote, acked, tx, stack, pending, committed, lost>>
  BY DEF Start, serverVars, TxInv
<1>3. \A h \in Handle : Outermost(h)' <=> Outermost(h)
  BY <1>2 DEF Outermost
<1>4. \A i \in 1 .. Len(handles) : savepoint'[handles[i]] = savepoint[handles[i]]
  BY <1>2
<1> QED BY <1>1, <1>2, <1>3, <1>4, WholeAwait

\* Asking for a savepoint.
LEMMA WholeSavepoint ==
  ASSUME TxInv, SpInv, WholeInv, TxInv', NEW n \in Name, Savepoint(n)
  PROVE  WholeInv'
<1>1. Q("SAVEPOINT", n) \in Queries /\ Q("SAVEPOINT", n).op = "SAVEPOINT"
  BY TransactionAssumption DEF Q, Queries, Ops, Name, Handle
<1>2. /\ Await("savepoint", Q("SAVEPOINT", n)) /\ TxType'
      /\ Fresh \in Handle /\ savepoint' = [savepoint EXCEPT ![Fresh] = n]
      /\ UNCHANGED <<handles, fate, writes, wrote, acked, tx, stack, pending, committed, lost>>
  BY DEF Savepoint, serverVars, TxInv
<1>3. /\ \A h \in Handle : Outermost(h)' <=> Outermost(h)
      /\ \A i \in 1 .. Len(handles) : savepoint'[handles[i]] = savepoint[handles[i]]
  BY <1>2, FreshMoves
<1> QED BY <1>1, <1>2, <1>3, WholeAwait

\* A call is given up, or its answer returned, and no handle opened.
LEMMA WholeEndCall ==
  ASSUME TxInv, SpInv, WholeInv, TxInv', call # "none", call' = "none",
         UNCHANGED <<handles, fate, writes, wrote, acked, tx, stack, pending, committed, lost>>,
         queue' = queue \/ DropStart,
         savepoint' = savepoint \/ (call = "savepoint" /\ savepoint' = [savepoint EXCEPT ![Fresh] = NoName])
  PROVE  WholeInv'
<1>0. TxType /\ AnswerInv /\ NamesInv /\ TxType'
  BY DEF TxInv
<1>1. NoneMore
  <2>1. CASE queue' = queue
    BY <2>1 DEF NoneMore
  <2>2. CASE DropStart
    <3>1. Q("ROLLBACK", NoName) \in Queries /\ Q("ROLLBACK", NoName).op = "ROLLBACK"
      BY DEF Q, Queries, Ops, NoName
    <3>2. queue' = queue \/ queue' = Append(queue, Q("ROLLBACK", NoName))
      BY <2>2 DEF DropStart, Post
    <3>3. CASE queue' = Append(queue, Q("ROLLBACK", NoName))
      BY <1>0, <3>1, <3>3, AppendNoneMore
    <3> QED BY <2>1, <3>2, <3>3
  <2> QED BY <2>1, <2>2
<1>2. /\ \A h \in Handle : Outermost(h)' <=> Outermost(h)
      /\ \A i \in 1 .. Len(handles) : savepoint'[handles[i]] = savepoint[handles[i]]
  <2>1. CASE savepoint' = savepoint
    BY <2>1 DEF Outermost
  <2>2. CASE call = "savepoint" /\ savepoint' = [savepoint EXCEPT ![Fresh] = NoName]
    <3>1. Fresh \in Handle
      BY <1>0, <2>2 DEF NamesInv
    <3> QED BY <2>2, <3>1, FreshMoves
  <2> QED BY <2>1, <2>2
<1>3. (\A w : Told(w)' => Told(w)) /\ (\A w : Failed(w) => Failed(w)')
  BY DEF Told, Failed
<1>4. Calm
  BY <1>1, <1>2, <1>3 DEF Calm
<1> QED BY <1>0, <1>4, WholeCalm

\* Dropping the future of a call.
LEMMA WholeCancel == ASSUME TxInv, SpInv, WholeInv, TxInv', Cancel PROVE WholeInv'
<1>1. /\ call # "none" /\ call' = "none" /\ (queue' = queue \/ DropStart)
      /\ savepoint' = IF call = "savepoint" THEN [savepoint EXCEPT ![Fresh] = NoName] ELSE savepoint
      /\ UNCHANGED <<handles, fate, writes, wrote, acked, tx, stack, pending, committed, lost>>
  BY DEF Cancel, serverVars
<1>2. savepoint' = savepoint \/ (call = "savepoint" /\ savepoint' = [savepoint EXCEPT ![Fresh] = NoName])
  BY <1>1
<1> QED BY <1>1, <1>2, WholeEndCall

-----------------------------------------------------------------------------
(***************************************************************************)
(* An answer returns.                                                      *)
(***************************************************************************)

\* What was written under a handle that is not open any more stays as it was
\* told, when the latest write is told of.
LEMMA WholeTold ==
  ASSUME TxInv, SpInv, WholeInv, TxInv', call = "write", answer \in {"ok", "err"}, call' = "none",
         wrote' = [wrote EXCEPT ![Len(writes)] = answer],
         UNCHANGED <<handles, savepoint, fate, writes, acked, queue, tx, stack, pending, committed, lost>>
  PROVE  WholeInv'
<1>0. /\ TxType /\ AnswerInv /\ NamesInv /\ SpType /\ WholeType /\ CallInv /\ AckInv /\ TxType'
  BY WholeParts DEF TxInv
<1>1. /\ handles # <<>> /\ writes # <<>> /\ writes[Len(writes)] = handles
      /\ queue = <<>> /\ \A i \in 1 .. 0 : FALSE
  BY <1>0 DEF CallInv, AnswerInv
<1>2. Len(writes) \in 1 .. Len(writes)
  <2>1. Len(writes) \in Nat /\ Len(writes) # 0
    BY <1>0, <1>1 DEF SpType
  <2> QED BY <2>1
<1>3. /\ wrote'[Len(writes)] = answer
      /\ \A w : w # Len(writes) /\ wrote'[w] = "ok" => wrote[w] = "ok"
      /\ \A w \in Write : w # Len(writes) => wrote'[w] = wrote[w]
      /\ \A w : w # Len(writes) /\ wrote[w] # "ok" => wrote'[w] # "ok"
      /\ wrote' \in [Write -> {"none", "ok", "err"}]
  <2>1. Len(writes) \in Write
    BY <1>0, <1>2 DEF WholeType
  <2> QED BY <1>0, <2>1 DEF WholeType
<1>4. (\A w : Told(w)' => Told(w)) /\ (\A w : Failed(w) => Failed(w)')
  BY <1>3 DEF Told, Failed
<1>5. NoneMore
  BY DEF NoneMore
<1>6. Calm
  BY <1>4, <1>5 DEF Calm, Outermost
<1>7. WholeType'
  <2>1. \A w \in Write : wrote'[w] = "ok" => w \in 1 .. Len(writes)
    BY <1>0, <1>2, <1>3 DEF WholeType
  <2>2. \A i \in 1 .. Len(queue) : FALSE
    BY <1>1
  <2> QED BY <1>0, <1>3, <2>1, <2>2 DEF WholeType
<1>8. ASSUME NEW h \in acked PROVE Outermost(h)' /\ fate'[h] = "committed" /\ Whole(h)'
  <2>1. Outermost(h) /\ fate[h] = "committed" /\ Whole(h)
    BY <1>0, <1>8 DEF AckInv
  <2>2. handles[1] # h
    BY <1>0, <1>1, <2>1, FirstOpen
  <2>3. \A v \in 1 .. Len(writes) : writes[v][1] = h => v # Len(writes) /\ wrote'[v] = wrote[v]
    BY <1>0, <1>1, <1>3, <2>2 DEF WholeType
  <2>4. Whole(h)'
    BY <2>1, <2>3 DEF Whole, Discarded
  <2> QED BY <2>1, <2>4 DEF Outermost
<1>9. AckInv'
  BY <1>8 DEF AckInv
<1> QED BY <1>0, <1>6, <1>7, <1>9, CalmParts DEF WholeInv

\* The handle whose commit is told of is the latest.
LEMMA LastIs ==
  ASSUME NEW h \in Handle, Latest(h)
  PROVE  LastOutermost \in Handle /\ Latest(LastOutermost)
<1> DEFINE P(x) == /\ fate[x] # "none" /\ savepoint[x] = NoName
                   /\ \A g \in Handle : g > x => fate[g] = "none" \/ savepoint[g] # NoName
<1>1. \A x \in Handle : P(x) <=> Latest(x)
  BY DEF Latest, Outermost
<1>2. LastOutermost = CHOOSE x \in Handle : P(x)
  BY DEF LastOutermost
<1>3. \E x \in Handle : P(x)
  BY <1>1
<1> HIDE DEF P
<1>4. LastOutermost \in Handle /\ P(LastOutermost)
  BY <1>2, <1>3
<1> QED BY <1>1, <1>4

\* A commit is told of.
LEMMA WholeAcked ==
  ASSUME TxInv, SpInv, WholeInv, TxInv', call = "commit", answer = "ok", handles = <<>>, call' = "none",
         acked' = acked \cup {LastOutermost},
         UNCHANGED <<handles, savepoint, fate, writes, wrote, queue, tx, stack, pending, committed, lost>>
  PROVE  WholeInv'
<1>0. WholeType /\ CallInv /\ AckInv /\ TxType'
  BY WholeParts DEF TxInv
<1>1. (\A w : Told(w)' => Told(w)) /\ (\A w : Failed(w) => Failed(w)')
  BY DEF Told, Failed
<1>2. NoneMore
  BY DEF NoneMore
<1>3. Calm
  BY <1>1, <1>2 DEF Calm, Outermost
<1>4. PICK l \in Handle : l = LastOutermost /\ Latest(l)
  <2>1. \E h \in Handle : Latest(h)
    BY <1>0 DEF CallInv
  <2> QED BY <2>1, LastIs
<1>5. Outermost(l) /\ fate[l] = "committed" /\ Whole(l)
  BY <1>0, <1>4 DEF CallInv, AckInv, Latest
<1>6. WholeType'
  BY <1>0, <1>4 DEF WholeType
<1>7. ASSUME NEW h \in acked' PROVE Outermost(h)' /\ fate'[h] = "committed" /\ Whole(h)'
  <2>1. Outermost(h) /\ fate[h] = "committed" /\ Whole(h)
    BY <1>0, <1>4, <1>5, <1>7 DEF AckInv
  <2> QED BY <2>1 DEF Outermost, Whole, Discarded
<1>8. AckInv'
  BY <1>7 DEF AckInv
<1> QED BY <1>0, <1>3, <1>6, <1>8, CalmParts DEF WholeInv

\* What is written was not written under a handle only now taken into use.
LEMMA OpenBooks ==
  ASSUME TxInv, SpInv, WholeInv, Fresh \in Handle,
         fate' = [fate EXCEPT ![Fresh] = "open"], UNCHANGED <<savepoint, writes>>
  PROVE  /\ fate'[Fresh] = "open" /\ fate[Fresh] = "none"
         /\ \A h \in Handle : h # Fresh => fate'[h] = fate[h]
         /\ \A w \in 1 .. Len(writes) :
              writes[w][1] # Fresh /\ (Discarded(w)' <=> Discarded(w))
         /\ \A h \in acked : Outermost(h)' /\ fate'[h] = "committed" /\ h # Fresh
<1>0. TxType /\ NamesInv /\ SpType /\ WritesInv /\ WholeType /\ RootInv /\ AckInv
  BY WholeParts
<1>1. fate[Fresh] = "none"
  BY <1>0, FreshNext DEF Handle
<1>2. fate'[Fresh] = "open" /\ \A h \in Handle : h # Fresh => fate'[h] = fate[h]
  BY <1>0 DEF TxType
<1>3. ASSUME NEW w \in 1 .. Len(writes)
      PROVE  writes[w][1] # Fresh /\ (Discarded(w)' <=> Discarded(w))
  <2>1. \A i \in 1 .. Len(writes[w]) : writes[w][i] \in Handle /\ fate[writes[w][i]] # "none"
    BY <1>0, MadeUnder DEF WritesInv
  <2>2. \A i \in 1 .. Len(writes[w]) : fate'[writes[w][i]] = fate[writes[w][i]]
    BY <1>1, <1>2, <2>1
  <2>3. Discarded(w)' <=> Discarded(w)
    BY <2>2 DEF Discarded
  <2>4. writes[w][1] # Fresh
    BY <1>0, <1>1, <2>1, MadeUnder
  <2> QED BY <2>3, <2>4
<1>4. ASSUME NEW h \in acked PROVE Outermost(h)' /\ fate'[h] = "committed" /\ h # Fresh
  <2>1. Outermost(h) /\ fate[h] = "committed" /\ h \in Handle
    BY <1>0, <1>4 DEF AckInv, WholeType
  <2> QED BY <1>1, <1>2, <2>1 DEF Outermost
<1> QED BY <1>1, <1>2, <1>3, <1>4

\* What the answer that opens a handle leaves as it was.
Opened ==
  /\ call \in {"start", "savepoint"} /\ answer = "ok" /\ call' = "none"
  /\ Fresh \in Handle /\ handles' = Append(handles, Fresh) /\ fate' = [fate EXCEPT ![Fresh] = "open"]
  /\ UNCHANGED <<savepoint, writes, wrote, acked, queue, tx, stack, pending, committed, lost>>

\* What is known of writes and commits that have been told of.
LEMMA OpenTold ==
  ASSUME TxInv, SpInv, WholeInv, Opened
  PROVE  WholeType' /\ CallInv' /\ CommitInv' /\ TogetherInv' /\ AckInv'
<1>0. WholeType /\ CommitInv /\ TogetherInv /\ AckInv
  BY WholeParts
<1>1. /\ call' = "none" /\ UNCHANGED <<writes, wrote, acked, queue, tx, committed>>
      /\ \A w \in 1 .. Len(writes) : Discarded(w)' <=> Discarded(w)
      /\ \A h \in acked : Outermost(h)' /\ fate'[h] = "committed"
  BY OpenBooks DEF Opened
<1>2. WholeType'
  BY <1>0, <1>1 DEF WholeType
<1>3. CallInv' /\ CommitInv'
  BY <1>0, <1>1 DEF CallInv, CommitInv
<1>4. \A w : Told(w)' => Told(w)
  BY <1>1 DEF Told
<1>5. TogetherInv'
  BY <1>0, <1>1, <1>4 DEF TogetherInv
<1>6. ASSUME NEW h \in acked PROVE Whole(h)'
  <2>1. Whole(h)
    BY <1>0, <1>6 DEF AckInv
  <2> QED BY <1>1, <2>1 DEF Whole
<1>7. AckInv'
  BY <1>1, <1>6 DEF AckInv
<1> QED BY <1>2, <1>3, <1>5, <1>7

\* A transaction begins: nothing has been written in it.
LEMMA OpenStart ==
  ASSUME TxInv, SpInv, WholeInv, Opened, call = "start"
  PROVE  RootInv' /\ UntouchedInv' /\ KeptInv' /\ AbortInv'
<1>0. TxType /\ AnswerInv /\ NamesInv /\ SpType /\ WritesInv /\ WholeType /\ RootInv /\ CallInv
  BY WholeParts
<1>1. /\ handles = <<>> /\ Fresh \in Handle /\ queue = <<>> /\ queue' = queue /\ pending = <<>>
      /\ pending' = pending /\ tx' = tx /\ tx # "aborted" /\ handles' = Append(handles, Fresh)
      /\ UNCHANGED <<savepoint, writes>>
  BY <1>0 DEF Opened, NamesInv, AnswerInv, CallInv
<1>2. Len(queue') = 0 /\ Len(pending') = 0 /\ handles'[1] = Fresh /\ \A i \in 1 .. 0 : FALSE
  BY <1>1
<1>3. /\ fate'[Fresh] = "open" /\ fate[Fresh] = "none"
      /\ \A h \in Handle : h # Fresh => fate'[h] = fate[h]
      /\ \A w \in 1 .. Len(writes) : writes[w][1] # Fresh
  BY <1>1, OpenBooks DEF Opened
<1>4. \A h \in Handle : fate[h] # "none" <=> h < Fresh
  BY <1>0, FreshNext
<1>5. Fresh \in Int /\ \A h \in Handle : h \in Int
  BY <1>1, TransactionAssumption DEF Handle
<1>6. PICK f \in Handle : f = Fresh /\ f \in Int
  BY <1>1, <1>5
<1>7. Outermost(f)' /\ savepoint[f] = NoName
  <2>1. savepoint[f] = NoName
    BY <1>0, <1>3, <1>6 DEF NamesInv
  <2> QED BY <1>1, <1>3, <1>6, <2>1 DEF Outermost
<1>8. \A h \in Handle : h > f => ~Outermost(h)'
  <2> SUFFICES ASSUME NEW h \in Handle, h > f PROVE fate'[h] = "none"
    BY DEF Outermost
  <2>1. h # f /\ ~(h < f)
    BY <1>5, <1>6
  <2> QED BY <1>3, <1>4, <1>6, <2>1
<1>9. Latest(f)' /\ \A h \in Handle : Latest(h)' => h = f
  <2>1. Latest(f)'
    BY <1>7, <1>8 DEF Latest
  <2>2. ASSUME NEW h \in Handle, Latest(h)' PROVE h = f
    <3>1. ~(h > f) /\ ~(f > h)
      BY <1>7, <1>8, <2>2 DEF Latest
    <3> QED BY <1>5, <1>6, <3>1
  <2> QED BY <2>1, <2>2
<1>10. \A w \in 1 .. Len(writes) : writes[w][1] \in Handle /\ ~Latest(writes[w][1])'
  BY <1>0, <1>1, <1>3, <1>6, <1>9, MadeUnder
<1>11. RootInv'
  <2>1. ASSUME NEW w \in 1 .. Len(writes) PROVE Outermost(writes[w][1])'
    <3>1. PICK h \in Handle : h = writes[w][1] /\ Outermost(h) /\ h # Fresh
      BY <1>0, <1>3, <1>10 DEF RootInv
    <3>2. Outermost(h)'
      BY <1>1, <1>3, <3>1 DEF Outermost
    <3> QED BY <1>1, <3>1, <3>2
  <2>2. Latest(handles[1])'
    BY <1>2, <1>6, <1>9
  <2> QED BY <1>1, <1>2, <2>1, <2>2 DEF RootInv
<1>12. UntouchedInv'
  BY <1>2 DEF UntouchedInv
<1>13. KeptInv' /\ AbortInv'
  <2>1. KeptInv'
    BY <1>1, <1>10 DEF KeptInv
  <2> QED BY <1>1, <2>1 DEF AbortInv
<1> QED BY <1>11, <1>12, <1>13

\* The savepoint that was asked for is on top of the stack, and nothing was
\* written since.
LEMMA NotSince ==
  ASSUME TxInv, SpInv, call = "savepoint", answer = "ok", NEW p \in 1 .. Len(pending)
  PROVE  ~Since(stack, savepoint[Fresh], p)
<1>1. ~lost /\ stack \in Stacks /\ Len(pending) \in Nat
  <2>1. ~lost
    <3>1. CASE lost
      <4>1. Len(pending) = 0
        BY <3>1, LostParts
      <4> QED BY <4>1
    <3> QED BY <3>1
  <2> QED BY <2>1 DEF SpInv, SpType
<1>2. stack # <<>> /\ stack[Len(stack)] = [name |-> savepoint[Fresh], mark |-> Len(pending)]
  BY <1>1 DEF SpInv, AwaitedInv
<1> DEFINE n == savepoint[Fresh]
<1>3. Len(stack) \in Nat /\ Len(stack) # 0
  BY <1>1, <1>2 DEF Stacks
<1>4. Len(stack) \in 1 .. Len(stack) /\ \A j \in Len(stack) + 1 .. Len(stack) : FALSE
  BY <1>3
<1>5. stack[Len(stack)].name = n /\ stack[Len(stack)].mark = Len(pending)
  BY <1>2
<1>6. IsAt(stack, n, Len(stack))
  BY <1>4, <1>5 DEF IsAt
<1>7. ~(Len(pending) < p)
  BY <1>1
<1> HIDE DEF n
<1>8. ASSUME NEW e \in 1 .. Len(stack), IsAt(stack, n, e), stack[e].mark < p PROVE FALSE
  <2>1. e = Len(stack)
    BY <1>1, <1>6, <1>8, OnePlace
  <2> QED BY <1>5, <1>7, <1>8, <2>1
<1>9. ~Since(stack, n, p)
  BY <1>8 DEF Since
<1> QED BY <1>9 DEF n

\* A savepoint is taken into use: nothing has been written under it.
LEMMA OpenSavepoint ==
  ASSUME TxInv, SpInv, WholeInv, Opened, call = "savepoint"
  PROVE  RootInv' /\ UntouchedInv' /\ KeptInv' /\ AbortInv'
<1> DEFINE l == Len(handles)  k == l + 1
<1>0. /\ TxType /\ AnswerInv /\ NamesInv /\ SpType /\ WritesInv
      /\ WholeType /\ RootInv /\ UntouchedInv /\ KeptInv /\ AbortInv
  BY WholeParts
<1>1. /\ handles # <<>> /\ Fresh \in Handle /\ savepoint[Fresh] # NoName /\ queue = <<>>
      /\ handles' = Append(handles, Fresh) /\ call' = "none" /\ answer = "ok"
      /\ UNCHANGED <<savepoint, writes, wrote, queue, tx, stack, pending, lost>>
  BY <1>0 DEF Opened, NamesInv, AnswerInv
<1>2. /\ Len(handles') = k /\ handles'[k] = Fresh /\ k \in Nat /\ l \in Nat
      /\ \A j \in 1 .. l : handles'[j] = handles[j]
  BY <1>0, <1>1 DEF TxType
<1>3. /\ fate'[Fresh] = "open" /\ fate[Fresh] = "none"
      /\ \A h \in Handle : h # Fresh => fate'[h] = fate[h]
      /\ \A w \in 1 .. Len(writes) : Discarded(w)' <=> Discarded(w)
  BY <1>1, OpenBooks DEF Opened
<1>4. \A h \in Handle : Outermost(h)' <=> Outermost(h)
  BY <1>1, <1>3 DEF Outermost
<1>5. \A h \in Handle : Latest(h)' <=> Latest(h)
  BY <1>4, SameLatest
<1>6. /\ \A w \in 1 .. Len(writes) : writes[w][1] \in Handle
      /\ \A p \in 1 .. Len(pending) : writes[pending[p]][1] \in Handle
  BY <1>0, MadeUnder, WithServer
<1>7. /\ 1 \in 1 .. l /\ handles[1] \in Handle /\ handles'[1] = handles[1]
  BY <1>0, <1>1, <1>2, FirstOpen
<1>8. \A i \in 1 .. Len(queue') : FALSE
  BY <1>1
<1> HIDE DEF k
<1>9. RootInv'
  <2>1. Latest(handles[1])'
    <3>1. PICK h \in Handle : h = handles[1] /\ h = handles'[1] /\ Latest(h)
      BY <1>0, <1>1, <1>7 DEF RootInv
    <3>2. Latest(h)'
      BY <1>5, <3>1
    <3> QED BY <3>1, <3>2
  <2>2. \A w \in 1 .. Len(writes) : Outermost(writes[w][1])'
    BY <1>0, <1>1, <1>4, <1>6 DEF RootInv
  <2>3. \A p \in 1 .. Len(pending) : Latest(writes[pending[p]][1])'
    BY <1>0, <1>1, <1>5, <1>6 DEF RootInv
  <2>4. UNCHANGED <<writes, pending>> /\ \A i \in 1 .. Len(queue') : FALSE
    BY <1>1, <1>8
  <2> QED BY <2>1, <2>2, <2>3, <2>4 DEF RootInv
<1>10. ASSUME NEW p \in 1 .. Len(pending), NEW j \in 2 .. k, Since(stack, NameOf(j)', p)
       PROVE  Under(pending[p], handles'[j])
  <2>1. j = k \/ (j \in 2 .. l /\ j \in 1 .. l)
    BY <1>2, OpenRange DEF k
  <2>2. CASE j = k
    BY <1>1, <1>2, <1>10, <2>2, NotSince DEF NameOf
  <2>3. CASE j \in 2 .. l /\ j \in 1 .. l
    <3>1. NameOf(j)' = NameOf(j) /\ handles'[j] = handles[j]
      BY <1>1, <1>2, <2>3 DEF NameOf
    <3> QED BY <1>0, <1>10, <2>3, <3>1 DEF UntouchedInv
  <2> QED BY <2>1, <2>2, <2>3
<1>11. UntouchedInv'
  <2>1. \A p \in 1 .. Len(pending') : \A j \in 2 .. Len(handles') :
          Since(stack', NameOf(j)', p) => Under(pending[p], handles[j])'
    <3> SUFFICES ASSUME NEW p \in 1 .. Len(pending'), NEW j \in 2 .. Len(handles'), Since(stack', NameOf(j)', p)
                 PROVE  Under(pending[p], handles[j])'
      OBVIOUS
    <3>1. Under(pending[p], handles'[j])
      BY <1>1, <1>2, <1>10
    <3> QED BY <1>1, <3>1 DEF Under
  <2> QED BY <1>8, <2>1 DEF UntouchedInv
<1>12. Live' => Live
  BY <1>1 DEF Live
<1>13. (\A w : Told(w)' => Told(w)) /\ (\A w : Failed(w) => Failed(w)')
  BY <1>1 DEF Told, Failed
<1>14. KeptInv'
  BY <1>0, <1>1, <1>3, <1>5, <1>6, <1>12, <1>13 DEF KeptInv
<1>15. AbortInv'
  BY <1>0, <1>1, <1>5, <1>6, <1>12, <1>13 DEF AbortInv
<1> QED BY <1>9, <1>11, <1>14, <1>15

\* An answer returns.
LEMMA WholeReturn == ASSUME TxInv, SpInv, WholeInv, TxInv', Return PROVE WholeInv'
<1>0. TxType /\ NamesInv
  BY DEF TxInv
<1>1. /\ call # "none" /\ answer \in {"ok", "err"} /\ call' = "none"
      /\ UNCHANGED <<writes, tx, stack, pending, committed, lost>>
      /\ savepoint' = IF answer = "err" /\ call = "savepoint"
                        THEN [savepoint EXCEPT ![Fresh] = NoName] ELSE savepoint
      /\ IF answer = "ok" /\ call \in {"start", "savepoint"}
           THEN handles' = Append(handles, Fresh) /\ fate' = [fate EXCEPT ![Fresh] = "open"]
           ELSE UNCHANGED <<handles, fate>>
      /\ IF answer = "err" /\ call = "start" THEN DropStart ELSE UNCHANGED queue
      /\ wrote' = IF call = "write" THEN [wrote EXCEPT ![Len(writes)] = answer] ELSE wrote
      /\ acked' = IF call = "commit" /\ answer = "ok" /\ handles = <<>>
                    THEN acked \cup {LastOutermost} ELSE acked
  BY <1>0 DEF Return, serverVars, TxType
<1>2. CASE answer = "ok" /\ call \in {"start", "savepoint"}
  <2>1. Fresh \in Handle
    BY <1>0, <1>2 DEF NamesInv
  <2>2. Opened
    BY <1>1, <1>2, <2>1 DEF Opened
  <2>3. RootInv' /\ UntouchedInv' /\ KeptInv' /\ AbortInv'
    BY <1>2, <2>2, OpenStart, OpenSavepoint
  <2> QED BY <2>2, <2>3, OpenTold DEF WholeInv
<1>3. CASE call = "write"
  BY <1>1, <1>3, WholeTold
<1>4. CASE call = "commit" /\ answer = "ok" /\ handles = <<>>
  BY <1>1, <1>4, WholeAcked
<1>5. CASE /\ ~(answer = "ok" /\ call \in {"start", "savepoint"}) /\ call # "write"
           /\ ~(call = "commit" /\ answer = "ok" /\ handles = <<>>)
  <2>1. UNCHANGED <<handles, fate, writes, wrote, acked, tx, stack, pending, committed, lost>>
    BY <1>1, <1>5
  <2>2. queue' = queue \/ DropStart
    BY <1>1
  <2>3. savepoint' = savepoint \/ (call = "savepoint" /\ savepoint' = [savepoint EXCEPT ![Fresh] = NoName])
    BY <1>1
  <2> QED BY <1>1, <2>1, <2>2, <2>3, WholeEndCall
<1> QED BY <1>2, <1>3, <1>4, <1>5

-----------------------------------------------------------------------------
(***************************************************************************)
(* A statement is made, or a handle closed.                                *)
(***************************************************************************)

\* No query but q is new, and it comes last.
OneMore(q) ==
  \A i \in 1 .. Len(queue') :
    \/ i \in 1 .. Len(queue) /\ queue'[i] = queue[i]
    \/ i = Len(queue) + 1 /\ queue'[i] = q

\* A query that is appended comes last, and if it is not nothing is new.
LEMMA AppendOneMore ==
  ASSUME TxType, NEW q \in Queries, queue' = queue \/ queue' = Append(queue, q)
  PROVE  OneMore(q)
<1>1. CASE queue' = queue
  BY <1>1 DEF OneMore
<1>2. CASE queue' = Append(queue, q)
  <2>1. /\ Len(queue') = Len(queue) + 1 /\ queue'[Len(queue) + 1] = q /\ Len(queue) \in Nat
        /\ \A i \in 1 .. Len(queue) : queue'[i] = queue[i]
    BY <1>2, Appended, QueueFacts
  <2>2. \A i \in 1 .. Len(queue) + 1 : i \in 1 .. Len(queue) \/ i = Len(queue) + 1
    BY <2>1, LastOr
  <2> QED BY <2>1, <2>2 DEF OneMore
<1> QED BY <1>1, <1>2

\* What comes before another query of a queue with one more is not the last.
LEMMA OldBefore ==
  ASSUME TxType, TxType', NEW q, OneMore(q), NEW j \in 1 .. Len(queue'), NEW i \in 1 .. j - 1,
         Len(queue') <= Len(queue) + 1
  PROVE  i \in 1 .. Len(queue) /\ queue'[i] = queue[i]
<1>1. Len(queue) \in Nat /\ Len(queue') \in Nat
  BY QueueFacts, NextLen
<1>2. i \in 1 .. Len(queue') /\ i # Len(queue) + 1
  BY <1>1
<1> QED BY <1>2 DEF OneMore

\* What is written, and by whom, when one more statement is made.
LEMMA WriteBooks ==
  ASSUME TxInv, SpInv, WholeInv, handles # <<>>, writes' = Append(writes, handles), UNCHANGED <<fate, handles>>,
         NEW n, n = Len(writes) + 1
  PROVE  /\ n \in 1 .. Len(writes') /\ writes'[n] = handles /\ ~Discarded(n)' /\ n = Len(writes')
         /\ \A j \in 1 .. Len(handles) : Under(n, handles[j])'
         /\ \A w \in 1 .. Len(writes') : w \in 1 .. Len(writes) \/ w = n
         /\ \A w \in 1 .. Len(writes) :
              /\ writes'[w] = writes[w] /\ w # n /\ w \in 1 .. Len(writes') /\ w < n
              /\ Discarded(w)' <=> Discarded(w)
              /\ \A h : Under(w, h)' <=> Under(w, h)
<1>0. TxType /\ NamesInv /\ SpType
  BY WholeParts
<1>1. /\ Len(writes') = Len(writes) + 1 /\ Len(writes) \in Nat /\ writes'[Len(writes) + 1] = handles
      /\ \A w \in 1 .. Len(writes) : writes'[w] = writes[w]
  <2>1. writes \in Seq(Seq(Handle)) /\ handles \in Seq(Handle)
    BY <1>0 DEF SpType, TxType
  <2> QED BY <2>1, AppendType
<1>2. /\ n \in 1 .. Len(writes') /\ writes'[n] = handles /\ n = Len(writes')
      /\ \A w \in 1 .. Len(writes') : w \in 1 .. Len(writes) \/ w = n
      /\ \A w \in 1 .. Len(writes) : w \in 1 .. Len(writes') /\ w # n /\ w < n
  BY <1>1
<1>3. ~Discarded(n)' /\ \A j \in 1 .. Len(handles) : Under(n, handles[j])'
  <2>1. \A i \in 1 .. Len(handles) : fate[handles[i]] = "open"
    BY <1>0 DEF NamesInv
  <2>2. ~Discarded(n)'
    BY <1>2, <2>1 DEF Discarded
  <2>3. ASSUME NEW j \in 1 .. Len(handles) PROVE \E i \in 1 .. Len(writes'[n]) : writes'[n][i] = handles[j]
    BY <1>2
  <2>4. \A j \in 1 .. Len(handles) : Under(n, handles[j])'
    BY <2>3 DEF Under
  <2> QED BY <2>2, <2>4
<1>4. ASSUME NEW w \in 1 .. Len(writes)
      PROVE  (Discarded(w)' <=> Discarded(w)) /\ \A h : Under(w, h)' <=> Under(w, h)
  <2>1. writes'[w] = writes[w]
    BY <1>1
  <2> QED BY <2>1 DEF Discarded, Under
<1> QED BY <1>1, <1>2, <1>3, <1>4

\* What is known of the handles and of the writes that the server has, when one
\* more statement is made.
LEMMA WriteRoot ==
  ASSUME TxInv, SpInv, WholeInv, TxType', handles # <<>>, writes' = Append(writes, handles),
         NEW n, n = Len(writes) + 1, n \in Write,
         NEW q \in Queries, q = Q("WRITE", n), queue' = queue \/ queue' = Append(queue, q),
         UNCHANGED <<handles, fate, savepoint, wrote, acked, tx, stack, pending, committed, lost>>
  PROVE  WholeType' /\ RootInv' /\ UntouchedInv' /\ CommitInv'
<1>0. TxType /\ SpType /\ WritesInv /\ WholeType /\ RootInv /\ UntouchedInv /\ CommitInv
  BY WholeParts
<1>1. OneMore(q) /\ q.op = "WRITE" /\ q.name = n
  BY <1>0, AppendOneMore DEF Q
<1>2. /\ n \in 1 .. Len(writes') /\ writes'[n] = handles /\ n = Len(writes')
      /\ \A j \in 1 .. Len(handles) : Under(n, handles[j])'
      /\ \A w \in 1 .. Len(writes') : w \in 1 .. Len(writes) \/ w = n
      /\ \A w \in 1 .. Len(writes) :
           /\ writes'[w] = writes[w] /\ w # n /\ w \in 1 .. Len(writes') /\ w < n
           /\ Discarded(w)' <=> Discarded(w)
           /\ \A h : Under(w, h)' <=> Under(w, h)
  BY WriteBooks
<1>3. /\ \A p \in 1 .. Len(pending) : pending[p] \in 1 .. Len(writes)
      /\ \A i \in 1 .. Len(queue) : queue[i].op = "WRITE" => queue[i].name \in 1 .. Len(writes)
  BY <1>0 DEF WritesInv
<1>4. \A h : (Outermost(h)' <=> Outermost(h)) /\ (Latest(h)' <=> Latest(h))
  BY DEF Outermost, Latest
<1>5. WholeType'
  <2>1. ASSUME NEW w \in Write, wrote[w] = "ok"
        PROVE  /\ w \in 1 .. Len(writes')
               /\ \A i \in 1 .. Len(queue') : queue'[i].op = "WRITE" => queue'[i].name # w
    <3>1. w \in 1 .. Len(writes) /\ \A i \in 1 .. Len(queue) : queue[i].op = "WRITE" => queue[i].name # w
      BY <1>0, <2>1 DEF WholeType
    <3> QED BY <1>1, <1>2, <3>1 DEF OneMore
  <2>2. \A w \in 1 .. Len(writes') : w \in Write /\ writes'[w] # <<>>
    BY <1>0, <1>2 DEF WholeType
  <2> QED BY <1>0, <2>1, <2>2 DEF WholeType
<1>6. RootInv'
  <2>1. Latest(handles[1]) /\ handles # <<>>
    BY <1>0 DEF RootInv
  <2>2. Latest(handles[1])'
    BY <2>1 DEF Latest, Outermost
  <2>3. ASSUME NEW w \in 1 .. Len(writes') PROVE Outermost(writes[w][1])'
    <3>1. CASE w \in 1 .. Len(writes)
      <4>1. writes'[w][1] = writes[w][1] /\ Outermost(writes[w][1])
        BY <1>0, <1>2, <3>1 DEF RootInv
      <4> QED BY <4>1 DEF Outermost
    <3>2. CASE w = n
      <4>1. writes'[w][1] = handles[1]
        BY <1>2, <3>2
      <4> QED BY <2>1, <4>1 DEF Outermost, Latest
    <3> QED BY <1>2, <3>1, <3>2
  <2>4. ASSUME NEW p \in 1 .. Len(pending) PROVE Latest(writes[pending[p]][1])'
    <3>1. writes'[pending[p]][1] = writes[pending[p]][1] /\ Latest(writes[pending[p]][1])
      BY <1>0, <1>2, <1>3 DEF RootInv
    <3> QED BY <3>1 DEF Latest, Outermost
  <2>5. ASSUME NEW i \in 1 .. Len(queue'), queue'[i].op = "WRITE" PROVE Latest(writes[queue[i].name][1])'
    <3>1. CASE i \in 1 .. Len(queue) /\ queue'[i] = queue[i]
      <4>1. writes'[queue[i].name][1] = writes[queue[i].name][1] /\ Latest(writes[queue[i].name][1])
        BY <1>0, <1>2, <1>3, <2>5, <3>1 DEF RootInv
      <4> QED BY <3>1, <4>1 DEF Latest, Outermost
    <3>2. CASE queue'[i] = q
      <4>1. writes'[queue'[i].name][1] = handles[1]
        BY <1>1, <1>2, <3>2
      <4> QED BY <2>1, <4>1 DEF Latest, Outermost
    <3> QED BY <1>1, <3>1, <3>2 DEF OneMore
  <2>6. ASSUME NEW i \in 1 .. Len(queue'), NEW j \in 1 .. Len(queue'), i < j,
               queue'[i].op = "WRITE", queue'[j].op = "WRITE"
        PROVE  queue'[i].name < queue'[j].name
    <3>1. Len(queue') <= Len(queue) + 1 /\ i \in 1 .. j - 1
      <4>1. Len(queue) \in Nat /\ Len(queue') \in Nat
        BY <1>0, QueueFacts, NextLen
      <4>2. CASE queue' = queue
        BY <4>1, <4>2, <2>6
      <4>3. CASE queue' = Append(queue, q)
        <5>1. Len(queue') = Len(queue) + 1
          BY <1>0, <4>3, Appended
        <5> QED BY <4>1, <5>1, <2>6
      <4> QED BY <4>2, <4>3
    <3>2. i \in 1 .. Len(queue) /\ queue'[i] = queue[i]
      BY <1>0, <1>1, <3>1, OldBefore
    <3>3. CASE j \in 1 .. Len(queue) /\ queue'[j] = queue[j]
      BY <1>0, <2>6, <3>2, <3>3 DEF RootInv
    <3>4. CASE queue'[j] = q
      BY <1>1, <1>2, <1>3, <2>6, <3>2, <3>4
    <3> QED BY <1>1, <3>3, <3>4 DEF OneMore
  <2> QED BY <2>2, <2>3, <2>4, <2>5, <2>6 DEF RootInv
<1>7. UntouchedInv'
  <2>1. ASSUME NEW p \in 1 .. Len(pending), NEW j \in 2 .. Len(handles), Since(stack, NameOf(j), p)
        PROVE  Under(pending[p], handles[j])'
    <3>1. Under(pending[p], handles[j]) /\ pending[p] \in 1 .. Len(writes)
      BY <1>0, <1>3, <2>1 DEF UntouchedInv
    <3>2. writes'[pending[p]] = writes[pending[p]]
      BY <1>2, <3>1
    <3> QED BY <3>1, <3>2 DEF Under
  <2>2. ASSUME NEW i \in 1 .. Len(queue'), queue'[i].op = "WRITE", NEW j \in 1 .. Len(handles)
        PROVE  Under(queue[i].name, handles[j])'
    <3>1. CASE i \in 1 .. Len(queue) /\ queue'[i] = queue[i]
      <4>1. Under(queue[i].name, handles[j]) /\ queue[i].name \in 1 .. Len(writes)
        BY <1>0, <1>3, <2>2, <3>1 DEF UntouchedInv
      <4>2. writes'[queue'[i].name] = writes[queue[i].name] /\ queue'[i].name = queue[i].name
        BY <1>2, <3>1, <4>1
      <4> QED BY <4>1, <4>2 DEF Under
    <3>2. CASE queue'[i] = q
      <4>1. queue'[i].name = n /\ Under(n, handles[j])'
        BY <1>1, <1>2, <3>2
      <4> QED BY <4>1 DEF Under
    <3> QED BY <1>1, <3>1, <3>2 DEF OneMore
  <2>3. ASSUME NEW c \in 1 .. Len(queue'), queue'[c].op = "ROLLBACK TO"
        PROVE  /\ \A p \in 1 .. Len(pending) : Since(stack, queue'[c].name, p) => Discarded(pending[p])'
               /\ \A i \in 1 .. c - 1 : queue'[i].op = "WRITE" => Discarded(queue[i].name)'
    <3>1. c \in 1 .. Len(queue) /\ queue'[c] = queue[c] /\ queue[c].op = "ROLLBACK TO"
      BY <1>1, <2>3 DEF OneMore
    <3>2. ASSUME NEW p \in 1 .. Len(pending), Since(stack, queue'[c].name, p)
          PROVE  Discarded(pending[p])'
      <4>1. Discarded(pending[p]) /\ pending[p] \in 1 .. Len(writes)
        BY <1>0, <1>3, <3>1, <3>2 DEF UntouchedInv
      <4>2. writes'[pending[p]] = writes[pending[p]]
        BY <1>2, <4>1
      <4> QED BY <4>1, <4>2 DEF Discarded
    <3>3. ASSUME NEW i \in 1 .. c - 1, queue'[i].op = "WRITE" PROVE Discarded(queue[i].name)'
      <4>1. i \in 1 .. Len(queue) /\ Len(queue) \in Nat
        BY <1>0, <3>1, QueueFacts, EarlierIn
      <4>2. queue'[i] = queue[i]
        <5>1. i # Len(queue) + 1 /\ i \in 1 .. Len(queue')
          BY <4>1, <1>0, NextLen, EarlierIn
        <5> QED BY <1>1, <5>1 DEF OneMore
      <4>3. Discarded(queue[i].name) /\ queue[i].name \in 1 .. Len(writes)
        BY <1>0, <1>3, <3>1, <3>3, <4>1, <4>2 DEF UntouchedInv
      <4>4. writes'[queue'[i].name] = writes[queue[i].name]
        BY <1>2, <4>2, <4>3
      <4> QED BY <4>2, <4>3, <4>4 DEF Discarded
    <3> QED BY <3>2, <3>3
  <2>4. \A p \in 1 .. Len(pending) : \A j \in 2 .. Len(handles) :
          Since(stack, NameOf(j), p) => Under(pending[p], handles[j])'
    BY <2>1
  <2>5. /\ \A i \in 1 .. Len(queue') : queue'[i].op = "WRITE" =>
             \A j \in 1 .. Len(handles) : Under(queue[i].name, handles[j])'
        /\ \A c \in 1 .. Len(queue') : queue'[c].op = "ROLLBACK TO" =>
             /\ \A p \in 1 .. Len(pending) : Since(stack, queue'[c].name, p) => Discarded(pending[p])'
             /\ \A i \in 1 .. c - 1 : queue'[i].op = "WRITE" => Discarded(queue[i].name)'
    BY <2>2, <2>3
  <2>6. \A j : NameOf(j)' = NameOf(j)
    BY DEF NameOf
  <2> QED BY <2>4, <2>5, <2>6 DEF UntouchedInv
<1>8. CommitInv'
  BY <1>0, <1>1 DEF CommitInv, OneMore
<1> QED BY <1>5, <1>6, <1>7, <1>8

\* What is known of the writes that succeeded, when one more is made.
LEMMA WriteKept ==
  ASSUME TxInv, SpInv, WholeInv, handles # <<>>, writes' = Append(writes, handles),
         NEW n, n = Len(writes) + 1, n \in Write,
         NEW q \in Queries, q = Q("WRITE", n), queue' = queue \/ queue' = Append(queue, q),
         call = "none", call' = "write", answer' \in {"none", "err"},
         UNCHANGED <<handles, fate, savepoint, wrote, acked, tx, stack, pending, committed, lost>>
  PROVE  KeptInv' /\ AbortInv' /\ TogetherInv' /\ AckInv'
<1>0. /\ TxType /\ SpType /\ NamesInv /\ WritesInv /\ WholeType /\ RootInv
      /\ KeptInv /\ AbortInv /\ TogetherInv /\ AckInv
  BY WholeParts
<1>2. /\ writes'[n] = handles /\ n = Len(writes') /\ ~Discarded(n)'
      /\ \A w \in 1 .. Len(writes') : w \in 1 .. Len(writes) \/ w = n
      /\ \A w \in 1 .. Len(writes) :
           /\ writes'[w] = writes[w] /\ w # n /\ w \in 1 .. Len(writes')
           /\ Discarded(w)' <=> Discarded(w)
  BY WriteBooks
<1>3. committed \subseteq 1 .. Len(writes)
  BY <1>0 DEF WritesInv
<1>4. wrote[n] # "ok"
  <2>1. ~(n \in 1 .. Len(writes))
    BY <1>2
  <2> QED BY <1>0, <2>1 DEF WholeType
<1>5. /\ \A w \in 1 .. Len(writes') : Told(w)' => w \in 1 .. Len(writes) /\ Told(w)
      /\ \A w \in 1 .. Len(writes) : Failed(w) => Failed(w)'
  BY <1>2, <1>4 DEF Told, Failed
<1>6. Live' => Live
  BY DEF Live
<1>7. KeptInv'
  <2> SUFFICES ASSUME Live', NEW w \in 1 .. Len(writes'), Latest(writes[w][1])', Told(w)', ~Discarded(w)'
               PROVE  \E p \in 1 .. Len(pending) : pending[p] = w
    BY DEF KeptInv
  <2>1. w \in 1 .. Len(writes) /\ Told(w)
    BY <1>5
  <2>2. writes'[w] = writes[w] /\ ~Discarded(w)
    BY <1>2, <2>1
  <2>3. Latest(writes[w][1])
    BY <2>2 DEF Latest, Outermost
  <2> QED BY <1>0, <1>6, <2>1, <2>2, <2>3 DEF KeptInv
<1>8. AbortInv'
  <2> SUFFICES ASSUME Live', tx = "aborted"
               PROVE  \E w \in 1 .. Len(writes') : Latest(writes[w][1])' /\ Failed(w)'
    BY DEF AbortInv
  <2>1. PICK w \in 1 .. Len(writes) : Latest(writes[w][1]) /\ Failed(w)
    BY <1>0, <1>6 DEF AbortInv
  <2>2. w \in 1 .. Len(writes') /\ writes'[w] = writes[w] /\ Failed(w)'
    BY <1>2, <1>5, <2>1
  <2>3. Latest(writes[w][1])'
    BY <2>1, <2>2 DEF Latest, Outermost
  <2> QED BY <2>2, <2>3
<1>9. TogetherInv'
  <2> SUFFICES ASSUME NEW v \in 1 .. Len(writes'), NEW w \in 1 .. Len(writes'),
                      writes'[v][1] = writes'[w][1], v \in committed, Told(w)', ~Discarded(w)'
               PROVE  w \in committed
    BY DEF TogetherInv
  <2>1. w \in 1 .. Len(writes) /\ Told(w) /\ v \in 1 .. Len(writes)
    BY <1>3, <1>5
  <2>2. writes'[w] = writes[w] /\ writes'[v] = writes[v] /\ ~Discarded(w)
    BY <1>2, <2>1
  <2> QED BY <1>0, <2>1, <2>2 DEF TogetherInv
<1>10. ASSUME NEW h \in acked PROVE Whole(h)'
  <2>1. fate[h] = "committed" /\ Whole(h)
    BY <1>0, <1>10 DEF AckInv
  <2>2. handles[1] # h
    BY <1>0, <2>1, FirstOpen
  <2> SUFFICES ASSUME \A v \in 1 .. Len(writes') : writes'[v][1] = h => wrote[v] = "ok",
                      NEW w \in 1 .. Len(writes'), writes'[w][1] = h, ~Discarded(w)'
               PROVE  w \in committed
    BY DEF Whole
  <2>3. w \in 1 .. Len(writes)
    BY <1>2, <2>2
  <2>4. \A v \in 1 .. Len(writes) : writes[v][1] = h => wrote[v] = "ok"
    BY <1>2
  <2> QED BY <1>2, <2>1, <2>3, <2>4 DEF Whole
<1>11. AckInv'
  <2>1. \A h \in acked : Outermost(h)' /\ fate'[h] = "committed"
    BY <1>0 DEF AckInv, Outermost
  <2> QED BY <1>10, <2>1 DEF AckInv
<1> QED BY <1>7, <1>8, <1>9, <1>11

\* A statement is made.
LEMMA WholeWriteRow == ASSUME TxInv, SpInv, WholeInv, TxInv', WriteRow PROVE WholeInv'
<1>0. TxType /\ AnswerInv /\ TxType' /\ SpType /\ WholeType
  BY WholeParts DEF TxInv
<1>1. PICK n : n = Len(writes) + 1 /\ n \in Write
  BY DEF WriteRow, NewWrite
<1>2. PICK q \in Queries : q = Q("WRITE", n)
  <2>1. Q("WRITE", NewWrite) \in Queries
    BY TransactionAssumption DEF WriteRow, Q, Queries, Ops, Write
  <2> QED BY <1>1, <2>1 DEF NewWrite
<1>3. /\ handles # <<>> /\ Await("write", q) /\ writes' = Append(writes, handles)
      /\ UNCHANGED <<handles, fate, savepoint, wrote, acked, tx, stack, pending, committed, lost>>
  BY <1>1, <1>2 DEF WriteRow, serverVars, NewWrite
<1>4. /\ call = "none" /\ call' = "write" /\ answer' \in {"none", "err"}
      /\ queue' = queue \/ queue' = Append(queue, q)
      /\ answer' = "none" => queue' = Append(queue, q)
  BY <1>0, <1>3, AwaitFacts DEF Calls
<1>5. WholeType' /\ RootInv' /\ UntouchedInv' /\ CommitInv'
  BY <1>0, <1>1, <1>2, <1>3, <1>4, WriteRoot
<1>6. KeptInv' /\ AbortInv' /\ TogetherInv' /\ AckInv'
  BY <1>1, <1>2, <1>3, <1>4, WriteKept
<1>7. CallInv'
  <2>1. n \in 1 .. Len(writes') /\ writes'[n] = handles /\ n = Len(writes') /\ ~(n \in 1 .. Len(writes))
    <3>1. Len(writes) \in Nat
      BY <1>0 DEF SpType
    <3>2. ~(n \in 1 .. Len(writes))
      BY <1>1, <3>1
    <3> QED BY <1>1, <1>3, <3>2, WriteBooks
  <2>2. writes' # <<>>
    <3>1. CASE writes' = <<>>
      <4>1. Len(writes') = 0
        BY <3>1
      <4> QED BY <2>1, <4>1
    <3> QED BY <3>1
  <2>3. wrote[n] # "ok"
    BY <1>0, <1>1, <2>1 DEF WholeType
  <2>4. answer' = "none" => queue'[Len(queue')] = Q("WRITE", n)
    BY <1>0, <1>2, <1>4, Appended
  <2> QED BY <1>3, <1>4, <2>1, <2>2, <2>3, <2>4 DEF CallInv
<1> QED BY <1>5, <1>6, <1>7 DEF WholeInv

\* The innermost handle is closed, for good or not, with the query that says so
\* if there is a connection.
Closed(q, f) ==
  /\ handles # <<>> /\ Close(f) /\ f \in {"committed", "rolledback"}
  /\ call = "none" /\ call' \in {"none", "commit", "rollback"}
  /\ call' = "commit" => f = "committed"
  /\ IF savepoint[Top] = NoName
       THEN q.op = IF f = "committed" THEN "COMMIT" ELSE "ROLLBACK"
       ELSE q.op = (IF f = "committed" THEN "RELEASE" ELSE "ROLLBACK TO") /\ q.name = savepoint[Top]
  /\ answer' # "ok"
  /\ \/ lost /\ queue' = queue /\ (call' # "none" => answer' = "err")
     \/ ~lost /\ queue' = Append(queue, q)

\* Closing a handle discards what was written under it if it is rolled back,
\* and brings nothing back.
LEMMA CloseBooks ==
  ASSUME TxInv, SpInv, WholeInv, NEW q \in Queries, NEW f, Closed(q, f)
  PROVE  /\ Top \in Handle /\ fate[Top] = "open" /\ fate'[Top] = f
         /\ \A h \in Handle : h # Top => fate'[h] = fate[h]
         /\ \A h \in Handle : Outermost(h)' <=> Outermost(h)
         /\ \A w \in 1 .. Len(writes) : Discarded(w) => Discarded(w)'
         /\ \A w \in 1 .. Len(writes) : f = "rolledback" /\ Under(w, Top) => Discarded(w)'
         /\ OneMore(q) /\ q.op \notin {"WRITE", "START"}
         /\ UNCHANGED <<savepoint, writes, wrote, acked, tx, stack, pending, committed, lost>>
<1>0. TxType /\ NamesInv /\ SpType
  BY WholeParts
<1>1. /\ handles # <<>> /\ f \in {"committed", "rolledback"} /\ fate' = [fate EXCEPT ![Top] = f]
      /\ UNCHANGED <<savepoint, writes, wrote, acked, tx, stack, pending, committed, lost>>
  BY DEF Closed, Close, serverVars
<1>2. Top \in Handle /\ fate[Top] = "open"
  BY <1>0, <1>1, TopFacts
<1>3. fate'[Top] = f /\ \A h \in Handle : h # Top => fate'[h] = fate[h]
  BY <1>0, <1>1, <1>2 DEF TxType
<1>4. \A h \in Handle : Outermost(h)' <=> Outermost(h)
  BY <1>1, <1>2, <1>3 DEF Outermost
<1>5. \A w \in 1 .. Len(writes) : \A i \in 1 .. Len(writes[w]) : writes[w][i] \in Handle
  BY <1>0, MadeUnder, WholeParts
<1>6. ASSUME NEW w \in 1 .. Len(writes), Discarded(w) PROVE Discarded(w)'
  BY <1>1, <1>2, <1>3, <1>5, <1>6 DEF Discarded
<1>7. ASSUME NEW w \in 1 .. Len(writes), f = "rolledback", Under(w, Top) PROVE Discarded(w)'
  BY <1>1, <1>3, <1>7 DEF Discarded, Under
<1>8. OneMore(q)
  <2>1. queue' = queue \/ queue' = Append(queue, q)
    BY DEF Closed
  <2> QED BY <1>0, <2>1, AppendOneMore
<1>9. q.op \notin {"WRITE", "START"}
  BY DEF Closed
<1> QED BY <1>1, <1>2, <1>3, <1>4, <1>6, <1>7, <1>8, <1>9

\* Which handles stay open.
LEMMA CloseFront ==
  ASSUME TxInv, SpInv, WholeInv, NEW q \in Queries, NEW f, Closed(q, f)
  PROVE  \E l, m \in Nat :
           /\ l = Len(handles) /\ l = m + 1 /\ Len(handles') = m
           /\ \A i \in 1 .. m : handles'[i] = handles[i] /\ i \in 1 .. l
           /\ Top = handles[l] /\ savepoint[Top] = NameOf(l)
           /\ savepoint[Top] = NoName <=> l = 1
           /\ handles' = <<>> <=> m = 0
<1>0. TxType /\ NamesInv
  BY WholeParts
<1>1. handles # <<>> /\ handles' = SubSeq(handles, 1, Len(handles) - 1)
  BY DEF Closed, Close
<1>2. Len(handles) \in 1 .. Len(handles) /\ (savepoint[Top] = NoName <=> Len(handles) = 1)
  BY <1>0, <1>1, TopFacts
<1>3. Len(handles) \in Nat
  BY <1>0, QueueFacts
<1>4. handles \in Seq(Handle) /\ Len(handles) >= 1 /\ Len(handles) - 1 \in Nat
  BY <1>0, <1>2, <1>3 DEF TxType
<1>5. /\ Len(handles') = Len(handles) - 1 /\ handles' \in Seq(Handle)
      /\ \A i \in 1 .. Len(handles) - 1 : handles'[i] = handles[i] /\ i \in 1 .. Len(handles)
  BY <1>1, <1>4, FrontType
<1>6. PICK m \in Nat : m = Len(handles) - 1 /\ Len(handles) = m + 1
  BY <1>3, <1>4
<1>7. handles' = <<>> <=> m = 0
  BY <1>5, <1>6
<1> QED BY <1>2, <1>3, <1>5, <1>6, <1>7 DEF Top, NameOf

\* What is known of the writes that succeeded, when a handle is closed.
LEMMA CloseKept ==
  ASSUME TxInv, SpInv, WholeInv, NEW q \in Queries, NEW f, Closed(q, f)
  PROVE  WholeType' /\ KeptInv' /\ AbortInv' /\ TogetherInv' /\ AckInv'
<1>0. /\ TxType /\ SpType /\ WholeType
      /\ KeptInv /\ AbortInv /\ TogetherInv /\ AckInv
  BY WholeParts
<1>1. /\ fate[Top] = "open"
      /\ \A h \in Handle : h # Top => fate'[h] = fate[h]
      /\ \A h \in Handle : Outermost(h)' <=> Outermost(h)
      /\ \A w \in 1 .. Len(writes) : Discarded(w) => Discarded(w)'
      /\ OneMore(q) /\ q.op \notin {"WRITE", "START"}
      /\ UNCHANGED <<savepoint, writes, wrote, acked, tx, stack, pending, committed, lost>>
  BY CloseBooks
<1>2. \A h \in Handle : Latest(h)' <=> Latest(h)
  BY <1>1, SameLatest
<1>3. \A w \in 1 .. Len(writes) : writes[w][1] \in Handle
  BY <1>0, MadeUnder
<1>4. call = "none" /\ call' \notin {"write", "start"} /\ answer' # "ok" /\ handles # <<>>
  BY DEF Closed
<1>5. (\A w : Told(w)' => Told(w)) /\ (\A w : Failed(w) => Failed(w)')
  BY <1>1, <1>4 DEF Told, Failed
<1>6. Live' => Live
  BY <1>1, <1>4 DEF Live
<1>7. WholeType'
  BY <1>0, <1>1 DEF WholeType, OneMore
<1>8. KeptInv'
  BY <1>0, <1>1, <1>2, <1>3, <1>5, <1>6 DEF KeptInv
<1>9. AbortInv'
  BY <1>0, <1>1, <1>2, <1>3, <1>5, <1>6 DEF AbortInv
<1>10. TogetherInv'
  BY <1>0, <1>1, <1>5 DEF TogetherInv
<1>11. ASSUME NEW h \in acked PROVE Outermost(h)' /\ fate'[h] = "committed" /\ Whole(h)'
  <2>1. Outermost(h) /\ fate[h] = "committed" /\ Whole(h) /\ h \in Handle
    BY <1>0, <1>11 DEF AckInv, WholeType
  <2>2. Outermost(h)' /\ fate'[h] = "committed"
    BY <1>1, <2>1
  <2>3. Whole(h)'
    BY <1>1, <2>1 DEF Whole
  <2> QED BY <2>2, <2>3
<1>12. AckInv'
  BY <1>1, <1>4, <1>11 DEF AckInv
<1> QED BY <1>7, <1>8, <1>9, <1>10, <1>12

\* What is known of the handles, when one is closed.
LEMMA CloseRoot ==
  ASSUME TxInv, SpInv, WholeInv, TxType', NEW q \in Queries, NEW f, Closed(q, f)
  PROVE  RootInv' /\ CallInv' /\ CommitInv'
<1>0. /\ TxType /\ NamesInv /\ PlaceInv /\ SpType /\ WritesInv /\ WholeType /\ RootInv /\ CommitInv
  BY WholeParts DEF TxInv
<1>1. /\ fate'[Top] = f
      /\ \A h \in Handle : Outermost(h)' <=> Outermost(h)
      /\ OneMore(q) /\ q.op \notin {"WRITE", "START"}
      /\ UNCHANGED <<savepoint, writes, wrote, acked, tx, stack, pending, committed, lost>>
  BY CloseBooks
<1>2. \A h \in Handle : Latest(h)' <=> Latest(h)
  BY <1>1, SameLatest
<1>3. PICK l, m \in Nat :
        /\ l = Len(handles) /\ l = m + 1 /\ Len(handles') = m
        /\ \A i \in 1 .. m : handles'[i] = handles[i] /\ i \in 1 .. l
        /\ Top = handles[l]
        /\ savepoint[Top] = NoName <=> l = 1
        /\ handles' = <<>> <=> m = 0
  BY CloseFront
<1>4. PICK r \in Handle : r = handles[1] /\ Latest(r) /\ handles # <<>>
  <2>1. handles # <<>>
    BY DEF Closed
  <2> QED BY <1>0, <2>1, FirstOpen DEF RootInv
<1>5. /\ \A w \in 1 .. Len(writes) : writes[w][1] \in Handle
      /\ \A p \in 1 .. Len(pending) : writes[pending[p]][1] \in Handle
      /\ \A i \in 1 .. Len(queue) : queue[i].op = "WRITE" => writes[queue[i].name][1] \in Handle
  BY <1>0, MadeUnder, WithServer
<1>6. RootInv'
  <2>1. handles' # <<>> => Latest(handles[1])'
    <3> SUFFICES ASSUME handles' # <<>> PROVE Latest(handles[1])'
      OBVIOUS
    <3>1. 1 \in 1 .. m
      BY <1>3
    <3>2. handles'[1] = r /\ Latest(r)'
      BY <1>2, <1>3, <1>4, <3>1
    <3> QED BY <3>2
  <2>2. \A w \in 1 .. Len(writes) : Outermost(writes[w][1])'
    BY <1>0, <1>1, <1>5 DEF RootInv
  <2>3. \A p \in 1 .. Len(pending) : Latest(writes[pending[p]][1])'
    BY <1>0, <1>1, <1>2, <1>5 DEF RootInv
  <2>4. \A i \in 1 .. Len(queue') : queue'[i].op = "WRITE" => Latest(writes[queue[i].name][1])'
    BY <1>0, <1>1, <1>2, <1>5 DEF RootInv, OneMore
  <2>5. \A i, j \in 1 .. Len(queue') :
          i < j /\ queue'[i].op = "WRITE" /\ queue'[j].op = "WRITE" => queue'[i].name < queue'[j].name
    BY <1>0, <1>1 DEF RootInv, OneMore
  <2> QED BY <1>1, <2>1, <2>2, <2>3, <2>4, <2>5 DEF RootInv
<1>7. CallInv'
  <2>1. call' \in {"none", "commit", "rollback"} /\ answer' # "ok" /\ (call' = "commit" => f = "committed")
    BY DEF Closed
  <2>2. \E h \in Handle : Latest(h)'
    BY <1>2, <1>4
  <2>3. ASSUME call' = "commit", handles' = <<>>
        PROVE  /\ answer' = "none" => queue'[Len(queue')].op = "COMMIT"
               /\ \A h \in Handle : Latest(h)' => fate'[h] = "committed"
    <3>1. m = 0 /\ l = 1
      BY <1>3, <2>3
    <3>2. q.op = "COMMIT"
      BY <1>3, <2>1, <2>3, <3>1 DEF Closed
    <3>3. answer' = "none" => queue'[Len(queue')].op = "COMMIT"
      <4> SUFFICES ASSUME answer' = "none" PROVE queue'[Len(queue')].op = "COMMIT"
        OBVIOUS
      <4>1. queue' = Append(queue, q)
        BY <2>3 DEF Closed
      <4>2. queue'[Len(queue')] = q
        BY <1>0, <4>1, Appended
      <4> QED BY <3>2, <4>2
    <3>4. r = Top
      BY <1>3, <1>4, <3>1
    <3>5. ASSUME NEW h \in Handle, Latest(h)' PROVE fate'[h] = "committed"
      <4>1. h = r
        BY <1>2, <1>4, <3>5, LatestIs
      <4> QED BY <1>1, <2>1, <2>3, <3>4, <4>1
    <3> QED BY <3>3, <3>5
  <2> QED BY <2>1, <2>2, <2>3 DEF CallInv
<1>8. CommitInv'
  <2> SUFFICES ASSUME NEW c \in 1 .. Len(queue'), queue'[c].op = "COMMIT" PROVE tx # "idle"
    BY <1>1 DEF CommitInv
  <2>1. CASE c \in 1 .. Len(queue) /\ queue'[c] = queue[c]
    BY <1>0, <2>1 DEF CommitInv
  <2>2. CASE c = Len(queue) + 1
    <3>1. ~lost
      <4>1. Len(queue) \in Nat
        BY <1>0, QueueFacts
      <4>2. queue' # queue
        BY <2>2, <4>1
      <4> QED BY <4>2 DEF Closed
    <3> QED BY <1>0, <1>4, <3>1 DEF PlaceInv, Inside
  <2> QED BY <1>1, <2>1, <2>2 DEF OneMore
<1> QED BY <1>6, <1>7, <1>8

\* Going back to the savepoint of a handle discards what was written under it.
LEMMA CloseUntouched ==
  ASSUME TxInv, SpInv, WholeInv, TxType', NEW q \in Queries, NEW f, Closed(q, f)
  PROVE  UntouchedInv'
<1>0. TxType /\ WritesInv /\ UntouchedInv
  BY WholeParts
<1>1. /\ \A w \in 1 .. Len(writes) : Discarded(w) => Discarded(w)'
      /\ \A w \in 1 .. Len(writes) : f = "rolledback" /\ Under(w, Top) => Discarded(w)'
      /\ OneMore(q) /\ q.op # "WRITE"
      /\ UNCHANGED <<savepoint, writes, stack, pending>>
  BY CloseBooks
<1>2. PICK l, m \in Nat :
        /\ l = Len(handles) /\ l = m + 1 /\ Len(handles') = m
        /\ \A i \in 1 .. m : handles'[i] = handles[i] /\ i \in 1 .. l
        /\ Top = handles[l] /\ savepoint[Top] = NameOf(l)
        /\ savepoint[Top] = NoName <=> l = 1
  BY CloseFront
<1>3. /\ \A j \in 2 .. m : j \in 2 .. l /\ j \in 1 .. m
      /\ l # 1 => l \in 2 .. l
      /\ l \in 1 .. l
  BY <1>2, FrontRange
<1>4. /\ \A p \in 1 .. Len(pending) : pending[p] \in 1 .. Len(writes)
      /\ \A i \in 1 .. Len(queue) : queue[i].op = "WRITE" => queue[i].name \in 1 .. Len(writes)
  BY <1>0 DEF WritesInv
<1>5. /\ \A p \in 1 .. Len(pending) : \A j \in 2 .. l :
           Since(stack, NameOf(j), p) => Under(pending[p], handles[j])
      /\ \A i \in 1 .. Len(queue) : queue[i].op = "WRITE" =>
           \A j \in 1 .. l : Under(queue[i].name, handles[j])
  BY <1>0, <1>2 DEF UntouchedInv
<1>6. ASSUME NEW p \in 1 .. Len(pending), NEW j \in 2 .. m, Since(stack, NameOf(j)', p)
      PROVE  Under(pending[p], handles[j])'
  <2>1. j \in 2 .. l /\ j \in 1 .. m
    BY <1>3
  <2>2. NameOf(j)' = NameOf(j) /\ handles'[j] = handles[j]
    BY <1>1, <1>2, <2>1 DEF NameOf
  <2>3. Under(pending[p], handles[j])
    BY <1>5, <1>6, <2>1, <2>2
  <2> QED BY <1>1, <2>2, <2>3 DEF Under
<1>7. ASSUME NEW i \in 1 .. Len(queue'), queue'[i].op = "WRITE", NEW j \in 1 .. m
      PROVE  Under(queue[i].name, handles[j])'
  <2>1. i \in 1 .. Len(queue) /\ queue'[i] = queue[i]
    BY <1>1, <1>7 DEF OneMore
  <2>2. handles'[j] = handles[j] /\ j \in 1 .. l
    BY <1>2
  <2>3. Under(queue[i].name, handles[j])
    BY <1>5, <1>7, <2>1, <2>2
  <2> QED BY <1>1, <2>1, <2>2, <2>3 DEF Under
<1>8. ASSUME NEW c \in 1 .. Len(queue'), queue'[c].op = "ROLLBACK TO"
      PROVE  /\ \A p \in 1 .. Len(pending) : Since(stack, queue'[c].name, p) => Discarded(pending[p])'
             /\ \A i \in 1 .. c - 1 : queue'[i].op = "WRITE" => Discarded(queue[i].name)'
  <2>1. CASE c \in 1 .. Len(queue) /\ queue'[c] = queue[c]
    <3>1. /\ \A p \in 1 .. Len(pending) : Since(stack, queue[c].name, p) => Discarded(pending[p])
          /\ \A i \in 1 .. c - 1 : queue[i].op = "WRITE" => Discarded(queue[i].name)
      BY <1>0, <1>8, <2>1 DEF UntouchedInv
    <3>2. ASSUME NEW p \in 1 .. Len(pending), Since(stack, queue'[c].name, p) PROVE Discarded(pending[p])'
      <4>1. PICK w \in 1 .. Len(writes) : w = pending[p] /\ Discarded(w)
        BY <1>4, <2>1, <3>1, <3>2
      <4>2. Discarded(w)'
        BY <1>1, <4>1
      <4> QED BY <1>1, <4>1, <4>2
    <3>3. ASSUME NEW i \in 1 .. c - 1, queue'[i].op = "WRITE" PROVE Discarded(queue[i].name)'
      <4>1. i \in 1 .. Len(queue')
        BY <1>0, NextLen, EarlierIn
      <4>2. i \in 1 .. Len(queue) /\ queue'[i] = queue[i]
        BY <1>1, <3>3, <4>1 DEF OneMore
      <4>3. PICK w \in 1 .. Len(writes) : w = queue'[i].name /\ Discarded(w)
        BY <1>4, <3>1, <3>3, <4>2
      <4>4. Discarded(w)'
        BY <1>1, <4>3
      <4> QED BY <4>3, <4>4
    <3> QED BY <3>2, <3>3
  <2>2. CASE queue'[c] = q
    <3>1. f = "rolledback" /\ l # 1 /\ q.name = NameOf(l)
      BY <1>2, <1>8, <2>2 DEF Closed
    <3>2. l \in 2 .. l /\ l \in 1 .. l /\ handles[l] = Top
      BY <1>2, <1>3, <3>1
    <3>3. ASSUME NEW p \in 1 .. Len(pending), Since(stack, queue'[c].name, p) PROVE Discarded(pending[p])'
      <4>1. Under(pending[p], Top)
        BY <1>5, <2>2, <3>1, <3>2, <3>3
      <4>2. PICK w \in 1 .. Len(writes) : w = pending[p]
        BY <1>4
      <4>3. Discarded(w)'
        BY <1>1, <3>1, <4>1, <4>2
      <4> QED BY <1>1, <4>2, <4>3
    <3>4. ASSUME NEW i \in 1 .. c - 1, queue'[i].op = "WRITE" PROVE Discarded(queue[i].name)'
      <4>1. i \in 1 .. Len(queue')
        BY <1>0, NextLen, EarlierIn
      <4>2. i \in 1 .. Len(queue) /\ queue'[i] = queue[i]
        BY <1>1, <3>4, <4>1 DEF OneMore
      <4>3. PICK w \in 1 .. Len(writes) : w = queue'[i].name
        BY <1>4, <3>4, <4>2
      <4>4. Under(w, Top)
        BY <1>5, <3>2, <3>4, <4>2, <4>3
      <4>5. Discarded(w)'
        BY <1>1, <3>1, <4>4
      <4> QED BY <4>3, <4>5
    <3> QED BY <3>3, <3>4
  <2> QED BY <1>1, <2>1, <2>2 DEF OneMore
<1>9. UNCHANGED <<stack, pending>> /\ Len(handles') = m
  BY <1>1, <1>2
<1>10. \A p \in 1 .. Len(pending') : \A j \in 2 .. Len(handles') :
         Since(stack', NameOf(j)', p) => Under(pending[p], handles[j])'
  BY <1>6, <1>9
<1>11. \A i \in 1 .. Len(queue') : queue'[i].op = "WRITE" =>
         \A j \in 1 .. Len(handles') : Under(queue[i].name, handles[j])'
  BY <1>7, <1>9
<1>12. \A c \in 1 .. Len(queue') : queue'[c].op = "ROLLBACK TO" =>
         /\ \A p \in 1 .. Len(pending') : Since(stack', queue'[c].name, p) => Discarded(pending[p])'
         /\ \A i \in 1 .. c - 1 : queue'[i].op = "WRITE" => Discarded(queue[i].name)'
  BY <1>8, <1>9
<1> QED BY <1>10, <1>11, <1>12 DEF UntouchedInv

\* The innermost handle is closed.
LEMMA WholeClosed ==
  ASSUME TxInv, SpInv, WholeInv, TxInv', NEW q \in Queries, NEW f, Closed(q, f)
  PROVE  WholeInv'
<1>1. TxType'
  BY DEF TxInv
<1>2. WholeType' /\ KeptInv' /\ AbortInv' /\ TogetherInv' /\ AckInv'
  BY CloseKept
<1>3. RootInv' /\ CallInv' /\ CommitInv'
  BY <1>1, CloseRoot
<1>4. UntouchedInv'
  BY <1>1, CloseUntouched
<1> QED BY <1>2, <1>3, <1>4 DEF WholeInv

\* commit.
LEMMA WholeCommit == ASSUME TxInv, SpInv, WholeInv, TxInv', Commit PROVE WholeInv'
<1>0. TxType /\ NamesInv /\ AnswerInv
  BY DEF TxInv
<1>1. handles # <<>> /\ Await("commit", CommitQuery) /\ Close("committed")
  BY DEF Commit
<1>2. CommitQuery \in Queries
  <2>1. savepoint[Top] \in Int
    BY <1>0, <1>1, TopFacts DEF TxType
  <2> QED BY <2>1 DEF CommitQuery, Queries, Ops, Q, NoName
<1>3. /\ call = "none" /\ call' = "commit" /\ answer' # "ok"
      /\ \/ lost /\ queue' = queue /\ answer' = "err"
         \/ ~lost /\ queue' = Append(queue, CommitQuery)
  BY <1>0, <1>1, <1>2, AwaitFacts DEF Calls
<1>4. IF savepoint[Top] = NoName THEN CommitQuery.op = "COMMIT"
                                 ELSE CommitQuery.op = "RELEASE" /\ CommitQuery.name = savepoint[Top]
  BY DEF CommitQuery, Q
<1>5. Closed(CommitQuery, "committed")
  BY <1>1, <1>3, <1>4 DEF Closed
<1> QED BY <1>2, <1>5, WholeClosed

\* What a rollback sends.
LEMMA RollbackSends ==
  IF savepoint[Top] = NoName THEN RollbackQuery.op = "ROLLBACK"
                             ELSE RollbackQuery.op = "ROLLBACK TO" /\ RollbackQuery.name = savepoint[Top]
BY DEF RollbackQuery, Q

\* rollback.
LEMMA WholeRollback == ASSUME TxInv, SpInv, WholeInv, TxInv', Rollback PROVE WholeInv'
<1>0. TxType /\ NamesInv /\ AnswerInv
  BY DEF TxInv
<1>1. handles # <<>> /\ Await("rollback", RollbackQuery) /\ Close("rolledback")
  BY DEF Rollback
<1>2. RollbackQuery \in Queries
  BY <1>0, <1>1, RollbackQueryFacts
<1>3. /\ call = "none" /\ call' = "rollback" /\ answer' # "ok"
      /\ \/ lost /\ queue' = queue /\ answer' = "err"
         \/ ~lost /\ queue' = Append(queue, RollbackQuery)
  BY <1>0, <1>1, <1>2, AwaitFacts DEF Calls
<1>4. Closed(RollbackQuery, "rolledback")
  BY <1>1, <1>3, RollbackSends DEF Closed
<1> QED BY <1>2, <1>4, WholeClosed

\* Drop of a Transaction that is not done.
LEMMA WholeDropTransaction == ASSUME TxInv, SpInv, WholeInv, TxInv', DropTransaction PROVE WholeInv'
<1>0. TxType /\ NamesInv /\ AnswerInv
  BY DEF TxInv
<1>1. /\ handles # <<>> /\ call = "none" /\ Post(RollbackQuery) /\ Close("rolledback")
      /\ UNCHANGED <<call, answer>>
  BY DEF DropTransaction
<1>2. RollbackQuery \in Queries
  BY <1>0, <1>1, RollbackQueryFacts
<1>3. /\ answer' # "ok"
      /\ \/ lost /\ queue' = queue
         \/ ~lost /\ queue' = Append(queue, RollbackQuery)
  BY <1>0, <1>1, <1>2, PostFacts DEF AnswerInv
<1>4. Closed(RollbackQuery, "rolledback")
  BY <1>1, <1>3, RollbackSends DEF Closed
<1> QED BY <1>2, <1>4, WholeClosed

-----------------------------------------------------------------------------
(***************************************************************************)
(* The server executes a query.                                            *)
(***************************************************************************)

\* What comes after a push was there before it.
LEMMA PushBack ==
  ASSUME NEW s \in Stacks, NEW r \in [name : Int, mark : Nat], NEW t, t = Append(s, r),
         NEW n, n # r.name, NEW p, Since(t, n, p)
  PROVE  Since(s, n, p)
<1>1. /\ Len(t) = Len(s) + 1 /\ Len(s) \in Nat /\ t[Len(s) + 1] = r
      /\ \A i \in 1 .. Len(s) : t[i] = s[i]
  BY PushKeeps
<1>2. /\ \A i \in 1 .. Len(s) + 1 : i \in 1 .. Len(s) \/ i = Len(s) + 1
      /\ \A i \in 1 .. Len(s) : i \in 1 .. Len(s) + 1
  BY <1>1, LastOr
<1>3. PICK e \in 1 .. Len(t) : IsAt(t, n, e) /\ t[e].mark < p
  BY DEF Since
<1>4. t[e].name = n /\ \A j \in e + 1 .. Len(t) : t[j].name # n
  BY <1>3 DEF IsAt
<1>5. e \in 1 .. Len(s) /\ t[e] = s[e]
  BY <1>1, <1>2, <1>4
<1>6. \A j \in e + 1 .. Len(s) : j \in 1 .. Len(s) /\ j \in e + 1 .. Len(t)
  BY <1>1, <1>5
<1>7. \A j \in e + 1 .. Len(s) : s[j].name # n
  BY <1>1, <1>4, <1>6
<1>8. IsAt(s, n, e)
  BY <1>4, <1>5, <1>7 DEF IsAt
<1> QED BY <1>3, <1>5, <1>8 DEF Since

\* What is before the place of a cut and comes after it was there before it.
LEMMA CutBack ==
  ASSUME NEW s \in Stacks, NEW n, NEW e, IsAt(s, n, e), NEW k, k = e - 1 \/ k = e,
         NEW t, t = SubSeq(s, 1, k), NEW a, Before(s, a, n), NEW p, Since(t, a, p)
  PROVE  Since(s, a, p)
<1>1. PICK d, f \in 1 .. Len(s) : IsAt(s, a, d) /\ IsAt(s, n, f) /\ d < f
  BY DEF Before
<1>2. f = e
  BY <1>1, OnePlace
<1>3. Len(s) \in Nat /\ e \in 1 .. Len(s)
  BY <1>1, <1>2, StackType
<1>4. k \in 0 .. Len(s) /\ d <= k
  BY <1>1, <1>2, <1>3
<1>5. /\ t \in Stacks /\ \A i \in 1 .. k : t[i] = s[i]
      /\ \A m, g : IsAt(s, m, g) /\ g <= k => IsAt(t, m, g)
  BY <1>4, CutKeeps
<1>6. IsAt(t, a, d)
  BY <1>1, <1>4, <1>5
<1>7. PICK g \in 1 .. Len(t) : IsAt(t, a, g) /\ t[g].mark < p
  BY DEF Since
<1>8. g = d
  BY <1>5, <1>6, <1>7, OnePlace
<1>9. d \in 1 .. k
  BY <1>1, <1>3, <1>4
<1>10. s[d].mark < p
  BY <1>5, <1>7, <1>8, <1>9
<1> QED BY <1>1, <1>10 DEF Since

\* What comes after the place of a cut is since it.
LEMMA PastCut ==
  ASSUME SpType, NEW n, NEW e \in 1 .. Len(stack), IsAt(stack, n, e), NEW p \in 1 .. Len(pending),
         ~Since(stack, n, p)
  PROVE  p \in 1 .. stack[e].mark
<1>1. ~(stack[e].mark < p)
  BY DEF Since
<1>2. stack[e].mark \in Nat /\ Len(pending) \in Nat
  BY StackType DEF SpType
<1> QED BY <1>1, <1>2

\* What is since a savepoint after a step was so before it.
LEMMA SinceBack ==
  ASSUME TxInv, SpInv, Exec, ~Ended,
         NEW n, First.op \in Closers => Before(stack, n, First.name),
         First.op = "SAVEPOINT" => n # First.name,
         NEW p, Since(stack', n, p)
  PROVE  Since(stack, n, p)
<1>0. TxType /\ AnswerInv /\ SpType
  BY DEF TxInv, SpInv
<1>1. stack \in Stacks
  BY <1>0 DEF SpType
<1>2. CASE Pushed
  <2>1. PICK r \in [name : Int, mark : Nat] : r.name = First.name /\ stack' = Append(stack, r)
    <3>1. Len(pending) \in Nat /\ First.name \in Int
      BY <1>0, ExecShift DEF SpType, Queries
    <3> QED BY <1>2, <3>1 DEF Pushed
  <2>2. First.op = "SAVEPOINT"
    BY <1>2 DEF Pushed
  <2>3. PICK s, t : s \in Stacks /\ s = stack /\ t = stack' /\ t = Append(s, r)
    BY <1>1, <2>1
  <2>4. Since(s, n, p)
    BY <2>1, <2>2, <2>3, PushBack
  <2> QED BY <2>3, <2>4
<1>3. CASE Released \/ GoneBack
  <2>0. PICK e \in 1 .. Len(stack) :
          /\ IsAt(stack, First.name, e)
          /\ stack' = SubSeq(stack, 1, e - 1) \/ stack' = SubSeq(stack, 1, e)
    BY <1>3 DEF Released, GoneBack
  <2>1. PICK k : (k = e - 1 \/ k = e) /\ stack' = SubSeq(stack, 1, k)
    BY <2>0
  <2>2. Before(stack, n, First.name)
    BY <1>3 DEF Released, GoneBack, Closers
  <2>3. PICK s, t, m : s \in Stacks /\ s = stack /\ t = stack' /\ t = SubSeq(s, 1, k) /\ m = First.name
    BY <1>1, <2>1
  <2>4. IsAt(s, m, e) /\ Before(s, n, m) /\ Since(t, n, p)
    BY <2>0, <2>2, <2>3
  <2>5. Since(s, n, p)
    BY <2>1, <2>3, <2>4, CutBack
  <2> QED BY <2>3, <2>5
<1>4. CASE stack' = stack
  BY <1>4
<1> QED BY <1>2, <1>3, <1>4, ExecCases DEF Refused, Written

\* What a query is answered.
LEMMA ExecAnswer ==
  ASSUME TxInv, SpInv, Exec
  PROVE  /\ call # "none" /\ Len(queue) = 1 => answer' # "none"
         /\ First.op = "START" /\ answer' = "ok" => tx' = "open"
         /\ First.op = "WRITE" /\ answer' = "ok" => Written
         /\ First.op = "WRITE" /\ tx = "open" /\ tx' = "aborted" /\ call # "none" /\ Len(queue) = 1 =>
              answer' = "err"
         /\ tx' = "aborted" => tx = "aborted" \/ First.op \in {"START", "WRITE"}
         /\ First.op = "COMMIT" /\ answer' = "ok" /\ tx = "open" =>
              committed' = committed \cup Elements(pending)
<1>0. TxType /\ PlaceInv /\ AnswerInv /\ SpType /\ WritesInv /\ ChainInv /\ queue # <<>>
  BY DEF TxInv, SpInv, Exec
<1>1. PICK q \in Queries : q = First /\ q = Head(queue) /\ 1 \in 1 .. Len(queue)
  BY <1>0 DEF TxType, First
<1>2. tx \in {"idle", "open", "aborted"} /\ answer = "none"
  BY <1>0 DEF TxType, AnswerInv
<1>3. \E res \in {"ok", "err"} : Reply(res)
  BY DEF Exec, ExecStart, ExecCommit, EndTx, ExecSavepoint, ExecRelease, ExecRollbackTo, ExecWrite, Fail
<1>4. call # "none" /\ Len(queue) = 1 => answer' # "none"
  BY <1>3 DEF Reply
<1>5. Fail => answer' # "ok"
  BY <1>2 DEF Fail, Reply
<1>6. ASSUME First.op = "START", answer' = "ok" PROVE tx' = "open"
  BY <1>1, <1>5, <1>6 DEF Exec, ExecStart
<1>7. CASE First.op = "WRITE"
  <2>1. tx # "idle"
    BY <1>0, <1>1, <1>7 DEF PlaceInv, Inside, First
  <2>2. ExecWrite(First.name)
    BY <1>1, <1>7 DEF Exec
  <2>3. ASSUME ~Fail PROVE Written /\ tx' = tx
    BY <1>7, <2>1, <2>2, <2>3 DEF ExecWrite, Written
  <2>4. Fail => (call # "none" /\ Len(queue) = 1 => answer' = "err")
    BY DEF Fail, Reply
  <2>5. answer' = "ok" => Written
    BY <1>5, <2>3
  <2>6. tx = "open" /\ tx' = "aborted" /\ call # "none" /\ Len(queue) = 1 => answer' = "err"
    BY <2>3, <2>4
  <2> QED BY <1>4, <1>7, <2>5, <2>6
<1>8. CASE First.op \in Closers
  <2>1. PICK e \in 1 .. Len(stack) : IsAt(stack, First.name, e)
    BY <1>0, <1>1, <1>8 DEF ChainInv, Known, First
  <2>2. Find(First.name) # 0 /\ Len(stack) \in Nat
    BY <1>0, <2>1, FindIs
  <2>3. tx # "idle"
    <3>1. stack # <<>>
      BY <2>1, <2>2
    <3> QED BY <1>0, <3>1 DEF WritesInv
  <2>4. CASE First.op = "RELEASE"
    <3>1. ExecRelease(First.name)
      BY <1>1, <2>4 DEF Exec
    <3>2. tx = "open" => tx' = "open"
      BY <2>2, <3>1 DEF ExecRelease
    <3> QED BY <1>2, <1>4, <2>3, <2>4, <3>2
  <2>5. CASE First.op = "ROLLBACK TO"
    <3>1. ExecRollbackTo(First.name)
      BY <1>1, <2>5 DEF Exec
    <3>2. tx' = "open"
      BY <2>2, <2>3, <3>1 DEF ExecRollbackTo
    <3> QED BY <1>4, <2>5, <3>2
  <2> QED BY <1>8, <2>4, <2>5 DEF Closers
<1>9. CASE First.op \in {"START", "COMMIT", "ROLLBACK", "SAVEPOINT"}
  <2>1. CASE First.op = "START"
    BY <1>4, <1>6, <2>1
  <2>2. CASE First.op = "COMMIT"
    <3>1. ExecCommit
      BY <1>1, <2>2 DEF Exec
    <3>2. tx' = "idle"
      BY <3>1 DEF ExecCommit, EndTx
    <3>3. ASSUME tx = "open", answer' = "ok" PROVE committed' = committed \cup Elements(pending)
      <4>1. EndTx("ok", Elements(pending)) \/ EndTx("err", {})
        BY <3>1, <3>3 DEF ExecCommit
      <4>2. ~EndTx("err", {})
        BY <1>2, <3>3 DEF EndTx, Reply
      <4> QED BY <4>1, <4>2 DEF EndTx
    <3> QED BY <1>4, <2>2, <3>2, <3>3
  <2>3. CASE First.op = "ROLLBACK"
    <3>1. EndTx("ok", {})
      BY <1>1, <2>3 DEF Exec
    <3>2. tx' = "idle"
      BY <3>1 DEF EndTx
    <3> QED BY <1>4, <2>3, <3>2
  <2>4. CASE First.op = "SAVEPOINT"
    <3>1. ExecSavepoint(First.name)
      BY <1>1, <2>4 DEF Exec
    <3>2. tx' = "aborted" => tx = "aborted"
      BY <1>2, <3>1 DEF ExecSavepoint, Fail
    <3> QED BY <1>4, <2>4, <3>2
  <2> QED BY <1>9, <2>1, <2>2, <2>3, <2>4
<1> QED BY <1>1, <1>7, <1>8, <1>9 DEF Exec, Closers, Queries, Ops

\* A query that is executed changes nothing of the handles.
LEMMA ExecBooks ==
  ASSUME Exec
  PROVE  /\ UNCHANGED <<handles, savepoint, fate, writes, wrote, call, acked, lost>>
         /\ \A h : (Outermost(h)' <=> Outermost(h)) /\ (Latest(h)' <=> Latest(h))
         /\ \A w : Discarded(w)' <=> Discarded(w)
         /\ \A w, h : Under(w, h)' <=> Under(w, h)
         /\ \A j : NameOf(j)' = NameOf(j)
<1>1. UNCHANGED <<handles, savepoint, fate, writes, wrote, call, acked, lost>>
  BY DEF Exec
<1>2. \A h : (Outermost(h)' <=> Outermost(h)) /\ (Latest(h)' <=> Latest(h))
  BY <1>1 DEF Outermost, Latest
<1>3. \A j : NameOf(j)' = NameOf(j)
  BY <1>1 DEF NameOf
<1> QED BY <1>1, <1>2, <1>3, SameBooks

\* The transaction can only be committed if it was not ended.
LEMMA ExecLive ==
  ASSUME TxInv, SpInv, Exec, Live'
  PROVE  ~Ended /\ First.op # "START" /\ Live
<1>0. TxType /\ AnswerInv /\ OrderInv
  BY DEF TxInv, SpInv
<1>1. /\ handles' = handles /\ ~lost /\ First = queue[1] /\ 1 \in 1 .. Len(queue)
      /\ \A i \in 1 .. Len(queue') : queue'[i] = queue[i + 1] /\ i + 1 \in 1 .. Len(queue)
  BY <1>0, ExecShift DEF First
<1>2. handles # <<>> \/ \E c \in 1 .. Len(queue') : queue'[c].op = "COMMIT"
  BY <1>1 DEF Live
<1>3. ~Ended
  BY <1>2, EndedFacts
<1>4. ASSUME First.op = "START" PROVE FALSE
  <2>1. handles = <<>>
    BY <1>0, <1>1, <1>4 DEF OrderInv
  <2>2. PICK c \in 1 .. Len(queue') : queue'[c].op = "COMMIT"
    BY <1>2, <2>1
  <2>3. queue[c + 1].op = "COMMIT" /\ c + 1 \in 1 .. Len(queue) /\ 1 < c + 1
    BY <1>1, <2>2
  <2> QED BY <1>0, <1>1, <1>4, <2>3 DEF OrderInv
<1>5. Live
  BY <1>1, <1>2 DEF Live
<1> QED BY <1>3, <1>4, <1>5

\* What the transaction holds was there, or is new.
LEMMA ExecPending ==
  ASSUME TxInv, SpInv, Exec, NEW p \in 1 .. Len(pending')
  PROVE  /\ ~Ended
         /\ \/ p \in 1 .. Len(pending) /\ pending'[p] = pending[p]
            \/ Written /\ pending'[p] = First.name
<1>0. SpType /\ MarkInv /\ TxType /\ AnswerInv
  BY DEF SpInv, TxInv
<1>1. ~Ended
  <2>1. CASE Ended
    <3>1. Len(pending') = 0
      BY <2>1 DEF Ended
    <3> QED BY <3>1
  <2> QED BY <2>1
<1>2. CASE pending' = pending
  BY <1>1, <1>2
<1>3. CASE GoneBack
  <2>1. PICK e \in 1 .. Len(stack) : pending' = SubSeq(pending, 1, stack[e].mark)
    BY <1>3 DEF GoneBack
  <2>2. stack[e].mark \in 0 .. Len(pending)
    <3>1. stack[e].mark \in Nat /\ Len(pending) \in Nat /\ stack[e].mark <= Len(pending)
      BY <1>0, StackType DEF SpType, MarkInv
    <3> QED BY <3>1
  <2>3. /\ Len(pending') = stack[e].mark /\ \A i \in 1 .. stack[e].mark : pending'[i] = pending[i] /\ i \in 1 .. Len(pending)
    BY <1>0, <2>1, <2>2, CutType DEF SpType
  <2> QED BY <1>1, <2>3
<1>4. CASE Written
  <2>1. pending' = Append(pending, First.name) /\ pending \in Seq(Int) /\ First.name \in Int
    BY <1>0, <1>4, ExecShift DEF Written, SpType, Queries
  <2>2. /\ Len(pending') = Len(pending) + 1 /\ Len(pending) \in Nat /\ pending'[Len(pending) + 1] = First.name
        /\ \A i \in 1 .. Len(pending) : pending'[i] = pending[i]
    BY <2>1, AppendType
  <2>3. p \in 1 .. Len(pending) \/ p = Len(pending) + 1
    BY <2>2, LastOr
  <2> QED BY <1>1, <1>4, <2>2, <2>3
<1> QED BY <1>1, <1>2, <1>3, <1>4, ExecCases DEF Refused, Pushed, Released

\* What is known of the handles, when a query is executed.
LEMMA ExecRoot == ASSUME TxInv, SpInv, WholeInv, Exec PROVE WholeType' /\ RootInv' /\ CommitInv'
<1>0. TxType /\ AnswerInv /\ WritesInv /\ OrderInv /\ WholeType /\ RootInv /\ CommitInv
  BY WholeParts
<1>1. /\ Len(queue) \in Nat /\ Len(queue') \in Nat /\ First = queue[1] /\ 1 \in 1 .. Len(queue)
      /\ \A i \in 1 .. Len(queue') : queue'[i] = queue[i + 1] /\ i + 1 \in 1 .. Len(queue) /\ 1 < i + 1
      /\ \A i, j \in 1 .. Len(queue') : i < j => i + 1 < j + 1
  <2>1. /\ Len(queue) \in Nat /\ First = queue[1] /\ 1 \in 1 .. Len(queue) /\ Len(queue') = Len(queue) - 1
        /\ \A i \in 1 .. Len(queue') : queue'[i] = queue[i + 1] /\ i + 1 \in 1 .. Len(queue)
    BY <1>0, ExecShift DEF First
  <2>2. Len(queue') \in Nat
    BY <2>1
  <2> QED BY <2>1, <2>2
<1>2. /\ UNCHANGED <<handles, savepoint, fate, writes, wrote, call, acked, lost>>
      /\ \A h : (Outermost(h)' <=> Outermost(h)) /\ (Latest(h)' <=> Latest(h))
  BY ExecBooks
<1>3. WholeType'
  BY <1>0, <1>1, <1>2 DEF WholeType
<1>4. RootInv'
  <2>1. (handles # <<>> => Latest(handles[1])') /\ \A w \in 1 .. Len(writes) : Outermost(writes[w][1])'
    BY <1>0, <1>2 DEF RootInv
  <2>2. ASSUME NEW p \in 1 .. Len(pending') PROVE Latest(writes[pending[p]][1])'
    <3>1. Latest(writes[pending'[p]][1])
      <4>1. CASE p \in 1 .. Len(pending) /\ pending'[p] = pending[p]
        BY <1>0, <4>1 DEF RootInv
      <4>2. CASE Written /\ pending'[p] = First.name
        BY <1>0, <1>1, <4>2 DEF RootInv, Written
      <4> QED BY <4>1, <4>2, ExecPending
    <3> QED BY <1>2, <3>1
  <2>3. ASSUME NEW i \in 1 .. Len(queue'), queue'[i].op = "WRITE" PROVE Latest(writes[queue[i].name][1])'
    <3>1. Latest(writes[queue'[i].name][1])
      BY <1>0, <1>1, <2>3 DEF RootInv
    <3> QED BY <1>2, <3>1
  <2>4. ASSUME NEW i \in 1 .. Len(queue'), NEW j \in 1 .. Len(queue'), i < j,
               queue'[i].op = "WRITE", queue'[j].op = "WRITE"
        PROVE  queue'[i].name < queue'[j].name
    BY <1>0, <1>1, <2>4 DEF RootInv
  <2> QED BY <1>2, <2>1, <2>2, <2>3, <2>4 DEF RootInv
<1>5. CommitInv'
  <2> SUFFICES ASSUME NEW c \in 1 .. Len(queue'), queue'[c].op = "COMMIT" PROVE tx' # "idle"
    BY DEF CommitInv
  <2>1. queue[c + 1].op = "COMMIT" /\ c + 1 \in 1 .. Len(queue) /\ 1 < c + 1
    BY <1>1
  <2>2. tx # "idle"
    BY <1>0, <2>1 DEF CommitInv
  <2>3. First.op \notin Enders
    BY <1>0, <1>1, <2>1 DEF OrderInv
  <2> QED BY <2>2, <2>3, ExecFacts DEF First
<1> QED BY <1>3, <1>4, <1>5

\* Executing a query keeps what goes back to a savepoint what was written under
\* its handle.
LEMMA ExecUntouched == ASSUME TxInv, SpInv, WholeInv, Exec PROVE UntouchedInv'
<1>0. /\ TxType /\ AnswerInv /\ WritesInv /\ OrderInv /\ ChainInv /\ HideInv /\ UntouchedInv
  BY WholeParts DEF SpInv
<1>1. /\ Len(queue) \in Nat /\ First = queue[1] /\ 1 \in 1 .. Len(queue)
      /\ \A i \in 1 .. Len(queue') : queue'[i] = queue[i + 1] /\ i + 1 \in 1 .. Len(queue)
  BY <1>0, ExecShift DEF First
<1>2. /\ UNCHANGED <<handles, writes, fate>>
      /\ \A w : Discarded(w)' <=> Discarded(w)
      /\ \A w, h : Under(w, h)' <=> Under(w, h)
      /\ \A j : NameOf(j)' = NameOf(j)
  BY ExecBooks
<1>3. ASSUME NEW p \in 1 .. Len(pending'), NEW j \in 2 .. Len(handles), Since(stack', NameOf(j), p)
      PROVE  Under(pending'[p], handles[j])
  <2>1. ~Ended
    BY ExecPending
  <2>2. First.op \in Closers => Before(stack, NameOf(j), First.name)
    BY <1>0, <1>1 DEF ChainInv
  <2>3. First.op = "SAVEPOINT" => NameOf(j) # First.name
    BY <1>0, <1>1 DEF HideInv
  <2>4. Since(stack, NameOf(j), p)
    BY <1>3, <2>1, <2>2, <2>3, SinceBack
  <2>5. CASE p \in 1 .. Len(pending) /\ pending'[p] = pending[p]
    BY <1>0, <2>4, <2>5 DEF UntouchedInv
  <2>6. CASE Written /\ pending'[p] = First.name
    <3>1. Len(handles) \in Nat
      BY <1>0, QueueFacts
    <3>2. j \in 1 .. Len(handles)
      BY <3>1
    <3> QED BY <1>0, <1>1, <2>6, <3>2 DEF UntouchedInv, Written
  <2> QED BY <2>5, <2>6, ExecPending
<1>4. ASSUME NEW i \in 1 .. Len(queue'), queue'[i].op = "WRITE", NEW j \in 1 .. Len(handles)
      PROVE  Under(queue'[i].name, handles[j])
  BY <1>0, <1>1, <1>4 DEF UntouchedInv
<1>5. ASSUME NEW c \in 1 .. Len(queue'), queue'[c].op = "ROLLBACK TO",
             NEW p \in 1 .. Len(pending'), Since(stack', queue'[c].name, p)
      PROVE  Discarded(pending'[p])
  <2> DEFINE d == c + 1  n == queue[d].name
  <2>1. d \in 1 .. Len(queue) /\ queue'[c] = queue[d] /\ queue[d].op = "ROLLBACK TO" /\ d \in 1 + 1 .. Len(queue)
        /\ 1 \in 1 .. d - 1
    <3>1. d \in 1 .. Len(queue) /\ queue'[c] = queue[d] /\ queue[d].op = "ROLLBACK TO"
      BY <1>1, <1>5
    <3>2. PICK l \in Nat : l = Len(queue) /\ Len(queue') = l - 1
      BY <1>0, ExecShift
    <3>3. c \in 1 .. l - 1
      BY <3>2
    <3>4. d \in 1 + 1 .. l /\ 1 \in 1 .. d - 1
      BY <3>3
    <3> QED BY <3>1, <3>2, <3>4
  <2> HIDE DEF d
  <2>2. ~Ended
    BY ExecPending
  <2>3. First.op \in Closers => Before(stack, n, First.name)
    BY <1>0, <1>1, <2>1 DEF ChainInv, Closers
  <2>4. First.op = "SAVEPOINT" => n # First.name
    BY <1>0, <1>1, <2>1 DEF HideInv, Closers
  <2>5. Since(stack, n, p)
    <3>1. Since(stack', n, p)
      BY <1>5, <2>1
    <3> HIDE DEF n
    <3> QED BY <2>2, <2>3, <2>4, <3>1, SinceBack
  <2>6. CASE p \in 1 .. Len(pending) /\ pending'[p] = pending[p]
    BY <1>0, <2>1, <2>5, <2>6 DEF UntouchedInv
  <2>7. CASE Written /\ pending'[p] = First.name
    BY <1>0, <1>1, <2>1, <2>7 DEF UntouchedInv, Written
  <2> QED BY <2>6, <2>7, ExecPending
<1>6. ASSUME NEW c \in 1 .. Len(queue'), queue'[c].op = "ROLLBACK TO",
             NEW i \in 1 .. c - 1, queue'[i].op = "WRITE"
      PROVE  Discarded(queue'[i].name)
  <2>1. Len(queue') = Len(queue) - 1
    BY <1>0, ExecShift
  <2>2. i \in 1 .. Len(queue') /\ i + 1 \in 1 .. (c + 1) - 1
    BY <1>1, <2>1
  <2> QED BY <1>0, <1>1, <1>6, <2>2 DEF UntouchedInv
<1>7. \A p \in 1 .. Len(pending') : \A j \in 2 .. Len(handles') :
         Since(stack', NameOf(j)', p) => Under(pending[p], handles[j])'
  <2> SUFFICES ASSUME NEW p \in 1 .. Len(pending'), NEW j \in 2 .. Len(handles'), Since(stack', NameOf(j)', p)
               PROVE  Under(pending[p], handles[j])'
    OBVIOUS
  <2>1. Under(pending'[p], handles[j]) /\ handles' = handles
    BY <1>2, <1>3
  <2> QED BY <1>2, <2>1
<1>8. \A i \in 1 .. Len(queue') : queue'[i].op = "WRITE" =>
         \A j \in 1 .. Len(handles') : Under(queue[i].name, handles[j])'
  <2> SUFFICES ASSUME NEW i \in 1 .. Len(queue'), queue'[i].op = "WRITE", NEW j \in 1 .. Len(handles')
               PROVE  Under(queue[i].name, handles[j])'
    OBVIOUS
  <2>1. Under(queue'[i].name, handles[j]) /\ handles' = handles
    BY <1>2, <1>4
  <2> QED BY <1>2, <2>1
<1>9. \A c \in 1 .. Len(queue') : queue'[c].op = "ROLLBACK TO" =>
         /\ \A p \in 1 .. Len(pending') : Since(stack', queue'[c].name, p) => Discarded(pending[p])'
         /\ \A i \in 1 .. c - 1 : queue'[i].op = "WRITE" => Discarded(queue[i].name)'
  BY <1>2, <1>5, <1>6
<1> QED BY <1>7, <1>8, <1>9 DEF UntouchedInv

\* The write whose answer arrives is the one that was executed.
LEMMA ExecTold ==
  ASSUME TxInv, SpInv, WholeInv, Exec, NEW w, Told(w)', ~Told(w)
  PROVE  Written /\ First.name = w /\ call = "write" /\ w = Len(writes)
<1>0. TxType /\ AnswerInv /\ CallInv
  BY WholeParts
<1>1. wrote' = wrote /\ call' = call /\ writes' = writes /\ answer = "none"
  BY <1>0, ExecBooks, ExecShift
<1>2. call = "write" /\ answer' = "ok" /\ w = Len(writes)
  BY <1>1 DEF Told
<1>3. Len(queue) = 1 /\ First = queue[1]
  BY <1>0, <1>2, ExecShift DEF First
<1>4. First = Q("WRITE", w)
  BY <1>0, <1>1, <1>2, <1>3 DEF CallInv
<1>5. First.op = "WRITE" /\ First.name = w
  BY <1>4 DEF Q
<1> QED BY <1>2, <1>5, ExecAnswer

\* What a write that had failed has stays.
LEMMA ExecFailed ==
  ASSUME TxInv, Exec, NEW w, Failed(w)
  PROVE  Failed(w)'
<1>1. wrote' = wrote /\ call' = call /\ writes' = writes /\ answer = "none"
  BY ExecBooks, ExecShift DEF TxInv
<1> QED BY <1>1 DEF Failed

\* What succeeded and was not discarded is still in the transaction.
LEMMA ExecKept == ASSUME TxInv, SpInv, WholeInv, Exec PROVE KeptInv'
<1>0. TxType /\ AnswerInv /\ SpType /\ KeptInv /\ UntouchedInv
  BY WholeParts
<1>2. /\ UNCHANGED <<handles, writes, fate>>
      /\ \A h : Latest(h)' <=> Latest(h)
      /\ \A w : Discarded(w)' <=> Discarded(w)
  BY ExecBooks
<1>3. First = queue[1] /\ 1 \in 1 .. Len(queue) /\ First.name \in Int
  BY <1>0, ExecShift DEF First, Queries
<1>4. ASSUME Written
      PROVE  /\ \E p \in 1 .. Len(pending') : pending'[p] = First.name
             /\ \A p \in 1 .. Len(pending) : p \in 1 .. Len(pending') /\ pending'[p] = pending[p]
  <2>1. pending' = Append(pending, First.name) /\ pending \in Seq(Int)
    BY <1>0, <1>4 DEF Written, SpType
  <2>2. /\ Len(pending') = Len(pending) + 1 /\ Len(pending) \in Nat /\ pending'[Len(pending) + 1] = First.name
        /\ \A i \in 1 .. Len(pending) : pending'[i] = pending[i] /\ i \in 1 .. Len(pending) + 1
    BY <1>3, <2>1, AppendType
  <2>3. Len(pending) + 1 \in 1 .. Len(pending')
    BY <2>2
  <2> QED BY <2>2, <2>3
<1>5. ASSUME Live', NEW w \in 1 .. Len(writes), Latest(writes[w][1]), Told(w)', ~Discarded(w)
      PROVE  \E p \in 1 .. Len(pending') : pending'[p] = w
  <2>1. Live /\ ~Ended
    BY <1>5, ExecLive
  <2>2. CASE ~Told(w)
    <3>1. Written /\ First.name = w
      BY <1>5, <2>2, ExecTold
    <3> QED BY <1>4, <3>1
  <2>3. CASE Told(w)
    <3>1. PICK p \in 1 .. Len(pending) : pending[p] = w
      BY <1>0, <1>5, <2>1, <2>3 DEF KeptInv
    <3>2. CASE pending' = pending
      BY <3>1, <3>2
    <3>3. CASE Written
      BY <1>4, <3>1, <3>3
    <3>4. CASE GoneBack
      <4>1. PICK e \in 1 .. Len(stack) :
              IsAt(stack, First.name, e) /\ pending' = SubSeq(pending, 1, stack[e].mark)
        BY <3>4 DEF GoneBack
      <4>2. ~Since(stack, First.name, p)
        <5>1. First.op = "ROLLBACK TO"
          BY <3>4 DEF GoneBack
        <5>2. ~Discarded(pending[p])
          BY <1>5, <3>1
        <5> QED BY <1>0, <1>3, <5>1, <5>2 DEF UntouchedInv
      <4>3. p \in 1 .. stack[e].mark
        BY <1>0, <4>1, <4>2, PastCut
      <4>4. stack[e].mark \in 0 .. Len(pending)
        <5>1. stack[e].mark \in Nat /\ Len(pending) \in Nat /\ stack[e].mark <= Len(pending)
          BY <1>0, StackType DEF SpType, SpInv, MarkInv
        <5> QED BY <5>1
      <4>5. Len(pending') = stack[e].mark /\ \A i \in 1 .. stack[e].mark : pending'[i] = pending[i]
        BY <1>0, <4>1, <4>4, CutType DEF SpType
      <4> QED BY <3>1, <4>3, <4>5
    <3> QED BY <2>1, <3>2, <3>3, <3>4, ExecCases DEF Refused, Pushed, Released
  <2> QED BY <2>2, <2>3
<1>6. ASSUME Live', NEW w \in 1 .. Len(writes'), Latest(writes[w][1])', Told(w)', ~Discarded(w)'
      PROVE  \E p \in 1 .. Len(pending') : pending'[p] = w
  BY <1>2, <1>5, <1>6
<1> QED BY <1>6 DEF KeptInv

\* A transaction fails because a statement of it has.
LEMMA ExecAbort == ASSUME TxInv, SpInv, WholeInv, Exec PROVE AbortInv'
<1>0. TxType /\ AnswerInv /\ PlaceInv /\ WritesInv /\ SpType /\ WholeType /\ RootInv /\ CallInv /\ AbortInv
  BY WholeParts DEF TxInv
<1>1. /\ UNCHANGED <<writes, wrote, call>> /\ answer = "none"
      /\ \A h : Latest(h)' <=> Latest(h)
  BY <1>0, ExecBooks, ExecShift
<1>2. First = queue[1] /\ 1 \in 1 .. Len(queue) /\ Len(queue) \in Nat
  BY <1>0, ExecShift DEF First
<1>3. ASSUME Live', tx' = "aborted" PROVE \E w \in 1 .. Len(writes) : Latest(writes[w][1]) /\ Failed(w)'
  <2>1. Live /\ First.op # "START"
    BY <1>3, ExecLive
  <2>2. CASE tx = "aborted"
    BY <1>0, <2>1, <2>2, ExecFailed DEF AbortInv
  <2>3. CASE tx # "aborted"
    <3>1. First.op = "WRITE"
      BY <1>3, <2>1, <2>3, ExecAnswer
    <3>2. tx = "open"
      BY <1>0, <1>2, <2>3, <3>1 DEF PlaceInv, Inside, TxType
    <3>3. PICK w \in 1 .. Len(writes) : w = First.name /\ Latest(writes[w][1])
      BY <1>0, <1>2, <3>1 DEF WritesInv, RootInv
    <3>4. wrote[w] # "ok"
      BY <1>0, <1>2, <3>1, <3>3, MadeUnder DEF WholeType
    <3>5. ASSUME call = "write", w = Len(writes) PROVE answer' = "err"
      <4>1. queue[Len(queue)] = Q("WRITE", w)
        BY <1>0, <1>1, <3>5 DEF CallInv
      <4>2. Len(queue) = 1
        <5> SUFFICES ASSUME Len(queue) # 1 PROVE FALSE
          OBVIOUS
        <5>1. 1 < Len(queue) /\ Len(queue) \in 1 .. Len(queue)
          BY <1>2
        <5>2. queue[1].name < queue[Len(queue)].name
          BY <1>0, <1>2, <3>1, <4>1, <5>1 DEF RootInv, Q
        <5>3. queue[Len(queue)].name = w /\ queue[1].name = w /\ w \in Int
          BY <1>2, <3>3, <4>1 DEF Q
        <5> QED BY <5>2, <5>3
      <4> QED BY <1>3, <3>1, <3>2, <3>5, <4>2, ExecAnswer
    <3>6. Failed(w)'
      BY <1>1, <3>4, <3>5 DEF Failed
    <3> QED BY <3>3, <3>6
  <2> QED BY <2>2, <2>3
<1>4. ASSUME Live', tx' = "aborted" PROVE \E w \in 1 .. Len(writes') : Latest(writes[w][1])' /\ Failed(w)'
  <2>1. PICK w \in 1 .. Len(writes) : Latest(writes[w][1]) /\ Failed(w)'
    BY <1>3, <1>4
  <2>2. Latest(writes[w][1])'
    BY <1>1, <2>1
  <2> QED BY <1>1, <2>1, <2>2
<1> QED BY <1>4 DEF AbortInv

\* What is written under one outermost handle is still committed together.
LEMMA ExecTogether == ASSUME TxInv, SpInv, WholeInv, Exec PROVE TogetherInv'
<1>0. /\ TxType /\ AnswerInv /\ NamesInv /\ SpType /\ WritesInv /\ CommittedInv
      /\ WholeType /\ RootInv /\ CallInv /\ KeptInv /\ TogetherInv
  BY WholeParts
<1>1. /\ UNCHANGED <<handles, writes, fate>>
      /\ \A w : Discarded(w)' <=> Discarded(w)
  BY ExecBooks
<1>2. First = queue[1] /\ 1 \in 1 .. Len(queue) /\ ~lost
  BY <1>0, ExecShift DEF First
<1>3. ASSUME NEW v \in 1 .. Len(writes), NEW w \in 1 .. Len(writes), writes[v][1] = writes[w][1],
             v \in committed', Told(w)', ~Discarded(w)
      PROVE  w \in committed'
  <2>1. CASE committed' = committed
    <3>1. CASE Told(w)
      BY <1>0, <1>3, <2>1, <3>1 DEF TogetherInv
    <3>2. CASE ~Told(w)
      <4>1. call = "write" /\ w = Len(writes)
        BY <1>3, <3>2, ExecTold
      <4>2. handles # <<>> /\ writes[w] = handles
        BY <1>0, <4>1 DEF CallInv
      <4>3. fate[writes[w][1]] = "open"
        BY <1>0, <4>2, FirstOpen
      <4>4. fate[writes[v][1]] = "committed"
        BY <1>0, <1>3, <2>1, MadeUnder DEF CommittedInv
      <4> QED BY <1>3, <4>3, <4>4
    <3> QED BY <3>1, <3>2
  <2>2. CASE First.op = "COMMIT" /\ committed' = committed \cup Elements(pending) /\ Ended
    <3>1. handles = <<>>
      BY <2>2, EndedFacts
    <3>2. Told(w)
      <4>1. CASE ~Told(w)
        <5>1. call = "write"
          BY <1>3, <4>1, ExecTold
        <5> QED BY <1>0, <3>1, <5>1 DEF CallInv
      <4> QED BY <4>1
    <3>3. CASE v \in committed
      BY <1>0, <1>3, <2>2, <3>2, <3>3 DEF TogetherInv
    <3>4. CASE v \notin committed
      <4>1. PICK p \in 1 .. Len(pending) : pending[p] = v
        BY <1>3, <2>2, <3>4 DEF Elements
      <4>2. Latest(writes[w][1])
        BY <1>0, <1>3, <4>1 DEF RootInv
      <4>3. Live
        BY <1>2, <2>2 DEF Live
      <4>4. PICK q \in 1 .. Len(pending) : pending[q] = w
        BY <1>0, <1>3, <3>2, <4>2, <4>3 DEF KeptInv
      <4> QED BY <2>2, <4>4 DEF Elements
    <3> QED BY <3>3, <3>4
  <2> QED BY <2>1, <2>2, ExecCases DEF Refused, Ended, Pushed, Released, GoneBack, Written
<1>4. ASSUME NEW v \in 1 .. Len(writes'), NEW w \in 1 .. Len(writes'), writes'[v][1] = writes'[w][1],
             v \in committed', Told(w)', ~Discarded(w)'
      PROVE  w \in committed'
  BY <1>1, <1>3, <1>4
<1> QED BY <1>4 DEF TogetherInv

\* Nothing that was committed is taken back.
LEMMA ExecGrows ==
  ASSUME TxInv, SpInv, Exec
  PROVE  committed \subseteq committed'
BY ExecCases DEF Refused, Ended, Pushed, Released, GoneBack, Written

\* A COMMIT that is answered Ok has committed the whole, unless a statement failed.
LEMMA ExecAck == ASSUME TxInv, SpInv, WholeInv, Exec PROVE AckInv'
<1>0. /\ TxType /\ AnswerInv /\ SpType /\ WholeType /\ RootInv /\ CallInv /\ CommitInv
      /\ KeptInv /\ AbortInv /\ AckInv
  BY WholeParts
<1>1. /\ UNCHANGED <<handles, writes, fate, wrote, acked, call>>
      /\ \A h : (Outermost(h)' <=> Outermost(h)) /\ (Latest(h)' <=> Latest(h))
      /\ \A w : Discarded(w)' <=> Discarded(w)
  BY ExecBooks
<1>2. First = queue[1] /\ 1 \in 1 .. Len(queue) /\ ~lost /\ (answer' # "none" => Len(queue) = 1) /\ answer = "none"
  BY <1>0, ExecShift DEF First
<1>3. ASSUME NEW h \in acked PROVE Outermost(h)' /\ fate'[h] = "committed" /\ Whole(h)'
  <2>1. Outermost(h) /\ fate[h] = "committed" /\ Whole(h)
    BY <1>0, <1>3 DEF AckInv
  <2>2. Whole(h)'
    BY <1>1, <2>1, ExecGrows DEF Whole
  <2> QED BY <1>1, <2>1, <2>2
<1>4. ASSUME call = "commit", handles = <<>>, answer' = "ok", NEW h \in Handle, Latest(h) PROVE Whole(h)'
  <2>1. Len(queue) = 1 /\ First.op = "COMMIT"
    BY <1>0, <1>2, <1>4 DEF CallInv
  <2>2. tx # "idle" /\ Live
    BY <1>0, <1>2, <2>1 DEF CommitInv, Live
  <2>3. CASE tx = "open"
    <3>1. committed' = committed \cup Elements(pending)
      BY <1>4, <2>1, <2>3, ExecAnswer
    <3> SUFFICES ASSUME \A v \in 1 .. Len(writes') : writes'[v][1] = h => wrote'[v] = "ok",
                        NEW w \in 1 .. Len(writes'), writes'[w][1] = h, ~Discarded(w)'
                 PROVE  w \in committed'
      BY DEF Whole
    <3>2. w \in 1 .. Len(writes) /\ writes[w][1] = h /\ ~Discarded(w) /\ Told(w)
      BY <1>1 DEF Told
    <3>3. PICK p \in 1 .. Len(pending) : pending[p] = w
      BY <1>0, <1>4, <2>2, <3>2 DEF KeptInv
    <3> QED BY <3>1, <3>3 DEF Elements
  <2>4. CASE tx = "aborted"
    <3>1. PICK w \in 1 .. Len(writes) : Latest(writes[w][1]) /\ Failed(w)
      BY <1>0, <2>2, <2>4 DEF AbortInv
    <3>2. writes[w][1] = h
      BY <1>0, <1>4, <3>1, LatestIs, MadeUnder
    <3>3. wrote[w] # "ok"
      BY <3>1 DEF Failed
    <3> QED BY <1>1, <3>2, <3>3 DEF Whole
  <2> QED BY <1>0, <2>2, <2>3, <2>4 DEF TxType
<1>5. ASSUME call' = "commit", handles' = <<>>, answer' = "ok", NEW h \in Handle, Latest(h)' PROVE Whole(h)'
  BY <1>1, <1>4, <1>5
<1>6. \A h \in acked' : Outermost(h)' /\ fate'[h] = "committed" /\ Whole(h)'
  BY <1>1, <1>3
<1> QED BY <1>5, <1>6 DEF AckInv

\* What the call that is awaited is about.
LEMMA ExecCall == ASSUME TxInv, SpInv, WholeInv, Exec PROVE CallInv'
<1>0. TxType /\ AnswerInv /\ PlaceInv /\ SpType /\ WritesInv /\ CallInv
  BY WholeParts DEF TxInv
<1>1. /\ UNCHANGED <<handles, writes, fate, wrote, call>>
      /\ \A h : Latest(h)' <=> Latest(h)
  BY ExecBooks
<1>2. /\ First = queue[1] /\ 1 \in 1 .. Len(queue) /\ Len(queue) \in Nat /\ Len(queue') = Len(queue) - 1
      /\ \A i \in 1 .. Len(queue') : queue'[i] = queue[i + 1]
      /\ answer' # "none" => Len(queue) = 1 /\ call # "none"
      /\ answer = "none"
  BY <1>0, ExecShift DEF First
<1>3. ASSUME call = "start", answer' = "ok" PROVE tx' # "aborted" /\ pending' = <<>>
  <2>1. Len(queue) = 1
    BY <1>2, <1>3
  <2>2. First.op = "START" /\ Ends(Len(queue) - 1)
    BY <1>0, <1>2, <1>3, <2>1 DEF PlaceInv
  <2>3. tx = "idle"
    <3>1. \A j \in 1 .. Len(queue) - 1 : FALSE
      BY <2>1
    <3> QED BY <2>2, <3>1 DEF Ends
  <2>4. pending = <<>>
    BY <1>0, <2>3 DEF WritesInv
  <2>5. tx' = "open"
    BY <1>3, <2>2, ExecAnswer
  <2>6. pending' = <<>>
    BY <2>2, <2>4, ExecCases DEF Refused, Ended, Pushed, Released, GoneBack, Written, Enders
  <2> QED BY <2>5, <2>6
<1>4. ASSUME call # "none", answer' = "none" PROVE queue'[Len(queue')] = queue[Len(queue)]
  <2>1. Len(queue) # 1
    BY <1>4, ExecAnswer
  <2>2. PICK l \in Nat : l = Len(queue) /\ Len(queue') = l - 1 /\ l # 1 /\ 1 \in 1 .. l
    BY <1>2, <2>1
  <2>3. l - 1 \in 1 .. l - 1 /\ (l - 1) + 1 = l
    BY <2>2
  <2> QED BY <1>2, <2>2, <2>3
<1>5. call = "write" =>
       /\ handles # <<>> /\ writes # <<>> /\ writes[Len(writes)] = handles
       /\ answer' = "none" => queue'[Len(queue')] = Q("WRITE", Len(writes))
       /\ wrote[Len(writes)] # "ok"
  BY <1>0, <1>2, <1>4 DEF CallInv
<1>6. call = "commit" => \E h \in Handle : Latest(h)'
  BY <1>0, <1>1 DEF CallInv
<1>7. call = "commit" /\ handles = <<>> =>
       /\ answer' = "none" => queue'[Len(queue')].op = "COMMIT"
       /\ \A h \in Handle : Latest(h)' => fate[h] = "committed"
  BY <1>0, <1>1, <1>2, <1>4 DEF CallInv
<1> QED BY <1>1, <1>3, <1>5, <1>6, <1>7 DEF CallInv

\* The server executes a query.
LEMMA WholeExec == ASSUME TxInv, SpInv, WholeInv, Exec PROVE WholeInv'
BY ExecRoot, ExecUntouched, ExecKept, ExecAbort, ExecTogether, ExecAck, ExecCall DEF WholeInv

-----------------------------------------------------------------------------
(***************************************************************************)
(* The rest, and the theorem.                                              *)
(***************************************************************************)

\* The connection is lost: nothing more is committed.
LEMMA WholeLose == ASSUME TxInv, SpInv, WholeInv, Lose PROVE WholeInv'
<1>0. /\ TxType /\ AnswerInv /\ WholeType /\ RootInv /\ CallInv /\ TogetherInv /\ AckInv
  BY WholeParts
<1>1. /\ queue' = <<>> /\ pending' = <<>> /\ stack' = <<>> /\ tx' = "idle" /\ lost'
      /\ answer' = IF call # "none" /\ answer = "none" THEN "err" ELSE answer
      /\ UNCHANGED <<handles, savepoint, fate, writes, wrote, call, acked, committed>>
  BY DEF Lose
<1>2. Len(queue') = 0 /\ Len(pending') = 0 /\ \A i \in 1 .. 0 : FALSE
  BY <1>1
<1>3. /\ \A h : (Outermost(h)' <=> Outermost(h)) /\ (Latest(h)' <=> Latest(h))
      /\ \A w : Discarded(w)' <=> Discarded(w)
  BY <1>1, SameBooks DEF Outermost, Latest
<1>4. answer' = "ok" => answer = "ok"
  BY <1>1
<1>5. \A w : Told(w)' => Told(w)
  BY <1>1, <1>4 DEF Told
<1>6. WholeType'
  BY <1>0, <1>1, <1>2 DEF WholeType
<1>7. RootInv'
  BY <1>0, <1>1, <1>2, <1>3 DEF RootInv
<1>8. CallInv'
  <2>1. call # "none" => answer' # "none"
    BY <1>1
  <2> QED BY <1>0, <1>1, <1>3, <2>1 DEF CallInv
<1>9. UntouchedInv'
  BY <1>2 DEF UntouchedInv
<1>10. CommitInv'
  BY <1>2 DEF CommitInv
<1>11. KeptInv' /\ AbortInv'
  BY <1>1 DEF KeptInv, AbortInv, Live
<1>12. TogetherInv'
  BY <1>0, <1>1, <1>3, <1>5 DEF TogetherInv
<1>13. \A h : Whole(h)' <=> Whole(h)
  BY <1>1, <1>3 DEF Whole
<1>14. AckInv'
  BY <1>0, <1>1, <1>3, <1>4, <1>13 DEF AckInv
<1> QED BY <1>6, <1>7, <1>8, <1>9, <1>10, <1>11, <1>12, <1>14 DEF WholeInv

\* It holds of the initial state.
LEMMA WholeInit == Init => WholeInv
<1> SUFFICES ASSUME Init PROVE WholeInv
  OBVIOUS
<1>1. /\ handles = <<>> /\ writes = <<>> /\ queue = <<>> /\ pending = <<>> /\ acked = {} /\ call = "none"
      /\ wrote = [w \in Write |-> "none"]
  BY DEF Init
<1>2. Len(writes) = 0 /\ Len(queue) = 0 /\ Len(pending) = 0 /\ \A i \in 1 .. 0 : FALSE
  BY <1>1
<1>3. WholeType
  BY <1>1, <1>2 DEF WholeType
<1>4. RootInv /\ CallInv
  BY <1>1, <1>2 DEF RootInv, CallInv
<1>5. UntouchedInv /\ CommitInv
  BY <1>2 DEF UntouchedInv, CommitInv
<1>6. ~Live
  BY <1>1, <1>2 DEF Live
<1>7. KeptInv /\ AbortInv
  BY <1>6 DEF KeptInv, AbortInv
<1>8. TogetherInv /\ AckInv
  BY <1>1, <1>2 DEF TogetherInv, AckInv
<1> QED BY <1>3, <1>4, <1>5, <1>7, <1>8 DEF WholeInv

\* A stuttering step keeps it.
LEMMA WholeStutter == ASSUME WholeInv, UNCHANGED vars PROVE WholeInv'
<1>1. /\ UNCHANGED <<handles, savepoint, fate, writes, wrote, call, answer, acked>>
      /\ UNCHANGED <<queue, tx, stack, pending, committed, lost>>
  BY DEF vars, appVars, serverVars
<1>2. /\ \A h : (Outermost(h)' <=> Outermost(h)) /\ (Latest(h)' <=> Latest(h))
      /\ \A w : Discarded(w)' <=> Discarded(w)
      /\ \A w, h : Under(w, h)' <=> Under(w, h)
      /\ \A j : NameOf(j)' = NameOf(j)
  BY <1>1, SameBooks DEF Outermost, Latest, NameOf
<1>3. (\A w : Told(w)' <=> Told(w)) /\ (\A w : Failed(w)' <=> Failed(w)) /\ (Live' <=> Live)
  BY <1>1 DEF Told, Failed, Live
<1>4. \A h : Whole(h)' <=> Whole(h)
  BY <1>1, <1>2 DEF Whole
<1>5. WholeType' /\ CommitInv'
  BY <1>1 DEF WholeInv, WholeType, CommitInv
<1>6. RootInv' /\ CallInv'
  BY <1>1, <1>2 DEF WholeInv, RootInv, CallInv
<1>7. UntouchedInv'
  BY <1>1, <1>2 DEF WholeInv, UntouchedInv
<1>8. KeptInv' /\ AbortInv'
  BY <1>1, <1>2, <1>3 DEF WholeInv, KeptInv, AbortInv
<1>9. TogetherInv' /\ AckInv'
  BY <1>1, <1>2, <1>3, <1>4 DEF WholeInv, TogetherInv, AckInv
<1> QED BY <1>5, <1>6, <1>7, <1>8, <1>9 DEF WholeInv

\* Every step keeps it.
LEMMA WholeNext == ASSUME TxInv, SpInv, WholeInv, TxInv', [Next]_vars PROVE WholeInv'
<1>1. CASE \E n \in Name : Savepoint(n)
  BY <1>1, WholeSavepoint
<1> QED BY <1>1, WholeStart, WholeWriteRow, WholeCommit, WholeRollback, WholeDropTransaction,
           WholeReturn, WholeCancel, WholeExec, WholeLose, WholeStutter DEF Next

\* Commits are as a whole where the invariant holds.
LEMMA WholeCommits ==
  ASSUME TxInv, SpInv, WholeInv
  PROVE  CommitsAsAWhole
<1>0. TogetherInv /\ AckInv /\ WholeType
  BY WholeParts
<1> SUFFICES ASSUME NEW w \in 1 .. Len(writes), ~Discarded(w), wrote[w] = "ok",
                    NEW T, T = {v \in 1 .. Len(writes) : writes[v][1] = writes[w][1]},
                    \/ writes[w][1] \in acked /\ \A v \in T : wrote[v] = "ok"
                    \/ T \cap committed # {}
             PROVE  w \in committed
  BY DEF CommitsAsAWhole
<1>1. CASE writes[w][1] \in acked /\ \A v \in T : wrote[v] = "ok"
  <2>1. Whole(writes[w][1])
    BY <1>0, <1>1 DEF AckInv
  <2>2. \A v \in 1 .. Len(writes) : writes[v][1] = writes[w][1] => wrote[v] = "ok"
    BY <1>1
  <2> QED BY <2>1, <2>2 DEF Whole
<1>2. CASE T \cap committed # {}
  <2>1. PICK v \in 1 .. Len(writes) : writes[v][1] = writes[w][1] /\ v \in committed
    BY <1>2
  <2>2. Told(w)
    BY DEF Told
  <2> QED BY <1>0, <2>1, <2>2 DEF TogetherInv
<1> QED BY <1>1, <1>2

\* The invariant holds throughout, if no savepoint name in use is used again.
LEMMA WholeInvariant == ASSUME ~NamesReused PROVE Spec => [](TxInv /\ SpInv /\ WholeInv)
<1>1. Init => TxInv /\ SpInv /\ WholeInv
  BY TxInit, SpInit, WholeInit
<1>2. TxInv /\ SpInv /\ WholeInv /\ [Next]_vars => (TxInv /\ SpInv /\ WholeInv)'
  <2> SUFFICES ASSUME TxInv, SpInv, WholeInv, [Next]_vars PROVE (TxInv /\ SpInv /\ WholeInv)'
    OBVIOUS
  <2>1. (TxInv /\ SpInv)'
    BY SpNext
  <2>2. TxInv'
    BY <2>1
  <2>3. WholeInv'
    BY <2>2, WholeNext
  <2> QED BY <2>1, <2>3
<1> QED BY <1>1, <1>2, PTL DEF Spec

\* "Consumes the transaction, committing all changes made within it": if no
\* savepoint name in use is used again, then when commit of an outermost handle
\* has returned Ok and every statement under it was answered Ok, all that no
\* nested handle discarded is committed, and what succeeded under one outermost
\* handle is committed together.
THEOREM CommittedAsAWhole == ASSUME ~NamesReused PROVE Spec => []CommitsAsAWhole
<1>1. TxInv /\ SpInv /\ WholeInv => CommitsAsAWhole
  BY WholeCommits
<1> QED BY <1>1, WholeInvariant, PTL
=============================================================================
