---------------------------- MODULE Transaction -----------------------------
(***************************************************************************)
(* Transactions and savepoints of the asynchronous driver.                 *)
(*                                                                         *)
(* A Transaction is a handle that borrows its Client, and a nested one     *)
(* borrows its parent, so only the innermost open handle can be used.      *)
(* Each operation sends one simple query and awaits its answer; the        *)
(* application may drop the future in between, and then nothing awaits the *)
(* query, which stays queued.  The queue is in order and answered in order *)
(* (module Pipeline), so that an awaited query is always the last one.     *)
(*                                                                         *)
(* The names sp_1, sp_2, ... that _savepoint makes up are 1, 2, ...; names *)
(* the application chooses are the members of UserNames.                   *)
(***************************************************************************)
EXTENDS Integers, Sequences, FiniteSets

CONSTANTS
  MaxHandles,    \* bound on the Transaction values ever created
  MaxWrites,     \* bound on the writes ever made
  MaxQueue,      \* bound on the queries sent and not yet executed
  MaxStack,      \* bound on the savepoints of the session
  UserNames,     \* names given to Transaction::savepoint
  NamesReused,   \* TRUE: also a name that an open handle has
  MayLose        \* TRUE: the connection may be lost

ASSUME TransactionAssumption ==
  /\ MaxHandles \in Nat /\ MaxWrites \in Nat
  /\ MaxQueue \in Nat \ {0} /\ MaxStack \in Nat
  /\ UserNames \subseteq Nat
  /\ NamesReused \in BOOLEAN /\ MayLose \in BOOLEAN

VARIABLES
  \* the application
  handles,     \* ids of the open Transactions, outermost first
  savepoint,   \* savepoint name of handle h, NoName for the outermost
  fate,        \* what has become of handle h
  writes,      \* history: the handles each write was made under, outermost first
  wrote,       \* what the application was told of each write
  call,        \* the future being awaited
  answer,      \* the answer that has arrived for it
  acked,       \* history: outermost handles whose commit returned Ok
  \* the Connection and the server
  queue,       \* queries sent and not yet executed
  tx,          \* the session's transaction state
  stack,       \* its savepoints, each with the writes made before it
  pending,     \* writes of the open transaction
  stray,       \* writes that ran outside any transaction
  committed,   \* writes committed
  lost         \* the connection is gone

appVars == <<handles, savepoint, fate, writes, wrote, call, answer, acked>>
serverVars == <<tx, stack, pending, stray, committed>>
vars == <<appVars, queue, serverVars, lost>>

-----------------------------------------------------------------------------
Handle   == 1 .. MaxHandles
Write    == 1 .. MaxWrites
NoName   == -1
Name     == UserNames \cup Handle
Q(op, n) == [op |-> op, name |-> n]

Top    == handles[Len(handles)]
Depth  == Len(handles)
Fresh  == Cardinality({h \in Handle : fate[h] # "none"}) + 1
NewWrite == Len(writes) + 1

Init ==
  /\ handles = <<>>
  /\ savepoint = [h \in Handle |-> NoName]
  /\ fate = [h \in Handle |-> "none"]
  /\ writes = <<>>
  /\ wrote = [w \in Write |-> "none"]
  /\ call = "none"
  /\ answer = "none"
  /\ acked = {}
  /\ queue = <<>>
  /\ tx = "idle"
  /\ stack = <<>>
  /\ pending = <<>>
  /\ stray = {}
  /\ committed = {}
  /\ lost = FALSE

-----------------------------------------------------------------------------
(***************************************************************************)
(* The application.                                                        *)
(***************************************************************************)

\* batch_execute: the query is handed to the Connection at the first poll and
\* its answer awaited.  On a closed connection it fails at once.
Await(op, q) ==
  /\ call = "none" /\ Len(queue) < MaxQueue
  /\ call' = op
  /\ IF lost THEN answer' = "err" /\ UNCHANGED queue
             ELSE queue' = Append(queue, q) /\ UNCHANGED answer

\* A query nobody waits for, its failure to be sent ignored.
Post(q) ==
  /\ Len(queue) < MaxQueue
  /\ queue' = IF lost THEN queue ELSE Append(queue, q)

\* TransactionBuilder::start.
Start ==
  /\ handles = <<>> /\ Fresh \in Handle
  /\ Await("start", Q("START", NoName))
  /\ UNCHANGED <<handles, savepoint, fate, writes, wrote, acked, serverVars, lost>>

\* Mutant: no cleaner.
DropStart_NoGuard == UNCHANGED queue

\* RollbackIfNotDone: START TRANSACTION may have been sent.
DropStart == Post(Q("ROLLBACK", NoName))

\* The name of the next savepoint: the given one, or sp_{depth}.
SavepointName(n) == n = Depth \/ n \in UserNames

\* Transaction::transaction and Transaction::savepoint.
Savepoint(n) ==
  /\ handles # <<>> /\ Fresh \in Handle /\ Len(stack) < MaxStack
  /\ SavepointName(n)
  /\ NamesReused \/ \A i \in 1 .. Len(handles) : savepoint[handles[i]] # n
  /\ Await("savepoint", Q("SAVEPOINT", n))
  /\ savepoint' = [savepoint EXCEPT ![Fresh] = n]
  /\ UNCHANGED <<handles, fate, writes, wrote, acked, serverVars, lost>>

\* A statement that changes data, through the innermost Transaction.
WriteRow ==
  /\ handles # <<>> /\ NewWrite \in Write
  /\ Await("write", Q("WRITE", NewWrite))
  /\ writes' = Append(writes, handles)
  /\ UNCHANGED <<handles, savepoint, fate, wrote, acked, serverVars, lost>>

\* The innermost handle is consumed.
Close(f) ==
  /\ fate' = [fate EXCEPT ![Top] = f]
  /\ handles' = SubSeq(handles, 1, Len(handles) - 1)
  /\ UNCHANGED <<savepoint, writes, wrote, acked, serverVars, lost>>

CommitQuery == IF savepoint[Top] = NoName THEN Q("COMMIT", NoName)
                                          ELSE Q("RELEASE", savepoint[Top])

\* Mutant: a nested transaction releases its savepoint where it should go back.
RollbackQuery_Release == IF savepoint[Top] = NoName THEN Q("ROLLBACK", NoName)
                                                    ELSE Q("RELEASE", savepoint[Top])

\* Mutant: a nested transaction rolls back the whole.
RollbackQuery_Always == Q("ROLLBACK", NoName)

RollbackQuery == IF savepoint[Top] = NoName THEN Q("ROLLBACK", NoName)
                                            ELSE Q("ROLLBACK TO", savepoint[Top])

\* Transaction::commit, once polled: done is set before the query is sent.
Commit ==
  /\ handles # <<>>
  /\ Await("commit", CommitQuery)
  /\ Close("committed")

\* Transaction::rollback, once polled.
Rollback ==
  /\ handles # <<>>
  /\ Await("rollback", RollbackQuery)
  /\ Close("rolledback")

\* Drop of a Transaction that is not done, held in a commit or rollback future
\* that was never polled as well.
DropTransaction ==
  /\ handles # <<>> /\ call = "none"
  /\ Post(RollbackQuery)
  /\ Close("rolledback")
  /\ UNCHANGED <<call, answer>>

\* The latest handle that is no savepoint.
LastOutermost ==
  CHOOSE h \in Handle :
    /\ fate[h] # "none" /\ savepoint[h] = NoName
    /\ \A g \in Handle : g > h => fate[g] = "none" \/ savepoint[g] # NoName

\* The answer arrives, and the future returns it.
Return ==
  /\ call # "none" /\ answer # "none"
  /\ call' = "none" /\ answer' = "none"
  /\ IF answer = "ok" /\ call \in {"start", "savepoint"}
       THEN /\ handles' = Append(handles, Fresh)
            /\ fate' = [fate EXCEPT ![Fresh] = "open"]
       ELSE UNCHANGED <<handles, fate>>
  /\ IF answer = "err" /\ call = "start" THEN DropStart ELSE UNCHANGED queue
  /\ wrote' = IF call = "write" THEN [wrote EXCEPT ![Len(writes)] = answer] ELSE wrote
  /\ acked' = IF call = "commit" /\ answer = "ok" /\ handles = <<>>
                THEN acked \cup {LastOutermost}
                ELSE acked
  /\ savepoint' = IF answer = "err" /\ call = "savepoint"
                    THEN [savepoint EXCEPT ![Fresh] = NoName] ELSE savepoint
  /\ UNCHANGED <<writes, serverVars, lost>>

\* The application drops the future it awaits, answered or not.  Only start
\* cleans up; a savepoint it may have made stays behind.
Cancel ==
  /\ call # "none"
  /\ call' = "none" /\ answer' = "none"
  /\ IF call = "start" THEN DropStart ELSE UNCHANGED queue
  /\ savepoint' = IF call = "savepoint" THEN [savepoint EXCEPT ![Fresh] = NoName]
                                        ELSE savepoint
  /\ UNCHANGED <<handles, fate, writes, wrote, acked, serverVars, lost>>

-----------------------------------------------------------------------------
(***************************************************************************)
(* The server (external).                                                  *)
(***************************************************************************)
Reply(res) == answer' = IF Len(queue) = 1 /\ call # "none" THEN res ELSE answer

Fail ==
  /\ Reply("err")
  /\ tx' = IF tx = "idle" THEN "idle" ELSE "aborted"
  /\ UNCHANGED <<stack, pending, stray, committed>>

EndTx(res, done) ==
  /\ Reply(res)
  /\ tx' = "idle" /\ stack' = <<>> /\ pending' = <<>>
  /\ committed' = committed \cup done
  /\ UNCHANGED stray

Elements(s) == {s[i] : i \in 1 .. Len(s)}

\* The innermost savepoint called n, 0 if there is none.
Find(n) ==
  IF \E i \in 1 .. Len(stack) : stack[i].name = n
    THEN CHOOSE i \in 1 .. Len(stack) :
           /\ stack[i].name = n
           /\ \A j \in i + 1 .. Len(stack) : stack[j].name # n
    ELSE 0

ExecStart ==
  \/ /\ tx # "aborted"     \* inside a transaction: a warning
     /\ tx' = "open" /\ Reply("ok")
     /\ UNCHANGED <<stack, pending, stray, committed>>
  \/ Fail

\* COMMIT of a failed transaction rolls it back and is no error.
ExecCommit ==
  \/ tx = "open" /\ EndTx("ok", Elements(pending))
  \/ tx = "open" /\ EndTx("err", {})
  \/ tx # "open" /\ EndTx("ok", {})

ExecSavepoint(n) ==
  IF tx = "open"
    THEN /\ stack' = Append(stack, [name |-> n, mark |-> Len(pending)])
         /\ Reply("ok")
         /\ UNCHANGED <<tx, pending, stray, committed>>
    ELSE Fail

ExecRelease(n) ==
  IF tx = "open" /\ Find(n) # 0
    THEN /\ stack' = SubSeq(stack, 1, Find(n) - 1)
         /\ Reply("ok")
         /\ UNCHANGED <<tx, pending, stray, committed>>
    ELSE Fail

\* The savepoint itself stays, and a failed transaction is open again.
ExecRollbackTo(n) ==
  IF tx # "idle" /\ Find(n) # 0
    THEN /\ stack' = SubSeq(stack, 1, Find(n))
         /\ pending' = SubSeq(pending, 1, stack[Find(n)].mark)
         /\ tx' = "open" /\ Reply("ok")
         /\ UNCHANGED <<stray, committed>>
    ELSE Fail

\* Outside a transaction a statement commits at once.
ExecWrite(w) ==
  \/ /\ tx = "open"
     /\ pending' = Append(pending, w) /\ Reply("ok")
     /\ UNCHANGED <<tx, stack, stray, committed>>
  \/ /\ tx = "idle"
     /\ committed' = committed \cup {w} /\ stray' = stray \cup {w} /\ Reply("ok")
     /\ UNCHANGED <<tx, stack, pending>>
  \/ Fail

Exec ==
  LET q == Head(queue) IN
  /\ queue # <<>> /\ ~lost
  /\ queue' = Tail(queue)
  /\ \/ q.op = "START" /\ ExecStart
     \/ q.op = "COMMIT" /\ ExecCommit
     \/ q.op = "ROLLBACK" /\ EndTx("ok", {})
     \/ q.op = "SAVEPOINT" /\ ExecSavepoint(q.name)
     \/ q.op = "RELEASE" /\ ExecRelease(q.name)
     \/ q.op = "ROLLBACK TO" /\ ExecRollbackTo(q.name)
     \/ q.op = "WRITE" /\ ExecWrite(q.name)
  /\ UNCHANGED <<handles, savepoint, fate, writes, wrote, call, acked, lost>>

\* The connection is lost: what was not executed never is, the open
\* transaction is rolled back, and the awaited call fails.
Lose ==
  /\ MayLose /\ ~lost
  /\ lost' = TRUE
  /\ queue' = <<>>
  /\ answer' = IF call # "none" /\ answer = "none" THEN "err" ELSE answer
  /\ tx' = "idle" /\ stack' = <<>> /\ pending' = <<>>
  /\ UNCHANGED <<handles, savepoint, fate, writes, wrote, call, acked, stray, committed>>

-----------------------------------------------------------------------------
Next ==
  \/ Start \/ (\E n \in Name : Savepoint(n)) \/ WriteRow
  \/ Commit \/ Rollback \/ DropTransaction
  \/ Return \/ Cancel
  \/ Exec \/ Lose

Spec == Init /\ [][Next]_vars

-----------------------------------------------------------------------------
(***************************************************************************)
(* Properties.                                                             *)
(***************************************************************************)

\* Transaction handles and the session's transaction agree.  When none is
\* open, nothing is awaited and everything sent has been executed, the session
\* is not inside a transaction: neither a dropped handle nor a start, commit
\* or rollback future dropped at any moment leaves one behind for the next
\* user of the Client.  And a statement made through a Transaction never runs
\* outside one, where it would commit on its own.
NoOrphanTransaction ==
  /\ handles = <<>> /\ call = "none" /\ queue = <<>> => tx = "idle"
  /\ stray = {}

\* Some handle that write w was made under has been rolled back or dropped.
Discarded(w) == \E i \in 1 .. Len(writes[w]) : fate[writes[w][i]] = "rolledback"

\* "Rolls the transaction back, discarding all changes made within it": what
\* was written under a handle that was rolled back or dropped, or under one
\* nested in it, is never committed.
RolledBackNeverCommitted ==
  \A w \in committed : ~Discarded(w)

\* "Consumes the transaction, committing all changes made within it": when
\* commit of an outermost handle has returned Ok and every statement under it
\* was answered Ok, all that no nested handle discarded is committed; and
\* together with one write all the others are that succeeded under the same
\* outermost handle.  (One statement that failed is enough for commit to return
\* Ok with nothing committed: the server answers COMMIT with the tag ROLLBACK,
\* which batch_execute ignores.)
CommitsAsAWhole ==
  \A w \in 1 .. Len(writes) :
    LET Together == {v \in 1 .. Len(writes) : writes[v][1] = writes[w][1]} IN
    ~Discarded(w) /\ wrote[w] = "ok"
      /\ \/ writes[w][1] \in acked /\ \A v \in Together : wrote[v] = "ok"
         \/ Together \cap committed # {}
    => w \in committed
=============================================================================
