------------------------------ MODULE McpPool -------------------------------
(***************************************************************************)
(* GaussdbMcp: the connections of the MCP server, one ConnectionState per  *)
(* configured name behind one mutex, and the tool calls that use them.     *)
(*                                                                         *)
(* The mutex is never held across a connect or a query, so a section under *)
(* it is one step, and other calls run between any two sections.  A        *)
(* session is one database connection, known by the order of opening; a    *)
(* call holds it through an Arc<Client>, whatever becomes of the entry.    *)
(* The startup probe, try_connect, is a call of its own.                   *)
(***************************************************************************)
EXTENDS Integers, Sequences, FiniteSets

CONSTANTS
  Names,          \* configured connections
  Callers,        \* tool calls that can be in progress at once
  Default,        \* default_name
  Lazy,           \* TRUE: entries start Pending, with a resolver
  MaxSessions,    \* bound on the sessions ever opened
  MaxQueries,     \* queries of the longest tool (get_table_metadata has 3)
  HasTimeout,     \* TRUE: statement_timeout is configured
  HasLifetime,    \* TRUE: connection_max_lifetime is configured
  TimeoutAction,  \* "cancel" or "disconnect"
  PerCallTimeout  \* TRUE: calls may give timeout_ms

ASSUME PoolAssumption ==
  /\ Default \in Names
  /\ MaxSessions \in Nat /\ MaxQueries \in Nat \ {0}
  /\ {Lazy, HasTimeout, HasLifetime, PerCallTimeout} \subseteq BOOLEAN
  /\ TimeoutAction \in {"cancel", "disconnect"}
  /\ Callers \cap {"default", "config"} = {}

VARIABLES
  entry,     \* connections: the ConnectionState of each name
  call,      \* each call in progress
  probed,    \* the startup probe has begun
  opened,    \* history: the name each session was opened for
  live,      \* sessions not closed
  aged,      \* sessions past connection_max_lifetime
  timeout,   \* statement_timeout of each session
  applied,   \* history: sessions the configured timeout was set in
  unreset,   \* history: sessions whose timeout a call's reset did not undo
  failed     \* history: sessions a call has given up

sessionVars == <<opened, live, aged, timeout, applied, unreset>>
vars == <<entry, call, probed, sessionVars, failed>>

-----------------------------------------------------------------------------
Session == 1 .. MaxSessions
Timeout == {"default", "config"} \cup Callers

Entry == [st : {"Pending", "Connecting", "Unavailable"}, sess : {0}]
           \cup [st : {"Connected"}, sess : Session]
Phase == {"idle", "resolve", "connect", "apply", "install", "set", "query",
          "reset", "handle"}
Call  == [pc : Phase, name : Names, sess : 0 .. MaxSessions, probe : BOOLEAN,
          ms : BOOLEAN, left : 0 .. MaxQueries, err : {"none", "db", "timeout", "conn"}]

Idle == [pc |-> "idle", name |-> Default, sess |-> 0, probe |-> FALSE,
         ms |-> FALSE, left |-> 0, err |-> "none"]

Init ==
  /\ entry = [n \in Names |-> [st |-> IF Lazy THEN "Pending" ELSE "Connecting", sess |-> 0]]
  /\ call = [c \in Callers |-> Idle]
  /\ probed = FALSE
  /\ opened = <<>>
  /\ live = {}
  /\ aged = {}
  /\ timeout = [s \in Session |-> "default"]
  /\ applied = {}
  /\ unreset = {}
  /\ failed = {}

Put(n, st, s) == entry' = [entry EXCEPT ![n] = [st |-> st, sess |-> s]]

\* With the client in hand, a tool sets its timeout first if it was given one.
WithClient(k, s) == [k EXCEPT !.sess = s, !.pc = IF k.ms THEN "set" ELSE "query"]

-----------------------------------------------------------------------------
(***************************************************************************)
(* get_client_for and connect_with_url.                                    *)
(***************************************************************************)

\* A session that get_client_for hands out: open, and within its lifetime.
Usable(s) == s \in live /\ ~(HasLifetime /\ s \in aged)

\* get_client_for under the lock: the client, or the way to a new one.
GetClient(c, k) ==
  LET n == k.name IN
  \/ /\ entry[n].st = "Connected" /\ Usable(entry[n].sess)
     /\ call' = [call EXCEPT ![c] = WithClient(k, entry[n].sess)]
     /\ UNCHANGED entry
  \/ /\ entry[n].st = "Connected" /\ ~Usable(entry[n].sess)
     /\ Put(n, "Connecting", 0)
     /\ call' = [call EXCEPT ![c] = [k EXCEPT !.pc = "connect"]]
  \/ /\ entry[n].st = "Pending"
     /\ call' = [call EXCEPT ![c] = [k EXCEPT !.pc = "resolve"]]
     /\ UNCHANGED entry
  \/ /\ entry[n].st \in {"Connecting", "Unavailable"}
     /\ call' = [call EXCEPT ![c] = [k EXCEPT !.pc = "connect"]]
     /\ UNCHANGED entry

\* A tool is called: one query with a timeout or not (execute_query,
\* get_execution_plan, ...), or several in a row (get_table_metadata).
BeginTool(c, n, ms, left) ==
  /\ call[c].pc = "idle"
  /\ ms => PerCallTimeout /\ left = 1
  /\ GetClient(c, [Idle EXCEPT !.name = n, !.ms = ms, !.left = left])
  /\ UNCHANGED <<probed, sessionVars, failed>>

\* try_connect: only an eager entry is probed, once.
TryConnect(c) ==
  /\ call[c].pc = "idle" /\ ~probed
  /\ probed' = TRUE
  /\ call' = IF entry[Default].st = "Connecting"
               THEN [call EXCEPT ![c] = [Idle EXCEPT !.probe = TRUE, !.pc = "connect"]]
               ELSE call
  /\ UNCHANGED <<entry, sessionVars, failed>>

\* The resolver reads the keychain, and may fail.
Resolve(c) ==
  /\ call[c].pc = "resolve"
  /\ \/ call' = [call EXCEPT ![c].pc = "connect"]
     \/ call' = [call EXCEPT ![c] = Idle]
  /\ UNCHANGED <<entry, probed, sessionVars, failed>>

\* do_connect opens a session.
Connect(c) ==
  LET s == Len(opened) + 1 IN
  /\ call[c].pc = "connect" /\ s \in Session
  /\ opened' = Append(opened, call[c].name)
  /\ live' = live \cup {s}
  /\ call' = [call EXCEPT ![c].sess = s,
                          ![c].pc = IF HasTimeout THEN "apply" ELSE "install"]
  /\ UNCHANGED <<entry, probed, aged, timeout, applied, unreset, failed>>

\* ... and sets the configured statement_timeout; a failure is only logged.
ApplyTimeout(c) ==
  LET s == call[c].sess IN
  /\ call[c].pc = "apply"
  /\ call' = [call EXCEPT ![c].pc = "install"]
  /\ \/ /\ s \in live
        /\ timeout' = [timeout EXCEPT ![s] = "config"]
        /\ applied' = applied \cup {s}
     \/ UNCHANGED <<timeout, applied>>
  /\ UNCHANGED <<entry, probed, opened, live, aged, unreset, failed>>

\* Mutant: the entry of the default connection is filled.
InstallName_Default(c) == Default

\* The entry connect_with_url fills.
InstallName(c) == call[c].name

\* The connection is there: the entry is overwritten.  The on_connected callback
\* that comes before, under the same lock, is the migration of Credentials.
Install(c) ==
  /\ call[c].pc = "install"
  /\ Put(InstallName(c), "Connected", call[c].sess)
  /\ call' = [call EXCEPT ![c] = IF @.probe THEN Idle ELSE WithClient(@, @.sess)]
  /\ UNCHANGED <<probed, sessionVars, failed>>

\* The tool returns the connection error.
AfterConnectError(c) == Idle

\* The connect failed: the entry is overwritten, whatever it holds by now.
ConnectFails(c) ==
  /\ call[c].pc = "connect"
  /\ Put(call[c].name, "Unavailable", 0)
  /\ call' = [call EXCEPT ![c] = AfterConnectError(c)]
  /\ UNCHANGED <<probed, sessionVars, failed>>

-----------------------------------------------------------------------------
(***************************************************************************)
(* query_with_optional_timeout and handle_query_error.                     *)
(***************************************************************************)

\* execute_query refuses anything but SELECT and EXPLAIN, client in hand.
Reject(c) ==
  /\ call[c].pc = IF call[c].ms THEN "set" ELSE "query"
  /\ call[c].left = 1
  /\ call' = [call EXCEPT ![c] = Idle]
  /\ UNCHANGED <<entry, probed, sessionVars, failed>>

\* What can come of a query, or of a SET, in session s: the timeout in force
\* there cancels either.
QueryResult(s) ==
  IF s \notin live THEN {"conn"}
  ELSE {"none", "db"} \cup (IF timeout[s] # "default" THEN {"timeout"} ELSE {})

\* SET statement_timeout: its failure ends the call before the query.
SetTimeout(c) ==
  LET s == call[c].sess IN
  /\ call[c].pc = "set"
  /\ \/ /\ "none" \in QueryResult(s)
        /\ timeout' = [timeout EXCEPT ![s] = c]
        /\ unreset' = unreset \ {s}
        /\ call' = [call EXCEPT ![c].pc = "query"]
     \/ /\ \E e \in QueryResult(s) \ {"none"} :
             call' = [call EXCEPT ![c].pc = "handle", ![c].err = e]
        /\ UNCHANGED <<timeout, unreset>>
  /\ UNCHANGED <<entry, probed, opened, live, aged, applied, failed>>

\* Mutant: an error returns at once, before the timeout is reset.
AfterQuery_NoReset(c, e) ==
  IF e = "none" /\ call[c].left > 1 THEN [call[c] EXCEPT !.left = @ - 1]
  ELSE IF e # "none" THEN [call[c] EXCEPT !.err = e, !.pc = "handle"]
  ELSE IF call[c].ms THEN [call[c] EXCEPT !.err = e, !.pc = "reset"]
  ELSE Idle

\* What follows a query: the next one, the reset, the error or the end.
AfterQuery(c, e) ==
  IF e = "none" /\ call[c].left > 1 THEN [call[c] EXCEPT !.left = @ - 1]
  ELSE IF call[c].ms THEN [call[c] EXCEPT !.err = e, !.pc = "reset"]
  ELSE IF e # "none" THEN [call[c] EXCEPT !.err = e, !.pc = "handle"]
  ELSE Idle

Query(c) ==
  /\ call[c].pc = "query"
  /\ \E e \in QueryResult(call[c].sess) : call' = [call EXCEPT ![c] = AfterQuery(c, e)]
  /\ UNCHANGED <<entry, probed, sessionVars, failed>>

\* SET statement_timeout=DEFAULT, its failure ignored: it runs under the very
\* timeout it is to undo, and the server may cancel or refuse it.
ResetTimeout(c) ==
  LET s == call[c].sess IN
  /\ call[c].pc = "reset"
  /\ \/ /\ "none" \in QueryResult(s)
        /\ timeout' = [timeout EXCEPT ![s] = "default"]
        /\ unreset' = unreset \ {s}
     \/ /\ unreset' = IF timeout[s] = c THEN unreset \cup {s} ELSE unreset
        /\ UNCHANGED timeout
  /\ call' = [call EXCEPT ![c] = IF @.err = "none" THEN Idle ELSE [@ EXCEPT !.pc = "handle"]]
  /\ UNCHANGED <<entry, probed, opened, live, aged, applied, failed>>

\* Mutant: a statement timeout always keeps the connection.
GivesUp_KeepOnTimeout(e) == e = "conn"

\* The errors after which the connection is given up.
GivesUp(e) == e = "conn" \/ (e = "timeout" /\ TimeoutAction = "disconnect")

\* History: the errors that leave the session unfit for the next call.
Unfit(e) == e = "conn" \/ (e = "timeout" /\ TimeoutAction = "disconnect")

\* handle_query_error, with downgrade_on_error: a Connected entry goes back to
\* Connecting, whichever session it holds by now.
HandleError(c) ==
  LET n == call[c].name IN
  /\ call[c].pc = "handle"
  /\ IF GivesUp(call[c].err) /\ entry[n].st = "Connected"
       THEN Put(n, "Connecting", 0) ELSE UNCHANGED entry
  /\ failed' = IF Unfit(call[c].err) THEN failed \cup {call[c].sess} ELSE failed
  /\ call' = [call EXCEPT ![c] = Idle]
  /\ UNCHANGED <<probed, sessionVars>>

-----------------------------------------------------------------------------
\* The server or the network closes a session, or its last Arc is dropped;
\* its settings go with it.
SessionEnds(s) ==
  /\ s \in live
  /\ live' = live \ {s} /\ aged' = aged \ {s} /\ applied' = applied \ {s}
  /\ unreset' = unreset \ {s}
  /\ timeout' = [timeout EXCEPT ![s] = "default"]
  /\ UNCHANGED <<entry, call, probed, opened, failed>>

\* connection_max_lifetime passes for a session in the pool.
SessionAges(s) ==
  /\ HasLifetime /\ s \in live \ aged
  /\ \E n \in Names : entry[n].sess = s
  /\ aged' = aged \cup {s}
  /\ UNCHANGED <<entry, call, probed, opened, live, timeout, applied, unreset, failed>>

Step(c) ==
  \/ Resolve(c) \/ Connect(c) \/ ConnectFails(c) \/ ApplyTimeout(c) \/ Install(c)
  \/ Reject(c) \/ SetTimeout(c) \/ Query(c) \/ ResetTimeout(c) \/ HandleError(c)

Next ==
  \/ \E c \in Callers :
       \/ \E n \in Names, ms \in BOOLEAN, left \in 1 .. MaxQueries : BeginTool(c, n, ms, left)
       \/ TryConnect(c)
       \/ Step(c)
  \/ \E s \in 1 .. MaxSessions : SessionEnds(s) \/ SessionAges(s)

Spec == Init /\ [][Next]_vars

-----------------------------------------------------------------------------
(***************************************************************************)
(* Properties.                                                             *)
(***************************************************************************)

\* Every variable has its type: only a Connected entry has a session, a call
\* past its connect has one, the probe makes no query and a tool has one left.
TypeOK ==
  /\ entry \in [Names -> Entry]
  /\ call \in [Callers -> Call]
  /\ \A c \in Callers :
       call[c].pc \in {"apply", "install", "set", "query", "reset", "handle"} => call[c].sess # 0
  /\ \A c \in Callers : call[c].pc # "idle" =>
       IF call[c].probe THEN call[c].pc \in {"connect", "apply", "install"}
                        ELSE call[c].left > 0
  /\ probed \in BOOLEAN
  /\ opened \in Seq(Names) /\ Len(opened) <= MaxSessions
  /\ live \in SUBSET (1 .. Len(opened))
  /\ aged \in SUBSET Session
  /\ timeout \in [Session -> Timeout]
  /\ applied \in SUBSET Session
  /\ unreset \in SUBSET Session
  /\ failed \in SUBSET Session

\* A tool works in a session of the connection it was asked for, and an entry
\* holds a session of its own name, however connects overtake one another.
RightDatabase ==
  /\ \A c \in Callers : call[c].sess # 0 => opened[call[c].sess] = call[c].name
  /\ \A n \in Names : entry[n].st = "Connected" => opened[entry[n].sess] = n

\* "so the next tool call will reconnect automatically": a session a call has
\* given up, for a lost connection or a timeout with action=disconnect, is out
\* of the pool for good.
FailedNotPooled == \A n \in Names : entry[n].sess \notin failed

\* "Best-effort reset": the timeout_ms of a call is in force in a session only
\* while that call is at its query or its reset there, or after the server let
\* that reset fail; no rejection, query error, failed SET, lost connection or
\* overlapping call leaves it behind.  "For this query only" is thus more than
\* the code gives: the result of the reset is dropped, nothing repeats it, and
\* the session stays in the pool with that timeout (unreset).
TimeoutNotLeaked ==
  \A s \in Session, c \in Callers : timeout[s] = c =>
    \/ call[c].sess = s /\ call[c].pc \in {"query", "reset"}
    \/ s \in unreset

\* "Overrides the connection's global statement_timeout for this query only":
\* a query without timeout_ms runs under the timeout set at connect.
ConfiguredTimeoutKept ==
  \A c \in Callers :
    call[c].pc = "query" /\ ~call[c].ms /\ call[c].sess \in live \cap applied
      => timeout[call[c].sess] = "config"
=============================================================================
