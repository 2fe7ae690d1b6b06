--------------------------- MODULE McpPoolProofs ----------------------------
(***************************************************************************)
(* Proofs about McpPool for any number of connections, calls and sessions. *)
(***************************************************************************)
EXTENDS McpPool, TLAPS

\* A session that a call has opened and not yet installed is in that call's
\* hands only: no entry holds it, no other call has it, and none gave it up.
FreshUnshared ==
  \A c \in Callers : call[c].pc \in {"apply", "install"} =>
    /\ call[c].sess \notin failed
    /\ \A n \in Names : entry[n].sess # call[c].sess
    /\ \A d \in Callers \ {c} : call[d].sess # call[c].sess

\* Only sessions that were opened are in use or given up.
OnlyOpened ==
  /\ \A c \in Callers : call[c].sess \in 0 .. Len(opened)
  /\ \A n \in Names : entry[n].sess \in 0 .. Len(opened)
  /\ failed \subseteq 1 .. Len(opened)

\* The inductive invariant.
PoolInv == TypeOK /\ OnlyOpened /\ RightDatabase /\ FailedNotPooled /\ FreshUnshared

-----------------------------------------------------------------------------
\* A well-typed call: what TypeOK says of each.
CallOK(k) ==
  /\ k \in Call
  /\ k.pc \in {"apply", "install", "set", "query", "reset", "handle"} => k.sess # 0
  /\ k.pc # "idle" =>
       IF k.probe THEN k.pc \in {"connect", "apply", "install"} ELSE k.left > 0

\* A step that changes one call, and nothing else but well-typed parts, keeps
\* the state well typed.
LEMMA CallType ==
  ASSUME TypeOK, NEW c \in Callers, NEW k, CallOK(k), call' = [call EXCEPT ![c] = k],
         entry' \in [Names -> Entry], probed' \in BOOLEAN,
         opened' \in Seq(Names), Len(opened') <= MaxSessions,
         live' \in SUBSET (1 .. Len(opened')), aged' \in SUBSET Session,
         timeout' \in [Session -> Timeout], applied' \in SUBSET Session,
         unreset' \in SUBSET Session, failed' \in SUBSET Session
  PROVE  TypeOK'
<1>1. call' \in [Callers -> Call] /\ \A d \in Callers : CallOK(call'[d])
  BY DEF TypeOK, CallOK
<1> QED BY <1>1 DEF TypeOK, CallOK

\* An entry put by Put is an Entry.
LEMMA PutType ==
  ASSUME TypeOK, NEW n \in Names, NEW st, NEW s, Put(n, st, s),
         \/ st \in {"Connecting", "Unavailable"} /\ s = 0
         \/ st = "Connected" /\ s \in Session
  PROVE  entry' \in [Names -> Entry]
BY DEF TypeOK, Put, Entry

\* What a call is once it has a client.
LEMMA WithClientOK ==
  ASSUME NEW k \in Call, NEW s \in Session, k.left > 0, ~k.probe
  PROVE  CallOK(WithClient(k, s))
<1>1. s \in 0 .. MaxSessions /\ s # 0
  BY PoolAssumption DEF Session
<1>2. CASE k.ms
  <2>1. WithClient(k, s) = [k EXCEPT !.sess = s, !.pc = "set"]
    BY <1>2 DEF WithClient
  <2> QED BY <1>1, <2>1 DEF CallOK, Call, Phase
<1>3. CASE ~k.ms
  <2>1. WithClient(k, s) = [k EXCEPT !.sess = s, !.pc = "query"]
    BY <1>3 DEF WithClient
  <2> QED BY <1>1, <2>1 DEF CallOK, Call, Phase
<1> QED BY <1>2, <1>3

\* An idle call is well typed.
LEMMA IdleOK == CallOK(Idle) /\ Idle \in Call /\ Idle.probe = FALSE /\ Idle.pc = "idle"
BY PoolAssumption DEF CallOK, Idle, Call, Phase

\* The initial state is well typed.
LEMMA InitType == Init => TypeOK
<1> SUFFICES ASSUME Init PROVE TypeOK
  OBVIOUS
<1>1. entry \in [Names -> Entry]
  BY DEF Init, Entry
<1>2. call \in [Callers -> Call] /\ \A c \in Callers : CallOK(call[c])
  BY IdleOK DEF Init, CallOK
<1>3. timeout \in [Session -> Timeout]
  BY DEF Init, Timeout
<1>4. opened \in Seq(Names) /\ Len(opened) <= MaxSessions /\ live \in SUBSET (1 .. Len(opened))
  BY PoolAssumption DEF Init
<1>5. probed \in BOOLEAN /\ aged \in SUBSET Session /\ applied \in SUBSET Session
        /\ unreset \in SUBSET Session /\ failed \in SUBSET Session
  BY DEF Init
<1> QED BY <1>1, <1>2, <1>3, <1>4, <1>5 DEF TypeOK, CallOK

-----------------------------------------------------------------------------
\* get_client_for keeps the state well typed.
LEMMA GetClientType ==
  ASSUME TypeOK, NEW c \in Callers, NEW k \in Call, k.left > 0, ~k.probe,
         GetClient(c, k), UNCHANGED <<probed, sessionVars, failed>>
  PROVE  TypeOK'
<1> DEFINE n == k.name
<1>0. n \in Names /\ entry[n] \in Entry
  BY DEF TypeOK, Call
<1>1. CASE /\ entry[n].st = "Connected"
           /\ call' = [call EXCEPT ![c] = WithClient(k, entry[n].sess)]
           /\ UNCHANGED entry
  <2>1. entry[n].sess \in Session
    BY <1>0, <1>1 DEF Entry
  <2> QED BY <1>1, <2>1, WithClientOK, CallType DEF TypeOK, sessionVars
<1>2. ASSUME NEW pc \in {"connect", "resolve"},
             call' = [call EXCEPT ![c] = [k EXCEPT !.pc = pc]],
             UNCHANGED entry \/ Put(n, "Connecting", 0)
      PROVE  TypeOK'
  <2>1. CallOK([k EXCEPT !.pc = pc])
    BY DEF CallOK, Call, Phase
  <2>2. entry' \in [Names -> Entry]
    BY <1>0, <1>2, PutType DEF TypeOK
  <2> QED BY <1>2, <2>1, <2>2, CallType DEF TypeOK, sessionVars
<1> QED BY <1>1, <1>2 DEF GetClient

\* A tool or the probe that begins keeps the state well typed.
LEMMA BeginType ==
  ASSUME TypeOK, NEW c \in Callers,
         \/ \E n \in Names, ms \in BOOLEAN, left \in 1 .. MaxQueries : BeginTool(c, n, ms, left)
         \/ TryConnect(c)
  PROVE  TypeOK'
<1>1. ASSUME NEW n \in Names, NEW ms \in BOOLEAN, NEW left \in 1 .. MaxQueries,
             BeginTool(c, n, ms, left)
      PROVE  TypeOK'
  <2> DEFINE k == [Idle EXCEPT !.name = n, !.ms = ms, !.left = left]
  <2>0. left \in 0 .. MaxQueries /\ left > 0
    BY PoolAssumption
  <2>1. k \in Call /\ k.left > 0 /\ ~k.probe
    <3>1. k \in Call
      BY IdleOK, <2>0 DEF Call
    <3>2. k.left = left /\ k.probe = FALSE
      BY IdleOK DEF Call
    <3> QED BY <2>0, <3>1, <3>2
  <2> HIDE DEF k
  <2>2. GetClient(c, k) /\ UNCHANGED <<probed, sessionVars, failed>>
    BY <1>1 DEF BeginTool, k
  <2> QED BY <2>1, <2>2, GetClientType
<1>2. CASE TryConnect(c)
  <2>1. CallOK([Idle EXCEPT !.probe = TRUE, !.pc = "connect"])
    BY IdleOK DEF CallOK, Call, Phase
  <2>2. CASE entry[Default].st = "Connecting"
    BY <1>2, <2>1, <2>2, CallType DEF TryConnect, TypeOK, sessionVars
  <2>3. CASE entry[Default].st # "Connecting"
    BY <1>2, <2>3 DEF TryConnect, TypeOK, sessionVars
  <2> QED BY <2>2, <2>3
<1> QED BY <1>1, <1>2

\* The call that makes a step is well typed.
LEMMA CallerOK ==
  ASSUME TypeOK, NEW c \in Callers
  PROVE  CallOK(call[c]) /\ call[c].name \in Names /\ call[c].sess \in 0 .. MaxSessions
BY DEF TypeOK, CallOK, Call

\* The way to a connection keeps the state well typed.
LEMMA ConnectType ==
  ASSUME TypeOK, NEW c \in Callers,
         Resolve(c) \/ Connect(c) \/ ConnectFails(c) \/ ApplyTimeout(c) \/ Install(c)
  PROVE  TypeOK'
<1> USE CallerOK
<1>1. CASE Resolve(c)
  <2>1. CASE call' = [call EXCEPT ![c].pc = "connect"]
    <3>1. CallOK([call[c] EXCEPT !.pc = "connect"])
      BY <1>1 DEF Resolve, CallOK, Call, Phase
    <3>2. call' = [call EXCEPT ![c] = [call[c] EXCEPT !.pc = "connect"]]
      BY <2>1
    <3> QED BY <1>1, <3>1, <3>2, CallType DEF Resolve, TypeOK, sessionVars
  <2>2. CASE call' = [call EXCEPT ![c] = Idle]
    BY <1>1, <2>2, IdleOK, CallType DEF Resolve, TypeOK, sessionVars
  <2> QED BY <1>1, <2>1, <2>2 DEF Resolve
<1>2. CASE Connect(c)
  <2> DEFINE s == Len(opened) + 1
             k == [call[c] EXCEPT !.sess = s, !.pc = IF HasTimeout THEN "apply" ELSE "install"]
  <2>1. s \in Session /\ s # 0 /\ s \in 0 .. MaxSessions
    BY <1>2 DEF Connect, TypeOK, Session
  <2>2. CallOK(k)
    BY <1>2, <2>1 DEF Connect, CallOK, Call, Phase
  <2>3. call' = [call EXCEPT ![c] = k]
    BY <1>2 DEF Connect, TypeOK
  <2>4. opened' \in Seq(Names) /\ Len(opened') = Len(opened) + 1 /\ Len(opened') <= MaxSessions
    BY <1>2, <2>1 DEF Connect, TypeOK, Session
  <2>5. live' \in SUBSET (1 .. Len(opened'))
    BY <1>2, <2>4 DEF Connect, TypeOK
  <2> HIDE DEF k
  <2> QED BY <1>2, <2>2, <2>3, <2>4, <2>5, CallType DEF Connect, TypeOK
<1>3. CASE ConnectFails(c)
  <2>1. entry' \in [Names -> Entry]
    BY <1>3, PutType DEF ConnectFails
  <2> QED BY <1>3, <2>1, IdleOK, CallType DEF ConnectFails, AfterConnectError, TypeOK, sessionVars
<1>4. CASE ApplyTimeout(c)
  <2>1. CallOK([call[c] EXCEPT !.pc = "install"])
    BY <1>4 DEF ApplyTimeout, CallOK, Call, Phase
  <2>2. call' = [call EXCEPT ![c] = [call[c] EXCEPT !.pc = "install"]]
    BY <1>4 DEF ApplyTimeout
  <2>3. call[c].sess \in Session
    BY <1>4 DEF ApplyTimeout, CallOK, Session
  <2>4. timeout' \in [Session -> Timeout] /\ applied' \in SUBSET Session
    BY <1>4, <2>3 DEF ApplyTimeout, TypeOK, Timeout
  <2> QED BY <1>4, <2>1, <2>2, <2>4, CallType DEF ApplyTimeout, TypeOK
<1>5. CASE Install(c)
  <2>1. call[c].sess \in Session
    BY <1>5 DEF Install, CallOK, Session
  <2>2. entry' \in [Names -> Entry]
    BY <1>5, <2>1, PutType DEF Install, InstallName
  <2>4. CASE call[c].probe
    BY <1>5, <2>2, <2>4, IdleOK, CallType DEF Install, TypeOK, sessionVars
  <2>5. CASE ~call[c].probe
    <3>1. CallOK(WithClient(call[c], call[c].sess))
      BY <1>5, <2>1, <2>5, WithClientOK DEF Install, CallOK
    <3>2. call' = [call EXCEPT ![c] = WithClient(call[c], call[c].sess)]
      BY <1>5, <2>5 DEF Install, WithClient
    <3> QED BY <1>5, <2>2, <3>1, <3>2, CallType DEF Install, TypeOK, sessionVars
  <2> QED BY <2>4, <2>5
<1> QED BY <1>1, <1>2, <1>3, <1>4, <1>5

\* The queries of a tool keep the state well typed.
LEMMA QueryType ==
  ASSUME TypeOK, NEW c \in Callers,
         Reject(c) \/ SetTimeout(c) \/ Query(c) \/ ResetTimeout(c) \/ HandleError(c)
  PROVE  TypeOK'
<1> USE CallerOK
<1>1. CASE Reject(c)
  BY <1>1, IdleOK, CallType DEF Reject, TypeOK, sessionVars
<1>2. CASE SetTimeout(c)
  <2>1. call[c].sess \in Session
    BY <1>2 DEF SetTimeout, CallOK, Session
  <2>2. timeout' \in [Session -> Timeout] /\ unreset' \in SUBSET Session
    BY <1>2, <2>1 DEF SetTimeout, TypeOK, Timeout
  <2>3. CASE call' = [call EXCEPT ![c].pc = "query"]
    <3>1. CallOK([call[c] EXCEPT !.pc = "query"])
      BY <1>2 DEF SetTimeout, CallOK, Call, Phase
    <3>2. call' = [call EXCEPT ![c] = [call[c] EXCEPT !.pc = "query"]]
      BY <2>3
    <3> QED BY <1>2, <2>2, <3>1, <3>2, CallType DEF SetTimeout, TypeOK
  <2>4. ASSUME NEW e \in QueryResult(call[c].sess),
               call' = [call EXCEPT ![c].pc = "handle", ![c].err = e]
        PROVE  TypeOK'
    <3>1. e \in {"none", "db", "timeout", "conn"}
      BY DEF QueryResult
    <3>2. CallOK([call[c] EXCEPT !.pc = "handle", !.err = e])
      BY <1>2, <3>1 DEF SetTimeout, CallOK, Call, Phase
    <3>3. call' = [call EXCEPT ![c] = [call[c] EXCEPT !.pc = "handle", !.err = e]]
      BY <2>4 DEF TypeOK
    <3> QED BY <1>2, <2>2, <3>2, <3>3, CallType DEF SetTimeout, TypeOK
  <2> QED BY <1>2, <2>3, <2>4 DEF SetTimeout
<1>3. CASE Query(c)
  <2>1. PICK e \in QueryResult(call[c].sess) : call' = [call EXCEPT ![c] = AfterQuery(c, e)]
    BY <1>3 DEF Query
  <2>2. e \in {"none", "db", "timeout", "conn"}
    BY DEF QueryResult
  <2>3. CallOK(AfterQuery(c, e))
    <3>1. CASE e = "none" /\ call[c].left > 1
      <4>1. AfterQuery(c, e) = [call[c] EXCEPT !.left = call[c].left - 1]
        BY <3>1 DEF AfterQuery
      <4>2. call[c].left - 1 \in 0 .. MaxQueries /\ call[c].left - 1 > 0
        BY <3>1, PoolAssumption DEF CallOK, Call
      <4>3. call[c].pc = "query" /\ call[c].sess # 0 /\ ~call[c].probe /\ call[c] \in Call
        BY <1>3 DEF Query, CallOK
      <4> QED BY <4>1, <4>2, <4>3 DEF CallOK, Call
    <3>2. CASE ~(e = "none" /\ call[c].left > 1) /\ call[c].ms
      BY <1>3, <2>2, <3>2 DEF Query, AfterQuery, CallOK, Call, Phase
    <3>3. CASE ~(e = "none" /\ call[c].left > 1) /\ ~call[c].ms /\ e # "none"
      BY <1>3, <2>2, <3>3 DEF Query, AfterQuery, CallOK, Call, Phase
    <3>4. CASE ~(e = "none" /\ call[c].left > 1) /\ ~call[c].ms /\ e = "none"
      BY <3>4, IdleOK DEF AfterQuery
    <3> QED BY <3>1, <3>2, <3>3, <3>4
  <2> QED BY <1>3, <2>1, <2>3, CallType DEF Query, TypeOK, sessionVars
<1>4. CASE ResetTimeout(c)
  <2>1. call[c].sess \in Session
    BY <1>4 DEF ResetTimeout, CallOK, Session
  <2>2. timeout' \in [Session -> Timeout] /\ unreset' \in SUBSET Session
    BY <1>4, <2>1 DEF ResetTimeout, TypeOK, Timeout
  <2>3. CASE call[c].err = "none"
    BY <1>4, <2>2, <2>3, IdleOK, CallType DEF ResetTimeout, TypeOK
  <2>4. CASE call[c].err # "none"
    <3>1. CallOK([call[c] EXCEPT !.pc = "handle"])
      BY <1>4 DEF ResetTimeout, CallOK, Call, Phase
    <3>2. call' = [call EXCEPT ![c] = [call[c] EXCEPT !.pc = "handle"]]
      BY <1>4, <2>4 DEF ResetTimeout
    <3> QED BY <1>4, <2>2, <3>1, <3>2, CallType DEF ResetTimeout, TypeOK
  <2> QED BY <2>3, <2>4
<1>5. CASE HandleError(c)
  <2>1. entry' \in [Names -> Entry]
    BY <1>5, PutType DEF HandleError, TypeOK
  <2>2. failed' \in SUBSET Session
    <3>1. call[c].sess \in Session
      BY <1>5 DEF HandleError, CallOK, Session
    <3>2. failed' \subseteq failed \cup {call[c].sess}
      BY <1>5 DEF HandleError
    <3> QED BY <3>1, <3>2 DEF TypeOK
  <2> QED BY <1>5, <2>1, <2>2, IdleOK, CallType DEF HandleError, TypeOK, sessionVars
<1> QED BY <1>1, <1>2, <1>3, <1>4, <1>5

\* Sessions that end or age keep the state well typed.
LEMMA SessionType ==
  ASSUME TypeOK, NEW s \in Session, SessionEnds(s) \/ SessionAges(s)
  PROVE  TypeOK'
<1>1. entry' = entry /\ call' = call /\ probed' = probed /\ opened' = opened
        /\ failed' = failed
  BY DEF SessionEnds, SessionAges
<1>2. timeout' \in [Session -> Timeout] /\ aged' \in SUBSET Session
        /\ applied' \in SUBSET Session /\ unreset' \in SUBSET Session
        /\ live' \in SUBSET (1 .. Len(opened))
  BY DEF SessionEnds, SessionAges, TypeOK, Timeout
<1> QED BY <1>1, <1>2 DEF TypeOK

\* Every step keeps the state well typed.
LEMMA NextType == TypeOK /\ [Next]_vars => TypeOK'
<1> SUFFICES ASSUME TypeOK, [Next]_vars PROVE TypeOK'
  OBVIOUS
<1>1. CASE UNCHANGED vars
  BY <1>1 DEF vars, sessionVars, TypeOK
<1> QED BY <1>1, BeginType, ConnectType, QueryType, SessionType DEF Next, Step, Session

-----------------------------------------------------------------------------
(***************************************************************************)
(* The rest of the invariant.  A step of call c either leaves c with the   *)
(* session it had, lets it go, takes the one of the entry, or opens one.   *)
(***************************************************************************)
RestInv == OnlyOpened /\ RightDatabase /\ FailedNotPooled /\ FreshUnshared

\* Entries stay as they are or lose their session.
EntriesShrink ==
  \A n \in Names : entry'[n] = entry[n] \/ (entry'[n].sess = 0 /\ entry'[n].st # "Connected")

\* Call c goes on as k with no new session.
LEMMA Continue ==
  ASSUME PoolInv, NEW c \in Callers, NEW k \in Call,
         call' = [call EXCEPT ![c] = k], UNCHANGED <<opened, failed>>, EntriesShrink,
         \/ k.sess = 0 /\ k.pc \notin {"apply", "install"}
         \/ /\ k.sess = call[c].sess /\ k.name = call[c].name
            /\ k.pc \in {"apply", "install"} => call[c].pc \in {"apply", "install"}
         \/ /\ entry[k.name].st = "Connected" /\ k.sess = entry[k.name].sess
            /\ k.pc \notin {"apply", "install"}
  PROVE  RestInv'
<1> USE DEF PoolInv, TypeOK
<1>1. \A d \in Callers : call'[d] = IF d = c THEN k ELSE call[d]
  OBVIOUS
<1>2. k.name \in Names
  BY DEF Call
<1>0. 0 \in 0 .. Len(opened) /\ 0 \notin failed
  BY DEF OnlyOpened
<1>9. \A n \in Names : entry'[n].sess \in {0, entry[n].sess}
  BY DEF EntriesShrink
<1>3. OnlyOpened'
  BY <1>0, <1>1, <1>2, <1>9 DEF OnlyOpened
<1>4. RightDatabase'
  BY <1>1, <1>2 DEF RightDatabase, EntriesShrink
<1>5. FailedNotPooled'
  BY <1>0, <1>9 DEF FailedNotPooled
<1>6. FreshUnshared'
  <2> SUFFICES ASSUME NEW d \in Callers, call'[d].pc \in {"apply", "install"}
               PROVE  /\ call'[d].sess \notin failed
                      /\ \A n \in Names : entry'[n].sess # call'[d].sess
                      /\ \A e \in Callers \ {d} : call'[e].sess # call'[d].sess
    BY DEF FreshUnshared
  <2>1. call[d].pc \in {"apply", "install"} /\ call'[d].sess = call[d].sess
    BY <1>1
  <2>2. call[d].sess # 0
    BY <2>1
  <2> QED BY <1>1, <1>2, <2>1, <2>2 DEF FreshUnshared, EntriesShrink
<1> QED BY <1>3, <1>4, <1>5, <1>6 DEF RestInv

\* Put with no session only takes one away.
LEMMA PutShrinks ==
  ASSUME TypeOK, UNCHANGED entry \/ \E n \in Names, st \in {"Connecting", "Unavailable"} : Put(n, st, 0)
  PROVE  EntriesShrink
BY DEF EntriesShrink, Put, TypeOK

\* A call that begins.
LEMMA BeginInv ==
  ASSUME PoolInv, NEW c \in Callers,
         \/ \E n \in Names, ms \in BOOLEAN, left \in 1 .. MaxQueries : BeginTool(c, n, ms, left)
         \/ TryConnect(c)
  PROVE  RestInv'
<1> USE DEF PoolInv
<1>1. ASSUME NEW n \in Names, NEW ms \in BOOLEAN, NEW left \in 1 .. MaxQueries,
             BeginTool(c, n, ms, left)
      PROVE  RestInv'
  <2> DEFINE k == [Idle EXCEPT !.name = n, !.ms = ms, !.left = left]
  <2>1. k \in Call /\ k.sess = 0 /\ k.name = n /\ k.pc = "idle"
    <3>1. left \in 0 .. MaxQueries /\ Idle.sess = 0
      BY DEF Idle
    <3> QED BY IdleOK, <3>1 DEF Call
  <2> HIDE DEF k
  <2>2. GetClient(c, k) /\ UNCHANGED <<opened, failed>>
    BY <1>1 DEF BeginTool, k, sessionVars
  <2>3. CASE /\ entry[n].st = "Connected" /\ UNCHANGED entry
             /\ call' = [call EXCEPT ![c] = WithClient(k, entry[n].sess)]
    <3> DEFINE w == WithClient(k, entry[n].sess)
    <3>1. entry[n].sess \in 0 .. MaxSessions
      BY <2>3, PoolAssumption DEF TypeOK, Entry, Session
    <3>2. w \in Call /\ w.name = n /\ w.sess = entry[n].sess /\ w.pc \in {"set", "query"}
      BY <2>1, <3>1 DEF WithClient, Call, Phase
    <3> HIDE DEF w
    <3> QED BY <2>2, <2>3, <3>2, PutShrinks, Continue DEF w
  <2>4. ASSUME NEW pc \in {"connect", "resolve"}, EntriesShrink,
               call' = [call EXCEPT ![c] = [k EXCEPT !.pc = pc]]
        PROVE  RestInv'
    <3>1. [k EXCEPT !.pc = pc] \in Call /\ [k EXCEPT !.pc = pc].sess = 0
            /\ [k EXCEPT !.pc = pc].pc = pc
      BY <2>1 DEF Call, Phase
    <3> QED BY <2>2, <2>4, <3>1, Continue
  <2> QED BY <2>1, <2>2, <2>3, <2>4, PutShrinks DEF GetClient
<1>2. CASE TryConnect(c)
  <2> DEFINE k == [Idle EXCEPT !.probe = TRUE, !.pc = "connect"]
  <2>1. k \in Call /\ k.sess = 0 /\ k.pc = "connect"
    <3>1. Idle.sess = 0
      BY DEF Idle
    <3> QED BY <3>1, IdleOK DEF Call, Phase
  <2>2. EntriesShrink /\ UNCHANGED <<entry, opened, failed>>
    BY <1>2, PutShrinks DEF TryConnect, sessionVars
  <2>3. CASE call' = [call EXCEPT ![c] = k]
    <3> HIDE DEF k
    <3> QED BY <2>1, <2>2, <2>3, Continue
  <2>4. CASE call' = call
    BY <2>2, <2>4 DEF RestInv, OnlyOpened, RightDatabase, FailedNotPooled, FreshUnshared
  <2> QED BY <1>2, <2>3, <2>4 DEF TryConnect
<1> QED BY <1>1, <1>2

\* A session opened is in nobody else's hands.
LEMMA ConnectInv ==
  ASSUME PoolInv, NEW c \in Callers, Connect(c)
  PROVE  RestInv'
<1> DEFINE s == Len(opened) + 1
<1> USE DEF PoolInv, TypeOK
<1>1. /\ s \in Session /\ opened' = Append(opened, call[c].name) /\ Len(opened') = s
      /\ UNCHANGED <<entry, failed>> /\ call[c].name \in Names
  BY DEF Connect, Call
<1>2. /\ call'[c].sess = s /\ call'[c].name = call[c].name
      /\ \A d \in Callers \ {c} : call'[d] = call[d]
  BY DEF Connect, Call
<1>3. \A i \in 1 .. Len(opened) : opened'[i] = opened[i]
  BY <1>1
<1>4. opened'[s] = call[c].name
  BY <1>1
<1>5. Len(opened) \in Nat
  OBVIOUS
<1> HIDE DEF s
<1>6. s = Len(opened) + 1
  BY DEF s
<1>7. OnlyOpened'
  <2>1. \A d \in Callers : call[d].sess \in 0 .. Len(opened)
    BY DEF OnlyOpened
  <2>2. \A d \in Callers : call'[d].sess \in 0 .. s
    BY <1>2, <1>5, <1>6, <2>1
  <2> QED BY <1>1, <2>2 DEF OnlyOpened
<1>8. RightDatabase'
  <2>1. \A d \in Callers : call'[d].sess # 0 => opened'[call'[d].sess] = call'[d].name
    BY <1>2, <1>3, <1>4, <1>5 DEF RightDatabase, OnlyOpened
  <2>2. \A n \in Names : entry[n].st = "Connected" => entry[n].sess \in 1 .. Len(opened)
    <3> SUFFICES ASSUME NEW n \in Names, entry[n].st = "Connected"
                 PROVE  entry[n].sess \in 1 .. Len(opened)
      OBVIOUS
    <3>1. entry[n] \in Entry /\ entry[n].sess \in 0 .. Len(opened)
      BY DEF OnlyOpened
    <3>2. entry[n].sess # 0
      BY <3>1 DEF Entry, Session
    <3> QED BY <1>5, <3>1, <3>2
  <2>3. \A n \in Names : entry[n].st = "Connected" => opened'[entry[n].sess] = n
    BY <1>3, <2>2 DEF RightDatabase
  <2> QED BY <1>1, <2>1, <2>3 DEF RightDatabase
<1>9. FailedNotPooled'
  BY <1>1 DEF FailedNotPooled
<1>10. FreshUnshared'
  <2>1. /\ s \notin failed /\ \A n \in Names : entry[n].sess # s
        /\ \A d \in Callers : call[d].sess # s
    BY <1>5, <1>6 DEF OnlyOpened
  <2> QED BY <1>1, <1>2, <2>1 DEF FreshUnshared
<1> QED BY <1>7, <1>8, <1>9, <1>10 DEF RestInv

\* A session installed goes from its call into the entry of its own name.
LEMMA InstallInv ==
  ASSUME PoolInv, NEW c \in Callers, Install(c)
  PROVE  RestInv'
<1> DEFINE s == call[c].sess
           n == call[c].name
<1> USE DEF PoolInv, TypeOK
<1>1. /\ call[c].pc = "install" /\ s \in 1 .. Len(opened) /\ n \in Names
      /\ UNCHANGED <<opened, failed>>
  BY DEF Install, OnlyOpened, Call, sessionVars
<1>2. /\ entry'[n].st = "Connected" /\ entry'[n].sess = s
      /\ \A m \in Names : m # n => entry'[m] = entry[m]
  BY <1>1 DEF Install, Put, InstallName
<1>3. /\ call'[c].sess \in {0, s}
      /\ (call'[c].sess # 0 => call'[c].name = n)
      /\ call'[c].pc \notin {"apply", "install"}
      /\ \A d \in Callers : d # c => call'[d] = call[d]
  BY <1>1 DEF Install, WithClient, Idle, Call
<1>4. opened[s] = n
  BY <1>1 DEF RightDatabase
<1> HIDE DEF s, n
<1>5. OnlyOpened'
  <2>0. {0, s} \subseteq 0 .. Len(opened)
    BY <1>1
  <2>1. \A d \in Callers : call'[d].sess \in 0 .. Len(opened)
    BY <1>3, <2>0 DEF OnlyOpened
  <2>2. \A m \in Names : entry'[m].sess \in 0 .. Len(opened)
    BY <1>2, <2>0 DEF OnlyOpened
  <2> QED BY <1>1, <2>1, <2>2 DEF OnlyOpened
<1>6. RightDatabase'
  <2>1. \A d \in Callers : call'[d].sess # 0 => opened[call'[d].sess] = call'[d].name
    BY <1>3, <1>4 DEF RightDatabase
  <2>2. \A m \in Names : entry'[m].st = "Connected" => opened[entry'[m].sess] = m
    BY <1>2, <1>4 DEF RightDatabase
  <2> QED BY <1>1, <2>1, <2>2 DEF RightDatabase
<1>7. s \notin failed /\ \A d \in Callers \ {c} : call[d].sess # s
  BY <1>1 DEF FreshUnshared, s
<1>8. FailedNotPooled'
  BY <1>1, <1>2, <1>7 DEF FailedNotPooled
<1>9. FreshUnshared'
  <2> SUFFICES ASSUME NEW d \in Callers, call'[d].pc \in {"apply", "install"}
               PROVE  /\ call'[d].sess \notin failed
                      /\ \A m \in Names : entry'[m].sess # call'[d].sess
                      /\ \A e \in Callers \ {d} : call'[e].sess # call'[d].sess
    BY <1>1 DEF FreshUnshared
  <2>1. d # c /\ call'[d] = call[d] /\ call[d].sess # 0
    BY <1>3
  <2>2. c \in Callers \ {d} /\ call'[c].sess # call[d].sess
    BY <1>3, <1>7, <2>1
  <2> QED BY <1>2, <1>3, <1>7, <2>1, <2>2 DEF FreshUnshared
<1> QED BY <1>5, <1>6, <1>8, <1>9 DEF RestInv

\* A session given up leaves its entry, the only one that can hold it.
LEMMA HandleInv ==
  ASSUME PoolInv, NEW c \in Callers, HandleError(c)
  PROVE  RestInv'
<1> DEFINE s == call[c].sess
           n == call[c].name
<1> USE DEF PoolInv, TypeOK
<1>1. /\ call[c].pc = "handle" /\ s \in 1 .. Len(opened) /\ n \in Names /\ opened[s] = n
      /\ UNCHANGED opened
  BY DEF HandleError, OnlyOpened, RightDatabase, Call, sessionVars
<1>2. call' = [call EXCEPT ![c] = Idle] /\ Idle \in Call /\ Idle.sess = 0 /\ Idle.pc = "idle"
  BY IdleOK DEF HandleError, Idle
<1>3. EntriesShrink
  BY <1>1, PutShrinks DEF HandleError
<1>4. CASE UNCHANGED failed
  BY <1>1, <1>2, <1>3, <1>4, Continue
<1>5. CASE failed' = failed \cup {s} /\ Unfit(call[c].err)
  <2>1. entry'[n].st # "Connected"
    BY <1>1, <1>5 DEF HandleError, Unfit, GivesUp, Put
  <2>2. entry'[n].sess = 0
    BY <1>1, <1>3, <2>1 DEF EntriesShrink, Entry
  <2>3. \A m \in Names : entry'[m].sess \in {0, entry[m].sess}
    BY <1>3 DEF EntriesShrink
  <2>4. \A m \in Names : entry'[m].sess # s
    <3> SUFFICES ASSUME NEW m \in Names, entry'[m].sess = s PROVE FALSE
      OBVIOUS
    <3>1. m # n /\ entry[m].sess = s
      BY <1>1, <2>2, <2>3
    <3>2. entry[m].st = "Connected"
      BY <1>1, <3>1 DEF Entry
    <3> QED BY <1>1, <3>1, <3>2 DEF RightDatabase
  <2>5. \A d \in Callers : call'[d] = IF d = c THEN Idle ELSE call[d]
    BY <1>2
  <2>6. 0 \notin failed' /\ 0 \in 0 .. Len(opened)
    BY <1>1, <1>5 DEF OnlyOpened
  <2> HIDE DEF s, n
  <2>7. OnlyOpened'
    BY <1>1, <1>2, <1>5, <2>3, <2>5, <2>6 DEF OnlyOpened
  <2>8. RightDatabase'
    BY <1>1, <1>2, <1>3, <2>5 DEF RightDatabase, EntriesShrink
  <2>9. FailedNotPooled'
    BY <1>5, <2>3, <2>4, <2>6 DEF FailedNotPooled
  <2>10. FreshUnshared'
    <3> SUFFICES ASSUME NEW d \in Callers, call'[d].pc \in {"apply", "install"}
                 PROVE  /\ call'[d].sess \notin failed'
                        /\ \A m \in Names : entry'[m].sess # call'[d].sess
                        /\ \A e \in Callers \ {d} : call'[e].sess # call'[d].sess
      BY DEF FreshUnshared
    <3>1. d # c /\ call'[d] = call[d] /\ call[d].sess # 0
      BY <1>2, <2>5
    <3>2. call[d].sess # s
      BY <3>1, <2>5 DEF FreshUnshared, s
    <3> QED BY <1>2, <1>5, <2>3, <2>5, <3>1, <3>2 DEF FreshUnshared
  <2> QED BY <2>7, <2>8, <2>9, <2>10 DEF RestInv
<1> QED BY <1>4, <1>5 DEF HandleError

\* A step of a call that opens no session and fills no entry keeps the session
\* of the call or drops it.
LEMMA StepInv ==
  ASSUME PoolInv, NEW c \in Callers, Step(c)
  PROVE  RestInv'
<1> DEFINE k == call'[c]
<1>0. call[c] \in Call /\ Idle.sess = 0 /\ Idle.pc = "idle" /\ call[c].name \in Names
  BY DEF PoolInv, Idle, TypeOK, Call
<1>1. TypeOK'
  BY NextType DEF PoolInv, Next
<1>2. k \in Call
  BY <1>1 DEF TypeOK
<1>3. ASSUME call' = [call EXCEPT ![c] = k], UNCHANGED <<opened, failed>>, EntriesShrink,
             \/ k.sess = 0 /\ k.pc \notin {"apply", "install"}
             \/ /\ k.sess = call[c].sess /\ k.name = call[c].name
                /\ k.pc \in {"apply", "install"} => call[c].pc \in {"apply", "install"}
      PROVE  RestInv'
  BY <1>2, <1>3, Continue
<1>4. ASSUME UNCHANGED entry PROVE EntriesShrink
  BY <1>4 DEF EntriesShrink
<1>5. CASE Resolve(c) \/ Reject(c)
  <2>1. /\ call' = [call EXCEPT ![c] = k] /\ UNCHANGED <<entry, opened, failed>>
        /\ \/ k = Idle
           \/ k = [call[c] EXCEPT !.pc = "connect"]
    BY <1>5 DEF Resolve, Reject, PoolInv, TypeOK, sessionVars
  <2> QED BY <1>0, <1>3, <1>4, <2>1 DEF Call
<1>6. CASE ConnectFails(c)
  <2>1. /\ call' = [call EXCEPT ![c] = k] /\ UNCHANGED <<opened, failed>> /\ k = Idle
    BY <1>6 DEF ConnectFails, AfterConnectError, PoolInv, TypeOK, sessionVars
  <2>2. EntriesShrink
    BY <1>0, <1>6, PutShrinks DEF ConnectFails, PoolInv
  <2> QED BY <1>0, <1>3, <2>1, <2>2
<1>7. CASE ApplyTimeout(c) \/ SetTimeout(c)
  <2>1. /\ call' = [call EXCEPT ![c] = k] /\ UNCHANGED <<entry, opened, failed>>
        /\ k.sess = call[c].sess /\ k.name = call[c].name
        /\ (k.pc \in {"apply", "install"} => call[c].pc = "apply")
    BY <1>0, <1>7 DEF ApplyTimeout, SetTimeout, PoolInv, TypeOK, Call
  <2> QED BY <1>3, <1>4, <2>1
<1>8. CASE Query(c) \/ ResetTimeout(c)
  <2>1. /\ call' = [call EXCEPT ![c] = k] /\ UNCHANGED <<entry, opened, failed>>
        /\ \/ k = Idle
           \/ /\ k.sess = call[c].sess /\ k.name = call[c].name
              /\ k.pc \notin {"apply", "install"}
    <3>1. CASE Query(c)
      <4>1. PICK e \in QueryResult(call[c].sess) : call' = [call EXCEPT ![c] = AfterQuery(c, e)]
        BY <3>1 DEF Query
      <4>2. call[c].pc = "query" /\ UNCHANGED <<entry, opened, failed>>
        BY <3>1 DEF Query, sessionVars
      <4>3. k = AfterQuery(c, e) /\ call' = [call EXCEPT ![c] = k]
        BY <4>1 DEF PoolInv, TypeOK
      <4> HIDE DEF k
      <4> QED BY <1>0, <4>2, <4>3 DEF AfterQuery, Call
    <3>2. CASE ResetTimeout(c)
      BY <1>0, <3>2 DEF ResetTimeout, PoolInv, TypeOK, Call
    <3> QED BY <1>8, <3>1, <3>2
  <2> QED BY <1>0, <1>3, <1>4, <2>1
<1> QED BY <1>5, <1>6, <1>7, <1>8, ConnectInv, InstallInv, HandleInv DEF Step

\* A session that ends or ages changes nothing the invariant speaks of.
LEMMA SessionInv ==
  ASSUME PoolInv, NEW s \in Session, SessionEnds(s) \/ SessionAges(s)
  PROVE  RestInv'
BY DEF PoolInv, RestInv, OnlyOpened, RightDatabase, FailedNotPooled, FreshUnshared,
       SessionEnds, SessionAges

-----------------------------------------------------------------------------
\* PoolInv holds at the start.
LEMMA InitInv == Init => PoolInv
<1> SUFFICES ASSUME Init PROVE PoolInv
  OBVIOUS
<1>1. /\ \A n \in Names : entry[n].sess = 0 /\ entry[n].st # "Connected"
      /\ \A c \in Callers : call[c].sess = 0 /\ call[c].pc = "idle"
      /\ opened = <<>> /\ failed = {}
  BY DEF Init, Idle
<1>2. OnlyOpened
  BY <1>1 DEF OnlyOpened
<1>3. RightDatabase /\ FailedNotPooled /\ FreshUnshared
  BY <1>1 DEF RightDatabase, FailedNotPooled, FreshUnshared
<1> QED BY InitType, <1>2, <1>3 DEF PoolInv

\* Every step keeps PoolInv.
LEMMA NextInv == PoolInv /\ [Next]_vars => PoolInv'
<1> SUFFICES ASSUME PoolInv, [Next]_vars PROVE PoolInv'
  OBVIOUS
<1>1. TypeOK'
  BY NextType DEF PoolInv
<1>2. CASE UNCHANGED vars
  BY <1>2 DEF vars, sessionVars, PoolInv, TypeOK, OnlyOpened, RightDatabase,
              FailedNotPooled, FreshUnshared
<1>3. CASE Next
  <2>1. RestInv'
    BY <1>3, BeginInv, StepInv, SessionInv DEF Next, Session
  <2> QED BY <1>1, <2>1 DEF PoolInv, RestInv
<1> QED BY <1>2, <1>3

\* In every behaviour of the server the pool and the calls are well typed:
\* only a Connected entry holds a session, a call past its connect has one.
THEOREM PoolTypeCorrect == Spec => []TypeOK
<1>1. Init => TypeOK
  BY InitType
<1>2. TypeOK /\ [Next]_vars => TypeOK'
  BY NextType
<1> QED BY <1>1, <1>2, PTL DEF Spec

\* Whatever the interleaving of tool calls, a tool queries a session of the
\* connection it named, and get_client_for finds in an entry a session of that
\* entry's name.
THEOREM PoolRightDatabase == Spec => []RightDatabase
<1>1. PoolInv => RightDatabase
  BY DEF PoolInv
<1> QED BY <1>1, InitInv, NextInv, PTL DEF Spec

\* A session that handle_query_error has given up never comes back into the
\* pool: a call that still holds it cannot put it there.
THEOREM PoolKeepsFailedOut == Spec => []FailedNotPooled
<1>1. PoolInv => FailedNotPooled
  BY DEF PoolInv
<1> QED BY <1>1, InitInv, NextInv, PTL DEF Spec

-----------------------------------------------------------------------------
(***************************************************************************)
(* What is left of a timeout.  What makes TimeoutNotLeaked inductive: a    *)
(* call that sets a timeout was given one, so that a reset follows, and    *)
(* the timeout of a closed session is nobody's, so that a reset which      *)
(* cannot reach the server has nothing to undo.                            *)
(***************************************************************************)
LeakInv ==
  /\ TypeOK
  /\ TimeoutNotLeaked
  /\ \A c \in Callers : call[c].pc = "set" => call[c].ms
  /\ \A s \in Session, c \in Callers :
       timeout[s] = c => s \in live /\ (s \in unreset \/ call[c].ms)

\* A step of call c that touches no timeout keeps LeakInv, if c holds none, goes
\* on to its reset, or has the failure of its reset noted.
LEMMA KeepTimeouts ==
  ASSUME LeakInv, TypeOK', NEW c \in Callers, NEW k, call' = [call EXCEPT ![c] = k],
         UNCHANGED timeout, unreset \subseteq unreset', live \subseteq live',
         k.pc = "set" => k.ms,
         \/ call[c].pc \notin {"query", "reset"} \/ ~call[c].ms
         \/ k.sess = call[c].sess /\ k.pc \in {"query", "reset"} /\ k.ms
         \/ \A r \in Session : r = call[c].sess /\ timeout[r] = c => r \in unreset'
  PROVE  LeakInv'
<1>1. \A d \in Callers : call'[d] = IF d = c THEN k ELSE call[d]
  BY DEF LeakInv, TypeOK
<1>2. \A r \in Session, d \in Callers : timeout[r] = d => r \in live'
  BY DEF LeakInv
<1>3. ASSUME NEW r \in Session, NEW d \in Callers, timeout[r] = d, r \notin unreset'
      PROVE  call'[d].sess = r /\ call'[d].pc \in {"query", "reset"} /\ call'[d].ms
  <2>1. call[d].sess = r /\ call[d].pc \in {"query", "reset"} /\ call[d].ms
    BY <1>3 DEF LeakInv, TimeoutNotLeaked
  <2> QED BY <1>1, <1>3, <2>1
<1>4. \A d \in Callers : call'[d].pc = "set" => call'[d].ms
  BY <1>1 DEF LeakInv
<1> QED BY <1>2, <1>3, <1>4 DEF LeakInv, TimeoutNotLeaked

\* The default and the configured timeout are no call's.
LEMMA NobodysTimeout == \A c \in Callers : c # "default" /\ c # "config"
BY PoolAssumption

\* A step of call c that sets the timeout of one session to t, and leaves the
\* call with k.
LEMMA ChangeTimeout ==
  ASSUME LeakInv, TypeOK', NEW c \in Callers, NEW k, call' = [call EXCEPT ![c] = k],
         NEW s \in Session, NEW t \in {"default", "config", c},
         timeout' = [timeout EXCEPT ![s] = t], unreset \subseteq unreset' \cup {s}, live' = live,
         t = c => s \in live /\ k.ms /\ k.sess = s /\ k.pc = "query",
         k.pc # "set", call[c].pc \in {"apply", "set"} \/ call[c].sess = s
  PROVE  LeakInv'
<1>1. \A d \in Callers : call'[d] = IF d = c THEN k ELSE call[d]
  BY DEF LeakInv, TypeOK
<1>2. \A r \in Session : timeout'[r] = IF r = s THEN t ELSE timeout[r]
  BY DEF LeakInv, TypeOK
<1>3. \A r \in Session : r # s /\ timeout[r] = c => r \in unreset
  BY DEF LeakInv, TimeoutNotLeaked
<1>4. \A r \in Session, d \in Callers : timeout'[r] = d => r \in live'
  BY <1>2, NobodysTimeout DEF LeakInv
<1>5. ASSUME NEW r \in Session, NEW d \in Callers, timeout'[r] = d, r \notin unreset'
      PROVE  call'[d].sess = r /\ call'[d].pc \in {"query", "reset"} /\ call'[d].ms
  <2>1. CASE r = s
    BY <1>1, <1>2, <1>5, <2>1, NobodysTimeout
  <2>2. CASE r # s
    <3>1. timeout[r] = d /\ r \notin unreset
      BY <1>2, <1>5, <2>2
    <3>2. d # c /\ call[d].sess = r /\ call[d].pc \in {"query", "reset"} /\ call[d].ms
      BY <1>3, <2>2, <3>1 DEF LeakInv, TimeoutNotLeaked
    <3> QED BY <1>1, <3>2
  <2> QED BY <2>1, <2>2
<1>6. \A d \in Callers : call'[d].pc = "set" => call'[d].ms
  BY <1>1 DEF LeakInv
<1> QED BY <1>4, <1>5, <1>6 DEF LeakInv, TimeoutNotLeaked

\* A call that begins holds no timeout.
LEMMA BeginLeak ==
  ASSUME LeakInv, TypeOK', NEW c \in Callers,
         \/ \E n \in Names, ms \in BOOLEAN, left \in 1 .. MaxQueries : BeginTool(c, n, ms, left)
         \/ TryConnect(c)
  PROVE  LeakInv'
<1>1. ASSUME NEW n \in Names, NEW ms \in BOOLEAN, NEW left \in 1 .. MaxQueries,
             BeginTool(c, n, ms, left)
      PROVE  LeakInv'
  <2> DEFINE k == [Idle EXCEPT !.name = n, !.ms = ms, !.left = left]
  <2>1. /\ call[c].pc = "idle" /\ UNCHANGED <<timeout, live, unreset>>
        /\ \/ call' = [call EXCEPT ![c] = WithClient(k, entry[n].sess)]
           \/ \E pc \in {"connect", "resolve"} : call' = [call EXCEPT ![c] = [k EXCEPT !.pc = pc]]
    BY <1>1 DEF BeginTool, GetClient, sessionVars, Idle
  <2>2. WithClient(k, entry[n].sess).pc = "set" => WithClient(k, entry[n].sess).ms
    BY DEF WithClient, Idle
  <2>3. \A pc \in {"connect", "resolve"} : [k EXCEPT !.pc = pc].pc # "set"
    BY DEF Idle
  <2> HIDE DEF k
  <2> QED BY <2>1, <2>2, <2>3, KeepTimeouts
<1>2. CASE TryConnect(c)
  <2> DEFINE k == [Idle EXCEPT !.probe = TRUE, !.pc = "connect"]
  <2>1. k.pc # "set"
    BY DEF Idle
  <2>2. call[c].pc = "idle" /\ UNCHANGED <<timeout, live, unreset>>
          /\ (call' = [call EXCEPT ![c] = k] \/ call' = call)
    BY <1>2 DEF TryConnect, sessionVars
  <2> HIDE DEF k
  <2>3. CASE call' = call
    BY <2>2, <2>3 DEF LeakInv, TimeoutNotLeaked
  <2> QED BY <2>1, <2>2, <2>3, KeepTimeouts
<1> QED BY <1>1, <1>2

\* The steps of a call: only SetTimeout and ResetTimeout matter to a timeout.
LEMMA StepLeak ==
  ASSUME LeakInv, TypeOK', NEW c \in Callers, Step(c)
  PROVE  LeakInv'
<1> DEFINE k == call'[c]
           s == call[c].sess
<1>0. call[c] \in Call /\ call[c].ms \in BOOLEAN /\ Idle.pc = "idle"
  BY DEF LeakInv, TypeOK, Call, Idle
<1>1. CASE Resolve(c) \/ ConnectFails(c) \/ Reject(c) \/ HandleError(c)
  <2>1. /\ call' = [call EXCEPT ![c] = k] /\ UNCHANGED <<timeout, live, unreset>>
        /\ k.pc # "set" /\ (call[c].pc \notin {"query", "reset"} \/ ~call[c].ms)
    BY <1>0, <1>1 DEF Resolve, ConnectFails, AfterConnectError, Reject, HandleError,
                      sessionVars, LeakInv, TypeOK, Call
  <2> HIDE DEF k
  <2> QED BY <2>1, KeepTimeouts
<1>2. CASE Connect(c) \/ Install(c)
  <2>1. /\ call' = [call EXCEPT ![c] = k] /\ UNCHANGED <<timeout, unreset>> /\ live \subseteq live'
        /\ (k.pc = "set" => k.ms) /\ call[c].pc \notin {"query", "reset"}
    <3>1. CASE Connect(c)
      BY <1>0, <3>1 DEF Connect, LeakInv, TypeOK, Call
    <3>2. CASE Install(c)
      <4>1. /\ call[c].pc = "install" /\ UNCHANGED <<timeout, live, unreset>>
            /\ k = IF call[c].probe THEN Idle ELSE WithClient(call[c], s)
            /\ call' = [call EXCEPT ![c] = k]
        BY <3>2 DEF Install, sessionVars, LeakInv, TypeOK
      <4> HIDE DEF k
      <4> QED BY <1>0, <4>1 DEF WithClient, Call
    <3> QED BY <1>2, <3>1, <3>2
  <2> HIDE DEF k
  <2> QED BY <2>1, KeepTimeouts
<1>3. CASE Query(c)
  <2>1. PICK e \in QueryResult(s) : call' = [call EXCEPT ![c] = AfterQuery(c, e)]
    BY <1>3 DEF Query
  <2>2. k = AfterQuery(c, e) /\ UNCHANGED <<timeout, live, unreset>> /\ call[c].pc = "query"
    BY <1>3, <2>1 DEF Query, sessionVars, LeakInv, TypeOK
  <2>3. /\ k.pc # "set"
        /\ (call[c].ms => k.sess = s /\ k.pc \in {"query", "reset"} /\ k.ms)
    <3> HIDE DEF k
    <3> QED BY <1>0, <2>2 DEF AfterQuery, Call
  <2> HIDE DEF k
  <2> QED BY <1>0, <2>1, <2>2, <2>3, KeepTimeouts
<1>4. CASE ApplyTimeout(c)
  <2>1. /\ call' = [call EXCEPT ![c] = k] /\ live' = live /\ k.pc = "install"
        /\ call[c].pc = "apply" /\ s \in Session
        /\ UNCHANGED unreset
        /\ (timeout' = [timeout EXCEPT ![s] = "config"] \/ UNCHANGED timeout)
    BY <1>0, <1>4 DEF ApplyTimeout, LeakInv, TypeOK, Call, Session
  <2> HIDE DEF k, s
  <2> QED BY <2>1, NobodysTimeout, KeepTimeouts, ChangeTimeout
<1>5. CASE SetTimeout(c)
  <2>1. /\ call' = [call EXCEPT ![c] = k] /\ live' = live /\ s \in Session
        /\ call[c].pc = "set" /\ k.sess = s /\ k.ms /\ k.pc \in {"query", "handle"}
        /\ \/ /\ timeout' = [timeout EXCEPT ![s] = c] /\ unreset' = unreset \ {s}
              /\ s \in live /\ k.pc = "query"
           \/ UNCHANGED <<timeout, unreset>>
    BY <1>0, <1>5 DEF SetTimeout, QueryResult, LeakInv, TypeOK, Call, Session
  <2> HIDE DEF k, s
  <2> QED BY <2>1, KeepTimeouts, ChangeTimeout
<1>6. CASE ResetTimeout(c)
  <2>1. /\ call' = [call EXCEPT ![c] = k] /\ live' = live /\ s \in Session
        /\ k.pc \in {"idle", "handle"}
        /\ \/ timeout' = [timeout EXCEPT ![s] = "default"] /\ unreset' = unreset \ {s}
           \/ /\ UNCHANGED timeout
              /\ unreset' = IF timeout[s] = c THEN unreset \cup {s} ELSE unreset
    BY <1>0, <1>6 DEF ResetTimeout, LeakInv, TypeOK, Call, Session
  <2>2. CASE timeout' = [timeout EXCEPT ![s] = "default"] /\ unreset' = unreset \ {s}
    <3> HIDE DEF k
    <3> QED BY <2>1, <2>2, NobodysTimeout, ChangeTimeout
  <2>3. CASE /\ UNCHANGED timeout
             /\ unreset' = IF timeout[s] = c THEN unreset \cup {s} ELSE unreset
    <3>1. \A r \in Session : r = call[c].sess /\ timeout[r] = c => r \in unreset'
      BY <2>3
    <3> HIDE DEF k, s
    <3> QED BY <2>1, <2>3, <3>1, KeepTimeouts
  <2> QED BY <2>1, <2>2, <2>3
<1> QED BY <1>1, <1>2, <1>3, <1>4, <1>5, <1>6 DEF Step

\* A session that ends loses its timeout, and one that ages keeps it.
LEMMA SessionLeak ==
  ASSUME LeakInv, TypeOK', NEW s \in Session, SessionEnds(s) \/ SessionAges(s)
  PROVE  LeakInv'
<1>1. call' = call
  BY DEF SessionEnds, SessionAges
<1>2. CASE UNCHANGED <<timeout, live, unreset>>
  BY <1>1, <1>2 DEF LeakInv, TimeoutNotLeaked
<1>3. CASE SessionEnds(s)
  <2>1. /\ live' = live \ {s} /\ unreset' = unreset \ {s}
        /\ \A r \in Session : timeout'[r] = IF r = s THEN "default" ELSE timeout[r]
    BY <1>3 DEF SessionEnds, LeakInv, TypeOK
  <2> QED BY <1>1, <2>1, NobodysTimeout DEF LeakInv, TimeoutNotLeaked
<1> QED BY <1>2, <1>3 DEF SessionAges

\* The timeout_ms of a tool call outlives the call only where its own reset
\* failed: whatever else overlaps with it or goes wrong at or between its two
\* SETs, query_with_optional_timeout leaves no session with the timeout of a call
\* that has returned.
THEOREM PoolLeaksOnlyUnreset == Spec => []TimeoutNotLeaked
<1>1. Init => LeakInv
  <2> SUFFICES ASSUME Init PROVE LeakInv
    OBVIOUS
  <2>1. \A s \in Session : timeout[s] = "default"
    BY DEF Init
  <2>2. \A c \in Callers : call[c].pc = "idle"
    BY DEF Init, Idle
  <2> QED BY <2>1, <2>2, InitType, NobodysTimeout DEF LeakInv, TimeoutNotLeaked
<1>2. LeakInv /\ [Next]_vars => LeakInv'
  <2> SUFFICES ASSUME LeakInv, [Next]_vars PROVE LeakInv'
    OBVIOUS
  <2>1. TypeOK'
    BY NextType DEF LeakInv
  <2>2. CASE UNCHANGED vars
    BY <2>2 DEF vars, sessionVars, LeakInv, TypeOK, TimeoutNotLeaked
  <2>3. CASE Next
    BY <2>1, <2>3, BeginLeak, StepLeak, SessionLeak DEF Next, Session
  <2> QED BY <2>2, <2>3
<1>3. LeakInv => TimeoutNotLeaked
  BY DEF LeakInv
<1> QED BY <1>1, <1>2, <1>3, PTL DEF Spec
=============================================================================
