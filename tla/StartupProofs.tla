--------------------------- MODULE StartupProofs ----------------------------
(***************************************************************************)
(* What Startup promises for every set of Configs and every bound.  The    *)
(* inductive invariant StartupInv says, for each place of the future, what *)
(* the attempt has established by then; WalkInv, how far connect has got   *)
(* with the hosts and their addresses, and which session a cancel is for.  *)
(***************************************************************************)
EXTENDS Startup, FiniteSetTheorems, TLAPS

\* Nothing but SSLRequest has left without TLS if TLS is required, nor a
\* password or plain SCRAM if channel binding is.
SentSafe(s) ==
  /\ config.ssl = "require" => \A m \in s : m.what = "ssl_request" \/ m.over = "tls"
  /\ config.binding = "require" => \A m \in s : m.what \notin PasswordKinds \cup {"scram"}

\* Before the server is cancelled at, there is a session to cancel.
PlaceInv ==
  /\ pc \in Talking \cup {"start", "host", "resolve", "addr", "failed"} => ~Cancelling
  /\ pc \in {"cancel", "done"} => Cancelling
  /\ Cancelling => token.at.host # 0
  /\ pc \notin {"start", "host", "failed"} => at.host # 0

\* What is known of the stream and of the authentication, place by place.
AuthInv ==
  /\ config.ssl = "require" /\ pc \in Talking \cup {"cancel"} => att.stream = "tls"
  /\ pc \in {"tls", "ssl_answer", "handshake", "startup", "auth"} /\ ~Cancelling =>
       att.mech = "none"
  /\ pc \in {"auth_ok", "info", "attrs"} /\ att.mech # "none" => att.verified
  /\ config.binding = "require" =>
       /\ pc \in {"sasl_continue", "sasl_final", "auth_ok", "info", "attrs"} \/ Cancelling =>
            att.mech = "plus"
       /\ pc \in {"auth_ok", "info", "attrs"} \/ Cancelling => att.verified

\* What the attempt has read is what its server said.
InfoInv ==
  /\ pc = "attrs" => config.attrs # "any"
  /\ pc \in {"tls", "ssl_answer", "handshake"} \cup Talking \/ Cancelling =>
       /\ att.key = said.key
       /\ ~Cancelling => att.notices = said.notices
       /\ config.attrs = "any" => att.notices = said.notices
  /\ Cancelling =>
       /\ token.key = said.key
       /\ config.attrs = "read_write" => said.readOnly \notin {"unknown", "on"}
       /\ config.attrs = "read_only" => said.readOnly \notin {"unknown", "off"}

StartupInv == TypeOK /\ PlaceInv /\ AuthInv /\ InfoInv /\ SentSafe(sent)

-----------------------------------------------------------------------------
\* The larger of two numbers is one of them.
LEMMA MaxOfIsOne ==
  ASSUME NEW m \in Nat, NEW n \in Nat
  PROVE  /\ MaxOf(m, n) \in Nat /\ m <= MaxOf(m, n) /\ n <= MaxOf(m, n)
         /\ MaxOf(m, n) = m \/ MaxOf(m, n) = n
BY DEF MaxOf

\* What the assumption says of the Config of a behaviour.
LEMMA ConfigFacts ==
  ASSUME NEW c \in Configs
  PROVE  /\ NumHosts(c) \in Nat
         /\ \A i \in 1 .. NumHosts(c) : i <= Len(c.host) \/ i <= c.hostaddr
         /\ \A i \in 1 .. NumHosts(c) : PortOf(c, i) \in 0 .. c.port
         /\ MaxOf(1, MaxAddrs) \in Nat /\ 1 <= MaxOf(1, MaxAddrs) /\ MaxAddrs <= MaxOf(1, MaxAddrs)
         /\ c.port \in Nat /\ c.hostaddr \in Nat /\ Len(c.host) \in Nat
<1>1. /\ Len(c.host) \in Nat /\ c.hostaddr \in Nat /\ c.port \in Nat
  BY StartupAssumption
<1>2. MaxOf(1, MaxAddrs) \in Nat /\ 1 <= MaxOf(1, MaxAddrs) /\ MaxAddrs <= MaxOf(1, MaxAddrs)
  BY StartupAssumption DEF MaxOf
<1>3. /\ NumHosts(c) \in Nat
      /\ \A i \in 1 .. NumHosts(c) : i <= Len(c.host) \/ i <= c.hostaddr
  BY <1>1 DEF NumHosts, MaxOf
<1>4. \A i \in 1 .. NumHosts(c) : PortOf(c, i) \in 0 .. c.port
  BY <1>1, <1>3 DEF PortOf
<1> QED BY <1>1, <1>2, <1>3, <1>4

\* Appending keeps the type of a sequence.
LEMMA AppendType ==
  ASSUME NEW S, NEW s \in Seq(S), NEW x \in S
  PROVE  Append(s, x) \in Seq(S)
OBVIOUS

\* Head and tail of a sequence that is not empty.
LEMMA HeadTailType ==
  ASSUME NEW S, NEW s \in Seq(S), s # <<>>
  PROVE  Head(s) \in S /\ Tail(s) \in Seq(S)
OBVIOUS

\* A shuffle of 1 .. n is a sequence over it.
LEMMA OrdersAreSeqs ==
  ASSUME NEW n \in Nat, NEW r, NEW s \in Orders(n, r)
  PROVE  s \in Seq(1 .. n)
BY DEF Orders

\* The initial states.
LEMMA StartupInit == Init => StartupInv
<1> SUFFICES ASSUME Init PROVE StartupInv
  OBVIOUS
<1>1. config \in Configs
  BY DEF Init
<1>2. NumHosts(config) \in Nat /\ config.port \in Nat /\ MaxOf(1, MaxAddrs) \in Nat
  BY <1>1, ConfigFacts
<1>3. Nowhere \in Place(config) /\ Nowhere.host = 0
  BY <1>2 DEF Nowhere, Place
<1>a. att \in Locals /\ said \in [key : Nat, notices : Notices, readOnly : {"unknown"} \cup Answers]
  BY DEF Init, Locals, Notices, NothingSaid
<1>b. resolved \in [1 .. NumHosts(config) -> Nat]
  BY DEF Init
<1>c. token \in [at : Place(config), key : Nat]
  BY <1>3 DEF Init, NoToken
<1>d. at \in Place(config) /\ at.host = 0
  BY <1>3 DEF Init
<1>e. /\ todo = <<>> /\ addrs = <<>> /\ tried = <<>> /\ error = "none" /\ pc = "start"
  BY DEF Init
<1>f. tried \in Seq([host : Nat, addr : Nat])
  BY <1>e
<1>g. /\ todo \in Seq(1 .. NumHosts(config)) /\ addrs \in Seq(1 .. MaxOf(1, MaxAddrs))
  BY <1>e
<1>h. /\ pc \in {"start", "host", "resolve", "addr", "done", "failed", "cancel"}
                  \cup Attempting \cup Talking
      /\ pc \notin Talking \cup {"cancel"} /\ ~(at.host > 0) /\ error \in Errors \cup {"none"}
  BY <1>d, <1>e DEF Talking, Attempting, Errors
<1>4. TypeOK
  BY <1>1, <1>a, <1>b, <1>c, <1>d, <1>f, <1>g, <1>h, Zenon DEF TypeOK
<1>5. PlaceInv
  BY DEF Init, PlaceInv, Cancelling, NoToken, Talking
<1>6. AuthInv
  BY DEF Init, AuthInv, Cancelling, NoToken, Talking
<1>7. InfoInv
  BY DEF Init, InfoInv, Cancelling, NoToken, Talking
<1>8. SentSafe(sent)
  BY DEF Init, SentSafe
<1> QED BY <1>4, <1>5, <1>6, <1>7, <1>8 DEF StartupInv

-----------------------------------------------------------------------------
\* Places of an attempt, for connect and for cancel_query.
InAttempt == Attempting \cup Talking \cup {"cancel"}

\* An attempt that fails keeps the invariant, whatever it had sent so far.
LEMMA FailedStep ==
  ASSUME StartupInv, NEW e \in Errors, Failed(e), pc \in InAttempt, SentSafe(sent')
  PROVE  StartupInv'
<1>1. /\ config' = config /\ att' = att /\ said' = said /\ token' = token
      /\ todo' = todo /\ addrs' = addrs /\ at' = at /\ resolved' = resolved
  BY DEF Failed, hostVars
<1>2. /\ Cancelling => pc' = "done" /\ error' = error /\ tried' = tried
      /\ ~Cancelling => pc' = "addr" /\ error' = e
                        /\ tried' = Append(tried, [host |-> at.host, addr |-> at.addr])
  BY DEF Failed, AfterFailure
<1>3. at.host \in Nat /\ at.addr \in Nat
  BY ConfigFacts DEF StartupInv, TypeOK, Place
<1>4. tried' \in Seq([host : Nat, addr : Nat])
  <2>1. tried \in Seq([host : Nat, addr : Nat])
    BY DEF StartupInv, TypeOK
  <2>2. [host |-> at.host, addr |-> at.addr] \in [host : Nat, addr : Nat]
    BY <1>3
  <2>3. Append(tried, [host |-> at.host, addr |-> at.addr]) \in Seq([host : Nat, addr : Nat])
    BY <2>1, <2>2, AppendType, Zenon
  <2> QED BY <1>2, <2>1, <2>3, Zenon
<1>5. TypeOK'
  BY <1>1, <1>2, <1>4 DEF StartupInv, TypeOK, Talking, Attempting
<1>6. /\ at.host # 0
      /\ Cancelling => token.at.host # 0
  BY DEF StartupInv, PlaceInv, InAttempt, Talking, Attempting
<1>7. PlaceInv'
  BY <1>1, <1>2, <1>6 DEF PlaceInv, Cancelling, Talking
<1>8. AuthInv'
  BY <1>1, <1>2 DEF StartupInv, AuthInv, Cancelling, Talking
<1>9. InfoInv'
  BY <1>1, <1>2 DEF StartupInv, InfoInv, Cancelling, Talking
<1>10. SentSafe(sent)'
  BY <1>1 DEF SentSafe
<1> QED BY <1>5, <1>7, <1>8, <1>9, <1>10 DEF StartupInv

\* The attempt goes on at p with locals a: what is left to show is that a and
\* what the server has said fit p.
LEMMA GoesStep ==
  ASSUME StartupInv, NEW p, NEW a \in Locals, Goes(p, a), pc \in InAttempt,
         SentSafe(sent'),
         p \in InAttempt \cup {"done"}, p # "socket",
         said' \in [key : Nat, notices : Notices, readOnly : {"unknown"} \cup Answers],
         p \in Talking \cup {"cancel"} => a.stream # "none",
         p \in Talking => ~Cancelling,
         p \in {"cancel", "done"} => Cancelling,
         AuthInv', InfoInv'
  PROVE  StartupInv'
<1>1. /\ config' = config /\ token' = token /\ pc' = p /\ att' = a
      /\ error' = error /\ tried' = tried
      /\ todo' = todo /\ addrs' = addrs /\ at' = at /\ resolved' = resolved
  BY DEF Goes, hostVars
<1>2. p \in {"start", "host", "resolve", "addr", "done", "failed", "cancel"}
              \cup Attempting \cup Talking
  BY DEF InAttempt
<1>3. TypeOK'
  BY <1>1, <1>2, Zenon DEF StartupInv, TypeOK
<1>4. /\ at.host # 0
      /\ Cancelling => token.at.host # 0
  BY DEF StartupInv, PlaceInv, InAttempt, Talking, Attempting
<1>5. PlaceInv'
  BY <1>1, <1>4 DEF PlaceInv, Cancelling, Talking, Attempting, InAttempt
<1>6. SentSafe(sent)'
  BY <1>1 DEF SentSafe
<1> QED BY <1>3, <1>5, <1>6 DEF StartupInv

\* The attempt goes on without reading anything.
LEMMA GoesQuietly ==
  ASSUME StartupInv, NEW p, NEW a \in Locals, Goes(p, a), pc \in InAttempt,
         SentSafe(sent'), said' = said,
         p \in InAttempt \cup {"done"}, p # "socket",
         p \in Talking \cup {"cancel"} => a.stream # "none",
         p \in Talking => ~Cancelling,
         p \in {"cancel", "done"} => Cancelling,
         pc # "socket", p # "attrs", pc # "attrs",
         a.key = att.key, a.notices = att.notices,
         AuthInv'
  PROVE  StartupInv'
<1>1. /\ config' = config /\ token' = token /\ pc' = p /\ att' = a
  BY DEF Goes
<1>2. said' \in [key : Nat, notices : Notices, readOnly : {"unknown"} \cup Answers]
  BY DEF StartupInv, TypeOK
<1>3. InfoInv'
  BY <1>1 DEF StartupInv, InfoInv, PlaceInv, Cancelling, Talking, Attempting, InAttempt
<1> QED BY <1>2, <1>3, GoesStep

-----------------------------------------------------------------------------
(***************************************************************************)
(* The actions of connect.                                                 *)
(***************************************************************************)

\* Steps that change neither the attempt nor what is known of it.
LEMMA WalkStep ==
  ASSUME StartupInv, TypeOK', pc \in {"start", "host", "resolve", "addr"},
         pc' \in {"host", "resolve", "addr", "failed", "socket"},
         pc' \in {"resolve", "addr", "socket"} => at'.host # 0,
         UNCHANGED <<config, att, sent, said, token>>
  PROVE  StartupInv'
<1>1. ~Cancelling /\ ~Cancelling'
  BY DEF StartupInv, PlaceInv, Cancelling
<1>2. PlaceInv'
  BY <1>1 DEF PlaceInv, Talking
<1>3. AuthInv'
  BY <1>1 DEF AuthInv, Talking
<1>4. InfoInv'
  BY <1>1 DEF InfoInv, Talking
<1>5. SentSafe(sent)'
  BY DEF StartupInv, SentSafe
<1> QED BY <1>2, <1>3, <1>4, <1>5 DEF StartupInv

\* Connect keeps the invariant.
LEMMA ConnectStep == StartupInv /\ Connect => StartupInv'
<1> SUFFICES ASSUME StartupInv, Connect PROVE StartupInv'
  OBVIOUS
<1>1. todo' \in Seq(1 .. NumHosts(config)) /\ config' = config
  <2>1. NumHosts(config) \in Nat
    BY ConfigFacts DEF StartupInv, TypeOK
  <2> QED BY <2>1, OrdersAreSeqs DEF Connect, StartupInv, TypeOK
<1>2. /\ pc = "start" /\ pc' \in {"host", "failed"} /\ error' \in Errors \cup {"none"}
      /\ UNCHANGED <<config, addrs, at, att, sent, said, tried, resolved, token>>
  BY DEF Connect, StartupInv, TypeOK, Errors
<1>3. TypeOK'
  BY <1>1, <1>2 DEF StartupInv, TypeOK, Talking, Attempting
<1> QED BY <1>2, <1>3, WalkStep

\* NextHost keeps the invariant.
LEMMA NextHostStep == StartupInv /\ NextHost => StartupInv'
<1> SUFFICES ASSUME StartupInv, NextHost PROVE StartupInv'
  OBVIOUS
<1> DEFINE i == Head(todo)
<1>1. config \in Configs /\ todo \in Seq(1 .. NumHosts(config)) /\ todo # <<>>
  BY DEF StartupInv, TypeOK, NextHost
<1>2. i \in 1 .. NumHosts(config) /\ Tail(todo) \in Seq(1 .. NumHosts(config))
  BY <1>1, HeadTailType, Zenon
<1>3. /\ NumHosts(config) \in Nat /\ PortOf(config, i) \in 0 .. config.port
      /\ i <= Len(config.host) \/ i <= config.hostaddr
      /\ MaxOf(1, MaxAddrs) \in Nat /\ 1 <= MaxOf(1, MaxAddrs)
  BY <1>1, <1>2, ConfigFacts
<1>4. /\ pc = "host" /\ pc' \in {"addr", "resolve"} /\ todo' = Tail(todo)
      /\ UNCHANGED <<config, error, att, sent, said, tried, token>>
  BY DEF NextHost
<1>5. at' \in Place(config) /\ at'.host = i
  BY <1>2, <1>3 DEF NextHost, Place
<1>6. addrs' \in Seq(1 .. MaxOf(1, MaxAddrs))
  <2>1. 1 \in 1 .. MaxOf(1, MaxAddrs)
    BY <1>3
  <2>2. <<1>> \in Seq(1 .. MaxOf(1, MaxAddrs))
    BY <2>1
  <2>3. addrs' = <<1>> \/ addrs' = addrs
    BY DEF NextHost
  <2> QED BY <2>2, <2>3 DEF StartupInv, TypeOK
<1>7. resolved' \in [1 .. NumHosts(config) -> Nat]
  <2>1. resolved' = [resolved EXCEPT ![i] = 1] \/ resolved' = resolved
    BY DEF NextHost
  <2> QED BY <2>1, <1>2 DEF StartupInv, TypeOK
<1>8. TypeOK'
  BY <1>2, <1>3, <1>4, <1>5, <1>6, <1>7 DEF StartupInv, TypeOK, Talking, Attempting
<1>9. at'.host # 0
  BY <1>2, <1>3, <1>5
<1> QED BY <1>4, <1>8, <1>9, WalkStep

\* NoHostLeft keeps the invariant.
LEMMA NoHostLeftStep == StartupInv /\ NoHostLeft => StartupInv'
<1> SUFFICES ASSUME StartupInv, NoHostLeft PROVE StartupInv'
  OBVIOUS
<1>1. /\ pc = "host" /\ pc' = "failed"
      /\ UNCHANGED <<config, error, att, sent, said, tried, token, todo, addrs, at, resolved>>
  BY DEF NoHostLeft, hostVars
<1>2. TypeOK'
  BY <1>1 DEF StartupInv, TypeOK, Talking, Attempting
<1> QED BY <1>1, <1>2, WalkStep

\* Resolve keeps the invariant.
LEMMA ResolveStep == StartupInv /\ Resolve => StartupInv'
<1> SUFFICES ASSUME StartupInv, Resolve PROVE StartupInv'
  OBVIOUS
<1>1. /\ pc = "resolve" /\ pc' \in {"host", "addr"} /\ at.host # 0
      /\ UNCHANGED <<config, todo, at, att, sent, said, token>>
  BY DEF Resolve, StartupInv, PlaceInv
<1>2. /\ config \in Configs /\ NumHosts(config) \in Nat
      /\ MaxOf(1, MaxAddrs) \in Nat /\ 1 <= MaxOf(1, MaxAddrs) /\ MaxAddrs <= MaxOf(1, MaxAddrs)
      /\ MaxAddrs \in Nat
  BY ConfigFacts, StartupAssumption DEF StartupInv, TypeOK
<1>3. at \in Place(config) /\ at.host \in 1 .. NumHosts(config)
  BY <1>1, <1>2 DEF StartupInv, TypeOK, Place
<1>4. CASE /\ error' = "connect" /\ pc' = "host"
           /\ tried' = Append(tried, [host |-> at.host, addr |-> 0])
           /\ UNCHANGED <<addrs, resolved>>
  <2>1. [host |-> at.host, addr |-> 0] \in [host : Nat, addr : Nat]
    BY <1>2, <1>3
  <2>2. tried \in Seq([host : Nat, addr : Nat])
    BY DEF StartupInv, TypeOK
  <2>3. tried' \in Seq([host : Nat, addr : Nat])
    BY <1>4, <2>1, <2>2, AppendType, Zenon
  <2>4. TypeOK'
    BY <1>1, <1>4, <2>3 DEF StartupInv, TypeOK, Talking, Attempting, Errors
  <2> QED BY <1>1, <2>4, WalkStep
<1>5. CASE \E n \in IF config.hostaddr > 0 THEN {1} ELSE 1 .. MaxAddrs :
             /\ addrs' \in Orders(n, config.random)
             /\ resolved' = [resolved EXCEPT ![at.host] = n]
             /\ pc' = "addr" /\ UNCHANGED <<error, tried>>
  <2>1. PICK n \in IF config.hostaddr > 0 THEN {1} ELSE 1 .. MaxAddrs :
             /\ addrs' \in Orders(n, config.random)
             /\ resolved' = [resolved EXCEPT ![at.host] = n]
             /\ pc' = "addr" /\ UNCHANGED <<error, tried>>
    BY <1>5
  <2>2. n \in Nat /\ n <= MaxOf(1, MaxAddrs)
    BY <1>2, <2>1
  <2>3. addrs' \in Seq(1 .. n)
    BY <2>1, <2>2, OrdersAreSeqs
  <2>4. addrs' \in Seq(1 .. MaxOf(1, MaxAddrs))
    BY <1>2, <2>2, <2>3
  <2>5. resolved' \in [1 .. NumHosts(config) -> Nat]
    BY <1>3, <2>1, <2>2 DEF StartupInv, TypeOK
  <2>6. TypeOK'
    BY <1>1, <2>1, <2>4, <2>5 DEF StartupInv, TypeOK, Talking, Attempting
  <2> QED BY <1>1, <2>6, WalkStep
<1> QED BY <1>4, <1>5 DEF Resolve

\* NextAddr keeps the invariant.
LEMMA NextAddrStep == StartupInv /\ NextAddr => StartupInv'
<1> SUFFICES ASSUME StartupInv, NextAddr PROVE StartupInv'
  OBVIOUS
<1>1. /\ pc = "addr" /\ pc' \in {"host", "socket"} /\ at.host # 0
      /\ UNCHANGED <<config, error, todo, att, sent, said, tried, resolved, token>>
  BY DEF NextAddr, StartupInv, PlaceInv
<1>2. MaxOf(1, MaxAddrs) \in Nat
  BY ConfigFacts DEF StartupInv, TypeOK
<1>3. at' \in Place(config) /\ at'.host = at.host /\ addrs' \in Seq(1 .. MaxOf(1, MaxAddrs))
  <2>1. at \in Place(config) /\ addrs \in Seq(1 .. MaxOf(1, MaxAddrs))
    BY DEF StartupInv, TypeOK
  <2>2. CASE addrs = <<>>
    BY <2>1, <2>2 DEF NextAddr
  <2>3. CASE addrs # <<>>
    <3>1. Head(addrs) \in 1 .. MaxOf(1, MaxAddrs) /\ Tail(addrs) \in Seq(1 .. MaxOf(1, MaxAddrs))
      BY <2>1, <2>3, HeadTailType, Zenon
    <3>2. at' = [at EXCEPT !.addr = Head(addrs)] /\ addrs' = Tail(addrs)
      BY <2>3 DEF NextAddr
    <3> QED BY <1>2, <2>1, <3>1, <3>2 DEF Place
  <2> QED BY <2>2, <2>3
<1>4. TypeOK'
  BY <1>1, <1>3 DEF StartupInv, TypeOK, Talking, Attempting
<1> QED BY <1>1, <1>3, <1>4, WalkStep

-----------------------------------------------------------------------------
(***************************************************************************)
(* The attempt: socket and TLS.                                            *)
(***************************************************************************)

\* Sending keeps what was sent safe.
LEMMA SendSafe ==
  ASSUME StartupInv, NEW w, config' = config,
         sent' = sent \cup {[what |-> w, over |-> att.stream]},
         config.ssl = "require" => w = "ssl_request" \/ att.stream = "tls",
         config.binding = "require" => w \notin PasswordKinds \cup {"scram"}
  PROVE  SentSafe(sent')
BY DEF StartupInv, SentSafe

\* ConnectSocket keeps the invariant.
LEMMA ConnectSocketStep == StartupInv /\ ConnectSocket => StartupInv'
<1> SUFFICES ASSUME StartupInv, ConnectSocket PROVE StartupInv'
  OBVIOUS
<1>1. pc = "socket" /\ sent' = {} /\ pc \in InAttempt /\ SentSafe(sent')
  BY DEF ConnectSocket, InAttempt, Attempting, SentSafe
<1>2. ASSUME NEW e \in {"connect", "timeout", "tls"}, Failed(e) PROVE StartupInv'
  BY <1>1, <1>2, FailedStep DEF Errors
<1>3. CASE Cancelling /\ Goes("tls", [att EXCEPT !.stream = "none"]) /\ said' = said
  <2> DEFINE a == [att EXCEPT !.stream = "none"]
  <2>1. /\ a \in Locals /\ a.mech = att.mech /\ a.verified = att.verified
        /\ a.key = att.key /\ a.notices = att.notices
    BY DEF StartupInv, TypeOK, Locals
  <2>2. /\ pc' = "tls" /\ att' = a /\ UNCHANGED <<config, token>>
    BY <1>3 DEF Goes
  <2> HIDE DEF a
  <2>3. AuthInv' /\ InfoInv'
    BY <1>1, <1>3, <2>1, <2>2 DEF StartupInv, AuthInv, InfoInv, Cancelling, Talking
  <2>4. said' \in [key : Nat, notices : Notices, readOnly : {"unknown"} \cup Answers]
    BY <1>3 DEF StartupInv, TypeOK
  <2>5. "tls" \in InAttempt \cup {"done"} /\ "tls" \notin Talking \cup {"cancel"}
    BY DEF InAttempt, Attempting, Talking
  <2>6. Goes("tls", a)
    BY <1>3 DEF a
  <2> QED BY <1>1, <2>1, <2>3, <2>4, <2>5, <2>6, GoesStep
<1>4. CASE ~Cancelling /\ Goes("tls", Fresh(att)) /\ said' = NothingSaid
  <2> DEFINE a == Fresh(att)
  <2>1. /\ a \in Locals /\ a.mech = "none" /\ a.key = 0 /\ a.notices = <<>>
    BY DEF Fresh, Locals, Notices
  <2>2. /\ pc' = "tls" /\ att' = a /\ UNCHANGED <<config, token>>
    BY <1>4 DEF Goes
  <2>3. /\ said' \in [key : Nat, notices : Notices, readOnly : {"unknown"} \cup Answers]
        /\ said'.key = 0 /\ said'.notices = <<>>
    BY <1>4 DEF NothingSaid, Notices
  <2> HIDE DEF a
  <2>4. AuthInv' /\ InfoInv'
    BY <1>4, <2>1, <2>2, <2>3 DEF AuthInv, InfoInv, Cancelling, Talking
  <2>5. "tls" \in InAttempt \cup {"done"} /\ "tls" \notin Talking \cup {"cancel"}
    BY DEF InAttempt, Attempting, Talking
  <2>6. Goes("tls", a)
    BY <1>4 DEF a
  <2> QED BY <1>1, <2>1, <2>3, <2>4, <2>5, <2>6, GoesStep
<1> QED BY <1>2, <1>3, <1>4 DEF ConnectSocket

\* The locals with another stream.
LEMMA WithStream ==
  ASSUME NEW x \in {"raw", "tls"}, NEW b \in BOOLEAN, att \in Locals
  PROVE  LET a == [att EXCEPT !.stream = x]
             c == [att EXCEPT !.stream = x, !.endPoint = b]
         IN  /\ a \in Locals /\ a.stream = x /\ a.mech = att.mech
             /\ a.verified = att.verified /\ a.key = att.key /\ a.notices = att.notices
             /\ c \in Locals /\ c.stream = x /\ c.mech = att.mech
             /\ c.verified = att.verified /\ c.key = att.key /\ c.notices = att.notices
BY DEF Locals

\* The stream is chosen: the attempt goes on with the startup message, or with
\* the cancel request.
LEMMA BeginStep ==
  ASSUME StartupInv, NEW a \in Locals, Goes(Begin, a), pc \in Attempting \ {"socket"},
         sent' = sent, said' = said,
         a.stream # "none", config.ssl = "require" => a.stream = "tls",
         a.mech = att.mech, a.verified = att.verified, a.key = att.key,
         a.notices = att.notices
  PROVE  StartupInv'
<1>1. /\ config' = config /\ token' = token /\ pc' = Begin /\ att' = a
  BY DEF Goes
<1>2. AuthInv'
  BY <1>1 DEF StartupInv, AuthInv, Begin, Cancelling, Talking, Attempting
<1>3. /\ Begin \in InAttempt \cup {"done"} /\ Begin # "socket" /\ Begin # "attrs"
      /\ Begin \in Talking => ~Cancelling
      /\ Begin \in {"cancel", "done"} => Cancelling
  BY DEF Begin, InAttempt, Talking, Attempting
<1>4. pc \in InAttempt /\ pc # "socket" /\ pc # "attrs"
  BY DEF InAttempt, Attempting
<1>5. SentSafe(sent')
  BY DEF StartupInv
<1> QED BY <1>2, <1>3, <1>4, <1>5, GoesQuietly

\* connect_tls goes on to its next step.
LEMMA TlsGoesStep ==
  ASSUME StartupInv, NEW p \in {"ssl_answer", "handshake"}, Goes(p, att),
         pc \in {"tls", "ssl_answer"}, said' = said, SentSafe(sent')
  PROVE  StartupInv'
<1>1. /\ config' = config /\ token' = token /\ pc' = p /\ att' = att
  BY DEF Goes
<1>2. AuthInv'
  BY <1>1 DEF StartupInv, AuthInv, Cancelling, Talking
<1>3. /\ p \in InAttempt \cup {"done"} /\ p # "socket" /\ p # "attrs"
      /\ p \notin Talking \cup {"cancel", "done"} /\ pc \in InAttempt
      /\ pc # "socket" /\ pc # "attrs"
  BY DEF InAttempt, Attempting, Talking
<1>4. att \in Locals
  BY DEF StartupInv, TypeOK
<1> QED BY <1>2, <1>3, <1>4, GoesQuietly

\* ConnectTls keeps the invariant.
LEMMA ConnectTlsStep == StartupInv /\ ConnectTls => StartupInv'
<1> SUFFICES ASSUME StartupInv, ConnectTls PROVE StartupInv'
  OBVIOUS
<1>1. pc = "tls" /\ pc \in InAttempt /\ SentSafe(sent) /\ att \in Locals /\ config \in Configs
  BY DEF ConnectTls, InAttempt, Attempting, StartupInv, TypeOK
<1>2. CASE TlsPlan(config) = "raw"
  <2>1. Goes(Begin, [att EXCEPT !.stream = "raw"]) /\ sent' = sent /\ said' = said
    BY <1>2 DEF ConnectTls
  <2>2. config.ssl # "require"
    BY <1>2 DEF TlsPlan
  <2> QED BY <1>1, <2>1, <2>2, WithStream, BeginStep DEF Attempting
<1>3. CASE TlsPlan(config) = "refuse"
  <2>1. Failed("tls") /\ sent' = sent
    BY <1>3 DEF ConnectTls
  <2> QED BY <1>1, <2>1, FailedStep DEF Errors
<1>4. CASE TlsPlan(config) = "handshake"
  <2>1. Goes("handshake", att) /\ sent' = sent /\ said' = said
    BY <1>4 DEF ConnectTls
  <2> QED BY <1>1, <2>1, TlsGoesStep
<1>5. CASE TlsPlan(config) \notin {"raw", "refuse", "handshake"}
  <2>1. SendThen("ssl_request", "ssl_answer", att)
    BY <1>5 DEF ConnectTls
  <2>2. config' = config
    BY <2>1 DEF SendThen, Goes, Failed
  <2>3. SentSafe(sent')
    BY <2>1, <2>2, SendSafe DEF SendThen, PasswordKinds
  <2>4. CASE Goes("ssl_answer", att) /\ said' = said
    BY <1>1, <2>3, <2>4, TlsGoesStep
  <2>5. CASE Failed("io")
    BY <1>1, <2>3, <2>5, FailedStep DEF Errors
  <2> QED BY <2>1, <2>4, <2>5 DEF SendThen
<1> QED BY <1>2, <1>3, <1>4, <1>5

\* SslAnswer keeps the invariant.
LEMMA SslAnswerStep == StartupInv /\ SslAnswer => StartupInv'
<1> SUFFICES ASSUME StartupInv, SslAnswer PROVE StartupInv'
  OBVIOUS
<1>1. /\ pc = "ssl_answer" /\ pc \in InAttempt /\ SentSafe(sent') /\ att \in Locals
      /\ sent' = sent
  BY DEF SslAnswer, InAttempt, Attempting, StartupInv, TypeOK
<1>2. CASE Failed("io")
  BY <1>1, <1>2, FailedStep DEF Errors
<1>3. ASSUME NEW byte \in {"S", "N"},
             CASE AfterAnswer(config, byte) = "handshake" -> Goes("handshake", att) /\ UNCHANGED said
               [] AfterAnswer(config, byte) = "refuse" -> Failed("tls")
               [] OTHER -> Goes(Begin, [att EXCEPT !.stream = "raw"]) /\ UNCHANGED said
      PROVE  StartupInv'
  <2>1. CASE AfterAnswer(config, byte) = "handshake"
    BY <1>1, <1>3, <2>1, TlsGoesStep
  <2>2. CASE AfterAnswer(config, byte) = "refuse"
    BY <1>1, <1>3, <2>2, FailedStep DEF Errors
  <2>3. CASE AfterAnswer(config, byte) \notin {"handshake", "refuse"}
    <3>1. config.ssl # "require"
      BY <2>3 DEF AfterAnswer
    <3>2. Goes(Begin, [att EXCEPT !.stream = "raw"]) /\ said' = said
      BY <1>3, <2>3
    <3> QED BY <1>1, <3>1, <3>2, WithStream, BeginStep DEF Attempting
  <2> QED BY <2>1, <2>2, <2>3
<1> QED BY <1>2, <1>3 DEF SslAnswer

\* Handshake keeps the invariant.
LEMMA HandshakeStep == StartupInv /\ Handshake => StartupInv'
<1> SUFFICES ASSUME StartupInv, Handshake PROVE StartupInv'
  OBVIOUS
<1>1. /\ pc = "handshake" /\ pc \in InAttempt /\ SentSafe(sent') /\ att \in Locals
      /\ sent' = sent
  BY DEF Handshake, InAttempt, Attempting, StartupInv, TypeOK
<1>2. CASE Failed("tls")
  BY <1>1, <1>2, FailedStep DEF Errors
<1>3. ASSUME NEW b \in BOOLEAN, said' = said,
             Goes(Begin, [att EXCEPT !.stream = "tls", !.endPoint = b])
      PROVE  StartupInv'
  BY <1>1, <1>3, WithStream, BeginStep DEF Attempting
<1> QED BY <1>2, <1>3 DEF Handshake

-----------------------------------------------------------------------------
(***************************************************************************)
(* The attempt: connect_raw.                                               *)
(***************************************************************************)

\* One message of the conversation to the next, with the same stream and the
\* same information of the session.
LEMMA TalkStep ==
  ASSUME StartupInv, NEW p \in Talking \ {"attrs"}, NEW a \in Locals, Goes(p, a),
         pc \in Talking \ {"attrs"}, SentSafe(sent'), said' = said,
         a.stream = att.stream, a.key = att.key, a.notices = att.notices, AuthInv'
  PROVE  StartupInv'
<1>1. /\ p \in InAttempt \cup {"done"} /\ p # "socket" /\ p \notin {"cancel", "done"}
      /\ pc \in InAttempt /\ pc # "socket" /\ p # "attrs" /\ pc # "attrs"
  BY DEF InAttempt, Talking
<1>2. ~Cancelling /\ a.stream # "none"
  BY DEF StartupInv, PlaceInv, TypeOK, Talking
<1> QED BY <1>1, <1>2, GoesQuietly

\* A message is sent on the way from pc to p.
LEMMA TalkSend ==
  ASSUME StartupInv, NEW w, NEW p \in Talking \ {"attrs"}, NEW a \in Locals,
         SendThen(w, p, a), pc \in Talking \ {"attrs"},
         config.binding = "require" => w \notin PasswordKinds \cup {"scram"},
         a.stream = att.stream, a.key = att.key, a.notices = att.notices,
         Goes(p, a) => AuthInv'
  PROVE  StartupInv'
<1>1. config' = config /\ sent' = sent \cup {[what |-> w, over |-> att.stream]}
  BY DEF SendThen, Goes, Failed
<1>2. config.ssl = "require" => att.stream = "tls"
  BY DEF StartupInv, AuthInv
<1>3. SentSafe(sent')
  BY <1>1, <1>2, SendSafe
<1>4. CASE Goes(p, a) /\ said' = said
  BY <1>3, <1>4, TalkStep
<1>5. CASE Failed("io")
  BY <1>3, <1>5, FailedStep DEF Errors, InAttempt
<1> QED BY <1>4, <1>5 DEF SendThen

\* The facts every step of the conversation starts from.
LEMMA TalkFacts ==
  ASSUME StartupInv, pc \in Talking
  PROVE  att \in Locals /\ SentSafe(sent) /\ pc \in InAttempt /\ ~Cancelling /\ config \in Configs
BY DEF StartupInv, TypeOK, PlaceInv, InAttempt

\* A message that was not expected.
LEMMA UnexpectedStep ==
  ASSUME StartupInv, pc \in Talking, NEW m, Unexpected(m)
  PROVE  StartupInv'
<1> DEFINE e == CASE m = "unknown" -> "io" [] m = "error" -> "db" [] m = "eof" -> "closed"
                  [] OTHER -> "unexpected"
<1>1. e \in Errors
  BY DEF Errors
<1>2. Failed(e) /\ sent' = sent
  BY DEF Unexpected
<1> HIDE DEF e
<1> QED BY <1>1, <1>2, TalkFacts, FailedStep

\* SendStartup keeps the invariant.
LEMMA SendStartupStep == StartupInv /\ SendStartup => StartupInv'
<1> SUFFICES ASSUME StartupInv, SendStartup PROVE StartupInv'
  OBVIOUS
<1>1. pc = "startup" /\ pc \in Talking \ {"attrs"} /\ "auth" \in Talking \ {"attrs"}
  BY DEF SendStartup, Talking
<1>2. ASSUME Goes("auth", att) PROVE AuthInv'
  BY <1>1, <1>2 DEF Goes, StartupInv, AuthInv, Cancelling, Talking
<1>3. SendThen("startup", "auth", att) /\ "startup" \notin PasswordKinds \cup {"scram"}
  BY DEF SendStartup, PasswordKinds
<1> QED BY <1>1, <1>2, <1>3, TalkFacts, TalkSend

\* A password method keeps the invariant.
LEMMA PasswordStep ==
  ASSUME StartupInv, pc = "auth", NEW m \in PasswordKinds, AuthenticatePassword(m)
  PROVE  StartupInv'
<1>1. pc \in Talking \ {"attrs"} /\ "auth_ok" \in Talking \ {"attrs"}
  BY DEF Talking
<1>2. CASE Failed("auth") /\ sent' = sent
  BY <1>1, <1>2, TalkFacts, FailedStep DEF Errors
<1>3. CASE Failed("config") /\ sent' = sent
  BY <1>1, <1>3, TalkFacts, FailedStep DEF Errors
<1>4. CASE CanSkipChannelBinding /\ SendThen(m, "auth_ok", att)
  <2>1. config.binding # "require"
    BY <1>4 DEF CanSkipChannelBinding
  <2>2. ASSUME Goes("auth_ok", att) PROVE AuthInv'
    BY <1>1, <2>1, <2>2, TalkFacts DEF Goes, StartupInv, AuthInv, Cancelling, Talking
  <2> QED BY <1>1, <1>4, <2>1, <2>2, TalkFacts, TalkSend
<1> QED BY <1>2, <1>3, <1>4 DEF AuthenticatePassword

\* Choosing a SCRAM mechanism keeps the invariant.
LEMMA SaslStep ==
  ASSUME StartupInv, pc = "auth", NEW offered \in SUBSET {"scram", "plus"},
         AuthenticateSasl(offered)
  PROVE  StartupInv'
<1> DEFINE m == Mechanism(offered)
           a == [att EXCEPT !.mech = m]
<1>1. pc \in Talking \ {"attrs"} /\ "sasl_continue" \in Talking \ {"attrs"}
  BY DEF Talking
<1>2. CASE Failed("auth") /\ sent' = sent
  BY <1>1, <1>2, TalkFacts, FailedStep DEF Errors
<1>3. CASE Failed("config") /\ sent' = sent
  BY <1>1, <1>3, TalkFacts, FailedStep DEF Errors
<1>4. CASE m # "none" /\ MechanismAllowed(m) /\ SendThen(m, "sasl_continue", a)
  <2>1. m \in {"none", "scram", "plus"}
    BY DEF Mechanism
  <2>2. config.binding = "require" => m = "plus"
    BY <1>4 DEF MechanismAllowed, CanSkipChannelBinding
  <2> HIDE DEF m
  <2>3. /\ a \in Locals /\ a.stream = att.stream /\ a.key = att.key /\ a.notices = att.notices
        /\ a.mech = m
    BY <1>1, <2>1, TalkFacts DEF Locals
  <2>4. SendThen(m, "sasl_continue", a)
    BY <1>4
  <2> HIDE DEF a
  <2>5. ASSUME Goes("sasl_continue", a) PROVE AuthInv'
    BY <1>1, <2>2, <2>3, <2>5, TalkFacts DEF Goes, StartupInv, AuthInv, Cancelling, Talking
  <2>6. config.binding = "require" => m \notin PasswordKinds \cup {"scram"}
    BY <2>2 DEF PasswordKinds
  <2> QED BY <1>1, <2>3, <2>4, <2>5, <2>6, TalkSend
<1> QED BY <1>2, <1>3, <1>4 DEF AuthenticateSasl

\* Authenticate keeps the invariant.
LEMMA AuthenticateStep == StartupInv /\ Authenticate => StartupInv'
<1> SUFFICES ASSUME StartupInv, pc = "auth", NEW code \in Codes,
               LET m == Parsed(code) IN
               \/ m = "negotiate" /\ Goes("auth", att) /\ UNCHANGED <<sent, said>>
               \/ m = "ok" /\ UNCHANGED sent
                    /\ IF CanSkipChannelBinding THEN Goes("info", att) /\ UNCHANGED said
                                                ELSE Failed("auth")
               \/ m \in PasswordKinds /\ AuthenticatePassword(m)
               \/ m = "sasl" /\ \E offered \in SUBSET {"scram", "plus"} : AuthenticateSasl(offered)
               \/ m = "gss" /\ Failed("auth") /\ UNCHANGED sent
               \/ m \notin {"negotiate", "ok", "sasl", "gss"} \cup PasswordKinds /\ Unexpected(m)
             PROVE StartupInv'
  BY DEF Authenticate
<1> DEFINE m == Parsed(code)
<1>1. pc \in Talking \ {"attrs"} /\ {"auth", "info"} \subseteq Talking \ {"attrs"}
  BY DEF Talking
<1>2. CASE Goes("auth", att) /\ UNCHANGED <<sent, said>>
  <2>1. AuthInv'
    BY <1>2 DEF Goes, StartupInv, AuthInv, Cancelling, Talking
  <2> QED BY <1>1, <1>2, <2>1, TalkFacts, TalkStep
<1>3. CASE CanSkipChannelBinding /\ Goes("info", att) /\ UNCHANGED <<sent, said>>
  <2>1. AuthInv'
    BY <1>1, <1>3, TalkFacts DEF Goes, StartupInv, AuthInv, Cancelling, Talking, CanSkipChannelBinding
  <2> QED BY <1>1, <1>3, <2>1, TalkFacts, TalkStep
<1>4. CASE Failed("auth") /\ UNCHANGED sent
  BY <1>1, <1>4, TalkFacts, FailedStep DEF Errors
<1>5. CASE m \in PasswordKinds /\ AuthenticatePassword(m)
  BY <1>5, PasswordStep
<1>6. CASE \E offered \in SUBSET {"scram", "plus"} : AuthenticateSasl(offered)
  BY <1>6, SaslStep
<1>7. CASE Unexpected(m)
  BY <1>1, <1>7, UnexpectedStep
<1> HIDE DEF m
<1> QED BY <1>2, <1>3, <1>4, <1>5, <1>6, <1>7 DEF m

\* SaslContinue keeps the invariant.
LEMMA SaslContinueStep == StartupInv /\ SaslContinue => StartupInv'
<1> SUFFICES ASSUME StartupInv, pc = "sasl_continue", NEW code \in Codes,
               IF Parsed(code) # "continue" THEN Unexpected(Parsed(code))
               ELSE \/ Failed("auth") /\ UNCHANGED sent
                    \/ SendThen("proof", AfterSaslResponse, att)
             PROVE StartupInv'
  BY DEF SaslContinue
<1>1. pc \in Talking \ {"attrs"} /\ "sasl_final" \in Talking \ {"attrs"}
  BY DEF Talking
<1>2. CASE Unexpected(Parsed(code))
  BY <1>1, <1>2, UnexpectedStep
<1>3. CASE Failed("auth") /\ UNCHANGED sent
  BY <1>1, <1>3, TalkFacts, FailedStep DEF Errors
<1>4. CASE SendThen("proof", "sasl_final", att)
  <2>1. ASSUME Goes("sasl_final", att) PROVE AuthInv'
    BY <2>1 DEF Goes, StartupInv, AuthInv, Cancelling, Talking
  <2> QED BY <1>1, <1>4, <2>1, TalkFacts, TalkSend DEF PasswordKinds
<1> QED BY <1>2, <1>3, <1>4 DEF AfterSaslResponse

\* SaslFinal keeps the invariant.
LEMMA SaslFinalStep == StartupInv /\ SaslFinal => StartupInv'
<1> SUFFICES ASSUME StartupInv, pc = "sasl_final", NEW code \in Codes,
               IF Parsed(code) # "final" THEN Unexpected(Parsed(code))
               ELSE /\ UNCHANGED sent
                    /\ \/ Failed("auth")
                       \/ Goes("auth_ok", [att EXCEPT !.verified = TRUE]) /\ UNCHANGED said
             PROVE StartupInv'
  BY DEF SaslFinal
<1> DEFINE a == [att EXCEPT !.verified = TRUE]
<1>1. pc \in Talking \ {"attrs"} /\ "auth_ok" \in Talking \ {"attrs"}
  BY DEF Talking
<1>2. CASE Unexpected(Parsed(code))
  BY <1>1, <1>2, UnexpectedStep
<1>3. CASE Failed("auth") /\ UNCHANGED sent
  BY <1>1, <1>3, TalkFacts, FailedStep DEF Errors
<1>4. CASE Goes("auth_ok", a) /\ UNCHANGED <<sent, said>>
  <2>1. /\ a \in Locals /\ a.stream = att.stream /\ a.key = att.key /\ a.notices = att.notices
        /\ a.mech = att.mech /\ a.verified
    BY <1>1, TalkFacts DEF Locals
  <2>2. Goes("auth_ok", a) /\ sent' = sent /\ said' = said
    BY <1>4
  <2> HIDE DEF a
  <2>3. AuthInv'
    BY <1>1, <2>1, <2>2, TalkFacts DEF Goes, StartupInv, AuthInv, Cancelling, Talking
  <2> QED BY <1>1, <2>1, <2>2, <2>3, TalkFacts, TalkStep
<1> QED BY <1>2, <1>3, <1>4

\* AuthenticationOk keeps the invariant.
LEMMA AuthenticationOkStep == StartupInv /\ AuthenticationOk => StartupInv'
<1> SUFFICES ASSUME StartupInv, pc = "auth_ok", NEW code \in Codes,
               IF Parsed(code) # "ok" THEN Unexpected(Parsed(code))
               ELSE Goes("info", att) /\ UNCHANGED <<sent, said>>
             PROVE StartupInv'
  BY DEF AuthenticationOk
<1>1. pc \in Talking \ {"attrs"} /\ "info" \in Talking \ {"attrs"}
  BY DEF Talking
<1>2. CASE Unexpected(Parsed(code))
  BY <1>1, <1>2, UnexpectedStep
<1>3. CASE Goes("info", att) /\ UNCHANGED <<sent, said>>
  <2>1. AuthInv'
    BY <1>3 DEF Goes, StartupInv, AuthInv, Cancelling, Talking
  <2> QED BY <1>1, <1>3, <2>1, TalkFacts, TalkStep
<1> QED BY <1>2, <1>3

\* connect returns the session it has.
LEMMA EstablishedStep ==
  ASSUME StartupInv, pc \in {"info", "attrs"}, NEW a \in Locals, Established(a), sent' = sent,
         said' \in [key : Nat, notices : Notices, readOnly : {"unknown"} \cup Answers],
         a.mech = att.mech, a.verified = att.verified, a.key = att.key,
         said'.key = said.key, said'.notices = said.notices,
         config.attrs = "any" => a.notices = said.notices,
         config.attrs = "read_write" => said'.readOnly \notin {"unknown", "on"},
         config.attrs = "read_only" => said'.readOnly \notin {"unknown", "off"}
  PROVE  StartupInv'
<1>1. /\ pc' = "done" /\ att' = a /\ token' = [at |-> at, key |-> a.key]
      /\ UNCHANGED <<config, error, tried, todo, addrs, at, resolved>>
  BY DEF Established, hostVars
<1>2. at \in Place(config) /\ at.host # 0 /\ a.key \in Nat
  BY DEF StartupInv, TypeOK, PlaceInv, Locals
<1>3. token' \in [at : Place(config), key : Nat] /\ token'.at = at /\ token'.key = a.key
  BY <1>1, <1>2
<1>4. at # Nowhere
  BY <1>2 DEF Nowhere
<1>5. Cancelling'
  BY <1>3, <1>4 DEF Cancelling, Nowhere
<1>6. TypeOK'
  BY <1>1, <1>3 DEF StartupInv, TypeOK, Talking, Attempting
<1>7. PlaceInv'
  BY <1>1, <1>2, <1>3, <1>5 DEF PlaceInv, Talking
<1>8. AuthInv'
  BY <1>1 DEF StartupInv, AuthInv, Talking
<1>9. InfoInv'
  BY <1>1, <1>3, <1>5 DEF StartupInv, InfoInv, Talking
<1>10. SentSafe(sent)'
  BY <1>1 DEF StartupInv, SentSafe
<1> QED BY <1>6, <1>7, <1>8, <1>9, <1>10 DEF StartupInv

\* The locals and what is known of the session at read_info.
LEMMA InfoFacts ==
  ASSUME StartupInv, pc \in Talking
  PROVE  /\ said \in [key : Nat, notices : Notices, readOnly : {"unknown"} \cup Answers]
         /\ att.key = said.key /\ SessionKey \in Nat /\ Len(said.notices) + 1 \in Nat
         /\ att.notices = said.notices
<1>1. said \in [key : Nat, notices : Notices, readOnly : {"unknown"} \cup Answers]
  BY DEF StartupInv, TypeOK
<1>2. said.notices \in Seq(Nat \X Nat)
  BY <1>1 DEF Notices
<1>3. Len(said.notices) + 1 \in Nat
  BY <1>2
<1>4. tried \in Seq([host : Nat, addr : Nat])
  BY DEF StartupInv, TypeOK
<1>5. SessionKey \in Nat
  BY <1>4 DEF SessionKey
<1> QED BY <1>1, <1>3, <1>5 DEF StartupInv, InfoInv, PlaceInv

\* read_info goes on, with what it has read and what the server has said equal.
LEMMA InfoStep ==
  ASSUME StartupInv, pc = "info", NEW p \in {"info", "attrs"}, NEW a \in Locals, Goes(p, a),
         sent' = sent,
         said' \in [key : Nat, notices : Notices, readOnly : {"unknown"} \cup Answers],
         a.stream = att.stream, a.mech = att.mech, a.verified = att.verified,
         a.key = said'.key, a.notices = said'.notices,
         p = "attrs" => config.attrs # "any"
  PROVE  StartupInv'
<1>1. /\ pc \in Talking /\ p \in Talking /\ p \in InAttempt \cup {"done"}
      /\ p # "socket" /\ p \notin {"cancel", "done"}
  BY DEF Talking, InAttempt
<1>2. /\ ~Cancelling /\ pc \in InAttempt /\ SentSafe(sent)
  BY <1>1, TalkFacts
<1>3. a.stream # "none"
  BY <1>1 DEF StartupInv, TypeOK
<1>4. AuthInv'
  BY <1>1, <1>2 DEF Goes, StartupInv, AuthInv, Cancelling, Talking
<1>5. InfoInv'
  BY <1>1, <1>2 DEF Goes, InfoInv, Cancelling
<1> QED BY <1>1, <1>2, <1>3, <1>4, <1>5, GoesStep

\* ReadInfo keeps the invariant.
LEMMA ReadInfoStep == StartupInv /\ ReadInfo => StartupInv'
<1> SUFFICES ASSUME StartupInv, pc = "info", sent' = sent, NEW code \in Codes,
       CASE code \in {"negotiate", "parameter"} -> Goes("info", att) /\ UNCHANGED said
         [] code = "key" ->
              /\ Goes("info", [att EXCEPT !.key = SessionKey])
              /\ said' = [said EXCEPT !.key = SessionKey]
         [] code = "notice" ->
              LET n == Len(said.notices) + 1 IN
              /\ n <= MaxNotices
              /\ Goes("info", [att EXCEPT !.notices = Append(@, <<SessionKey, n>>)])
              /\ said' = [said EXCEPT !.notices = Append(@, <<SessionKey, n>>)]
         [] code = "ready" ->
              /\ IF config.attrs = "any" THEN Established(att)
                                         ELSE Goes("attrs", att)
              /\ UNCHANGED said
         [] OTHER -> Unexpected(Parsed(code))
     PROVE StartupInv'
  BY DEF ReadInfo
<1> DEFINE SaidType == [key : Nat, notices : Notices, readOnly : {"unknown"} \cup Answers]
<1>1. pc \in Talking /\ pc # "attrs"
  BY DEF Talking
<1>2. /\ att \in Locals /\ said \in SaidType /\ att.key = said.key /\ att.notices = said.notices
      /\ SessionKey \in Nat /\ Len(said.notices) + 1 \in Nat
  BY <1>1, TalkFacts, InfoFacts
<1>3. CASE code \in {"negotiate", "parameter"}
  <2>1. Goes("info", att) /\ said' = said
    BY <1>3
  <2> QED BY <1>2, <2>1, InfoStep
<1>4. CASE code = "key"
  <2> DEFINE a == [att EXCEPT !.key = SessionKey]
  <2>1. Goes("info", a) /\ said' = [said EXCEPT !.key = SessionKey]
    BY <1>4
  <2>2. /\ a \in Locals /\ a.stream = att.stream /\ a.mech = att.mech
        /\ a.verified = att.verified /\ a.key = SessionKey /\ a.notices = att.notices
    BY <1>2 DEF Locals
  <2>3. said' \in SaidType /\ said'.key = SessionKey /\ said'.notices = said.notices
    BY <1>2, <2>1
  <2> HIDE DEF a
  <2> QED BY <1>2, <2>1, <2>2, <2>3, InfoStep
<1>5. CASE code = "notice"
  <2> DEFINE x == <<SessionKey, Len(said.notices) + 1>>
             n == Append(said.notices, x)
             a == [att EXCEPT !.notices = n]
  <2>1. Goes("info", [att EXCEPT !.notices = Append(@, x)]) /\ said' = [said EXCEPT !.notices = Append(@, x)]
    BY <1>5
  <2>2. x \in Nat \X Nat
    BY <1>2
  <2>3. said.notices \in Seq(Nat \X Nat)
    BY <1>2 DEF Notices
  <2>4. n \in Notices
    BY <2>2, <2>3, AppendType, Zenon DEF Notices
  <2> HIDE DEF x
  <2>5. Goes("info", a) /\ said' = [said EXCEPT !.notices = n]
    BY <1>2, <2>1
  <2> HIDE DEF n
  <2>6. /\ a \in Locals /\ a.stream = att.stream /\ a.mech = att.mech
        /\ a.verified = att.verified /\ a.key = att.key /\ a.notices = n
    BY <1>2, <2>4 DEF Locals
  <2>7. said' \in SaidType /\ said'.key = said.key /\ said'.notices = n
    BY <1>2, <2>4, <2>5
  <2> HIDE DEF a
  <2> QED BY <1>2, <2>5, <2>6, <2>7, InfoStep
<1>6. CASE code = "ready" /\ config.attrs = "any"
  <2>1. Established(att) /\ said' = said
    BY <1>6
  <2> QED BY <1>2, <1>6, <2>1, EstablishedStep
<1>7. CASE code = "ready" /\ config.attrs # "any"
  <2>1. Goes("attrs", att) /\ said' = said
    BY <1>7
  <2> QED BY <1>2, <1>7, <2>1, InfoStep
<1>8. CASE code \notin {"negotiate", "parameter", "key", "notice", "ready"}
  <2>1. Unexpected(Parsed(code))
    BY <1>8
  <2> QED BY <1>1, <2>1, UnexpectedStep
<1> QED BY <1>3, <1>4, <1>5, <1>6, <1>7, <1>8

\* CheckAttrs keeps the invariant.
LEMMA CheckAttrsStep == StartupInv /\ CheckAttrs => StartupInv'
<1> SUFFICES ASSUME StartupInv, CheckAttrs PROVE StartupInv'
  OBVIOUS
<1> DEFINE SaidType == [key : Nat, notices : Notices, readOnly : {"unknown"} \cup Answers]
<1>1. pc = "attrs" /\ pc \in Talking /\ sent' = sent
  BY DEF CheckAttrs, Talking
<1>2. /\ att \in Locals /\ said \in SaidType /\ pc \in InAttempt /\ SentSafe(sent) /\ ~Cancelling
      /\ att.key = said.key /\ config \in Configs /\ config.attrs # "any"
  BY <1>1, TalkFacts, InfoFacts DEF StartupInv, InfoInv
<1>3. ASSUME NEW e \in {"unexpected", "column", "db", "closed", "io"}, Failed(e) PROVE StartupInv'
  BY <1>1, <1>2, <1>3, FailedStep DEF Errors
<1>4. ASSUME NEW v \in Answers, said' = [said EXCEPT !.readOnly = v], Refused(v),
             pc' = AfterFailure("connect"), error' = "connect",
             tried' = Append(tried, [host |-> at.host, addr |-> at.addr]),
             UNCHANGED <<config, att, token, hostVars>>
      PROVE  StartupInv'
  <2>1. /\ said' \in SaidType /\ pc' = "addr" /\ ~Cancelling'
        /\ UNCHANGED <<todo, addrs, at, resolved>>
    BY <1>2, <1>4 DEF AfterFailure, Cancelling, hostVars
  <2>2. at.host # 0 /\ at.host \in Nat /\ at.addr \in Nat
    BY <1>1, <1>2, ConfigFacts DEF StartupInv, PlaceInv, TypeOK, Place
  <2>3. [host |-> at.host, addr |-> at.addr] \in [host : Nat, addr : Nat]
    BY <2>2
  <2>4. tried \in Seq([host : Nat, addr : Nat])
    BY DEF StartupInv, TypeOK
  <2>5. tried' \in Seq([host : Nat, addr : Nat])
    BY <1>4, <2>3, <2>4, AppendType, Zenon
  <2>6. TypeOK'
    BY <1>4, <2>1, <2>5 DEF StartupInv, TypeOK, Talking, Attempting, Errors
  <2>7. PlaceInv' /\ AuthInv' /\ InfoInv'
    BY <2>1, <2>2 DEF PlaceInv, AuthInv, InfoInv, Talking
  <2>8. SentSafe(sent)'
    BY <1>1, <1>2, <1>4 DEF SentSafe
  <2> QED BY <2>6, <2>7, <2>8 DEF StartupInv
<1>5. ASSUME NEW v \in Answers, said' = [said EXCEPT !.readOnly = v], ~Refused(v),
             Established([att EXCEPT !.notices = <<>>])
      PROVE  StartupInv'
  <2> DEFINE a == [att EXCEPT !.notices = <<>>]
  <2>1. /\ said' \in SaidType /\ said'.key = said.key /\ said'.notices = said.notices
        /\ said'.readOnly = v
    BY <1>2, <1>5 DEF Answers
  <2>2. <<>> \in Notices
    BY DEF Notices
  <2>3. /\ a \in Locals /\ a.mech = att.mech /\ a.verified = att.verified /\ a.key = att.key
        /\ a.notices = <<>>
    BY <1>2, <2>2 DEF Locals
  <2>4. /\ config.attrs = "read_write" => v \notin {"unknown", "on"}
        /\ config.attrs = "read_only" => v \notin {"unknown", "off"}
    BY <1>5 DEF Refused, Answers
  <2> HIDE DEF a
  <2> QED BY <1>1, <1>2, <1>5, <2>1, <2>3, <2>4, EstablishedStep DEF a
<1> QED BY <1>3, <1>4, <1>5 DEF CheckAttrs

-----------------------------------------------------------------------------
(***************************************************************************)
(* Canceling a query.                                                      *)
(***************************************************************************)
\* CancelQuery keeps the invariant.
LEMMA CancelQueryStep == StartupInv /\ CancelQuery => StartupInv'
<1> SUFFICES ASSUME StartupInv, CancelQuery PROVE StartupInv'
  OBVIOUS
<1>1. /\ pc = "done" /\ pc' = "socket" /\ at' = token.at
      /\ UNCHANGED <<config, error, todo, addrs, resolved, att, sent, said, tried, token>>
  BY DEF CancelQuery, CancelAt
<1>2. Cancelling /\ Cancelling' /\ config \in Configs /\ token \in [at : Place(config), key : Nat]
  BY <1>1 DEF StartupInv, PlaceInv, TypeOK, Cancelling
<1>3. token.at \in Place(config)
  BY <1>2
<1>4. /\ NumHosts(config) \in Nat
      /\ \A i \in 1 .. NumHosts(config) : i <= Len(config.host) \/ i <= config.hostaddr
  BY <1>2, ConfigFacts
<1>5. at'.host > 0 => at'.host <= Len(config.host) \/ at'.host <= config.hostaddr
  BY <1>1, <1>3, <1>4 DEF Place
<1>6. TypeOK'
  BY <1>1, <1>3, <1>5 DEF StartupInv, TypeOK, Talking, Attempting
<1>7. AuthInv' /\ InfoInv'
  BY <1>1, <1>2 DEF StartupInv, AuthInv, InfoInv, Talking
<1>8. SentSafe(sent)'
  BY <1>1 DEF StartupInv, SentSafe
<1>9. at'.host # 0
  BY <1>1, <1>2, <1>3 DEF StartupInv, PlaceInv, Cancelling, Place, Nowhere
<1>10. PlaceInv'
  BY <1>1, <1>2, <1>9 DEF PlaceInv, Talking
<1> QED BY <1>6, <1>7, <1>8, <1>10 DEF StartupInv

\* SendCancel keeps the invariant.
LEMMA SendCancelStep == StartupInv /\ SendCancel => StartupInv'
<1> SUFFICES ASSUME StartupInv, SendCancel PROVE StartupInv'
  OBVIOUS
<1>1. pc = "cancel" /\ pc \in InAttempt /\ Cancelling /\ att \in Locals /\ SendThen("cancel", "done", att)
  BY DEF SendCancel, InAttempt, StartupInv, PlaceInv, TypeOK
<1>2. config' = config /\ sent' = sent \cup {[what |-> "cancel", over |-> att.stream]}
  BY <1>1 DEF SendThen, Goes, Failed
<1>3. config.ssl = "require" => att.stream = "tls"
  BY <1>1 DEF StartupInv, AuthInv
<1>4. SentSafe(sent')
  BY <1>2, <1>3, SendSafe DEF PasswordKinds
<1>5. CASE Failed("io")
  BY <1>1, <1>4, <1>5, FailedStep DEF Errors
<1>6. CASE Goes("done", att) /\ said' = said
  <2>1. AuthInv'
    BY <1>1, <1>6 DEF Goes, StartupInv, AuthInv, Cancelling, Talking
  <2>2. "done" \notin Talking /\ "done" \in InAttempt \cup {"done"}
    BY DEF Talking
  <2> QED BY <1>1, <1>4, <1>6, <2>1, <2>2, GoesQuietly
<1> QED BY <1>1, <1>5, <1>6 DEF SendThen

-----------------------------------------------------------------------------
(***************************************************************************)
(* The theorems.                                                           *)
(***************************************************************************)

\* Every step keeps the invariant.
LEMMA StartupNext == StartupInv /\ [Next]_vars => StartupInv'
<1> SUFFICES ASSUME StartupInv, [Next]_vars PROVE StartupInv'
  OBVIOUS
<1>1. CASE UNCHANGED vars
  BY <1>1 DEF vars, hostVars, StartupInv, TypeOK, PlaceInv, AuthInv, InfoInv, SentSafe, Cancelling
<1>2. CASE Connect \/ NextHost \/ NoHostLeft \/ Resolve \/ NextAddr
  BY <1>2, ConnectStep, NextHostStep, NoHostLeftStep, ResolveStep, NextAddrStep
<1>3. CASE ConnectSocket \/ ConnectTls \/ SslAnswer \/ Handshake
  BY <1>3, ConnectSocketStep, ConnectTlsStep, SslAnswerStep, HandshakeStep
<1>4. CASE SendStartup \/ Authenticate \/ SaslContinue \/ SaslFinal \/ AuthenticationOk
  BY <1>4, SendStartupStep, AuthenticateStep, SaslContinueStep, SaslFinalStep, AuthenticationOkStep
<1>5. CASE ReadInfo \/ CheckAttrs \/ CancelQuery \/ SendCancel
  BY <1>5, ReadInfoStep, CheckAttrsStep, CancelQueryStep, SendCancelStep
<1> QED BY <1>1, <1>2, <1>3, <1>4, <1>5 DEF Next

\* The invariant holds in every behaviour.
LEMMA StartupInvariant == Spec => []StartupInv
BY StartupInit, StartupNext, PTL DEF Spec

\* Startup is well typed: no stream is used before there is one and no host is
\* asked for that the Config does not have.
THEOREM StartupTypeCorrect == Spec => []TypeOK
<1>1. StartupInv => TypeOK
  BY DEF StartupInv
<1> QED BY <1>1, StartupInvariant, PTL

\* sslmode=require holds at every host and address, and for cancel requests.
THEOREM StartupRequiresTls == Spec => []RequireMeansTls
<1>1. StartupInv => RequireMeansTls
  BY DEF StartupInv, SentSafe, RequireMeansTls
<1> QED BY <1>1, StartupInvariant, PTL

\* channel_binding=require lets no session begin without channel binding.
THEOREM StartupRequiresBinding == Spec => []BindingRequired
<1>1. StartupInv => BindingRequired
  BY DEF StartupInv, SentSafe, AuthInv, PlaceInv, BindingRequired
<1> QED BY <1>1, StartupInvariant, PTL

\* SCRAM always ends with the server's signature checked.
THEOREM StartupVerifiesServer == Spec => []ServerVerified
<1>1. StartupInv => ServerVerified
  BY DEF StartupInv, AuthInv, ServerVerified
<1> QED BY <1>1, StartupInvariant, PTL

\* The Connection and the CancelToken have the data of their own session.
THEOREM StartupHandsOver == Spec => []HandsOverItsOwn
<1>1. StartupInv => HandsOverItsOwn
  BY DEF StartupInv, InfoInv, PlaceInv, HandsOverItsOwn
<1> QED BY <1>1, StartupInvariant, PTL

\* The session has been asked for its kind, and has not answered that it is the
\* other one.
THEOREM StartupMeetsTarget == Spec => []TargetSessionMet
<1>1. StartupInv => TargetSessionMet
  BY DEF StartupInv, InfoInv, PlaceInv, TargetSessionMet
<1> QED BY <1>1, StartupInvariant, PTL

-----------------------------------------------------------------------------
(***************************************************************************)
(* How far connect has got: every host is still to come, being tried, or   *)
(* done with, and so is every address of the host being tried.             *)
(***************************************************************************)

\* Places after which connect has not yet left the host at hand, or its address.
AtHost == InAttempt \cup {"resolve", "addr", "done"}
AtAddr == InAttempt \cup {"done"}

WasTried(i, a) == \E k \in DOMAIN tried : tried[k].host = i /\ tried[k].addr = a
AllTried(i)    == \A a \in 1 .. resolved[i] : WasTried(i, a)
HostDone(i)    == AllTried(i) /\ \E a \in 0 .. resolved[i] : WasTried(i, a)

\* The hosts: each comes up once.
HostsInv ==
  /\ pc = "start" =>
       at.host = 0 /\ todo = <<>> /\ tried = <<>> /\ \A i \in DOMAIN resolved : resolved[i] = 0
  /\ pc \notin {"start", "failed"} => Valid(config)
  /\ \A j, k \in 1 .. Len(todo) : j # k => todo[j] # todo[k]
  /\ \A j \in 1 .. Len(todo) :
       /\ todo[j] # at.host /\ resolved[todo[j]] = 0
       /\ \A k \in DOMAIN tried : tried[k].host # todo[j]
  /\ pc = "resolve" => resolved[at.host] = 0 /\ \A k \in DOMAIN tried : tried[k].host # at.host
  /\ pc # "start" /\ Valid(config) =>
       /\ \A i \in 1 .. NumHosts(config) :
            \/ \E j \in 1 .. Len(todo) : todo[j] = i
            \/ i = at.host /\ pc \in AtHost
            \/ HostDone(i)
       /\ pc = "failed" => todo = <<>>
       /\ ~config.random =>
            /\ \A j \in 1 .. Len(todo) : todo[j] = NumHosts(config) - Len(todo) + j
            /\ at.host = NumHosts(config) - Len(todo)

\* The addresses of the host at hand: each comes up once.
AddrsInv ==
  /\ pc \in {"start", "host", "resolve", "failed"} => addrs = <<>>
  /\ \A j, k \in 1 .. Len(addrs) : j # k => addrs[j] # addrs[k]
  /\ \A j \in 1 .. Len(addrs) :
       ~WasTried(at.host, addrs[j]) /\ (pc \in AtAddr => addrs[j] # at.addr)
  /\ pc \in AtAddr => ~WasTried(at.host, at.addr)
  /\ pc \in AtAddr \cup {"addr"} =>
       /\ resolved[at.host] >= 1
       /\ \A a \in 1 .. resolved[at.host] :
            \/ \E j \in 1 .. Len(addrs) : addrs[j] = a
            \/ a = at.addr /\ pc \in AtAddr
            \/ WasTried(at.host, a)

\* The session a cancel request is for.
CancelInv ==
  /\ Cancelling => at = token.at
  /\ (\E m \in sent : m.what = "cancel") => Cancelling
  /\ pc \in {"tls", "ssl_answer", "handshake"} \cup Talking \/ Cancelling =>
       said.key \in {0, SessionKey}

WalkInv == HostsInv /\ AddrsInv /\ CancelInv

\* What was tried stays tried.
LEMMA TriedGrows ==
  ASSUME StartupInv, NEW x, tried' = tried \/ tried' = Append(tried, x)
  PROVE  /\ \A i, a : WasTried(i, a) => WasTried(i, a)'
         /\ DOMAIN tried = 1 .. Len(tried) /\ Len(tried) \in Nat
<1>1. tried \in Seq([host : Nat, addr : Nat])
  BY DEF StartupInv, TypeOK
<1>2. DOMAIN tried = 1 .. Len(tried) /\ Len(tried) \in Nat
  BY <1>1
<1>3. DOMAIN tried \subseteq DOMAIN tried' /\ \A k \in DOMAIN tried : tried'[k] = tried[k]
  BY <1>1, <1>2
<1> QED BY <1>2, <1>3 DEF WasTried

\* An attempt is noted after those before it.
LEMMA TriedAppend ==
  ASSUME StartupInv, NEW x, tried' = Append(tried, x)
  PROVE  /\ WasTried(x.host, x.addr)'
         /\ \A k \in DOMAIN tried' : (k \in DOMAIN tried /\ tried'[k] = tried[k]) \/ tried'[k] = x
<1>1. tried \in Seq([host : Nat, addr : Nat])
  BY DEF StartupInv, TypeOK
<1>2. /\ Len(tried) \in Nat /\ DOMAIN tried = 1 .. Len(tried) /\ DOMAIN tried' = 1 .. Len(tried) + 1
      /\ tried'[Len(tried) + 1] = x /\ \A k \in 1 .. Len(tried) : tried'[k] = tried[k]
  BY <1>1
<1> QED BY <1>2 DEF WasTried

\* The walk stands still while an attempt is under way.
LEMMA WalkRests ==
  ASSUME StartupInv, WalkInv, pc \in AtAddr, pc' \in AtAddr,
         UNCHANGED <<config, todo, addrs, at, resolved, tried>>
  PROVE  HostsInv' /\ AddrsInv'
<1>0. pc \notin {"start", "host", "resolve", "failed", "addr"} /\ pc \in AtHost
      /\ pc' \notin {"start", "host", "resolve", "failed", "addr"} /\ pc' \in AtHost
  BY DEF AtAddr, AtHost, InAttempt, Attempting, Talking
<1>1. /\ \A i, a : WasTried(i, a)' <=> WasTried(i, a)
      /\ \A i : HostDone(i)' <=> HostDone(i)
  BY DEF WasTried, HostDone, AllTried
<1>2. HostsInv'
  BY <1>0, <1>1 DEF WalkInv, HostsInv
<1>3. AddrsInv'
  BY <1>0, <1>1 DEF WalkInv, AddrsInv
<1> QED BY <1>2, <1>3

\* An attempt that fails was the only one at its address.
LEMMA WalkFails ==
  ASSUME StartupInv, WalkInv, pc \in AtAddr, pc' = "addr",
         tried' = Append(tried, [host |-> at.host, addr |-> at.addr]),
         UNCHANGED <<config, todo, addrs, at, resolved>>
  PROVE  HostsInv' /\ AddrsInv'
<1>0. pc \notin {"start", "host", "resolve", "failed", "addr"} /\ pc \in AtHost
      /\ pc' \notin AtAddr /\ pc' \in AtHost
  BY DEF AtAddr, AtHost, InAttempt, Attempting, Talking
<1>1. /\ \A i, a : WasTried(i, a) => WasTried(i, a)'
      /\ WasTried(at.host, at.addr)'
      /\ \A k \in DOMAIN tried' :
           \/ k \in DOMAIN tried /\ tried'[k] = tried[k]
           \/ tried'[k].host = at.host /\ tried'[k].addr = at.addr
  <2>1. PICK x : tried' = Append(tried, x) /\ x.host = at.host /\ x.addr = at.addr
    OBVIOUS
  <2>2. \A i, a : WasTried(i, a) => WasTried(i, a)'
    BY <2>1, TriedGrows
  <2>3. /\ WasTried(x.host, x.addr)'
        /\ \A k \in DOMAIN tried' : (k \in DOMAIN tried /\ tried'[k] = tried[k]) \/ tried'[k] = x
    BY <2>1, TriedAppend
  <2>4. WasTried(at.host, at.addr)'
    BY <2>1, <2>3 DEF WasTried
  <2> QED BY <2>1, <2>2, <2>3, <2>4
<1>2. \A i : HostDone(i) => HostDone(i)'
  BY <1>1 DEF HostDone, AllTried
<1>3. ASSUME NEW j \in 1 .. Len(todo), NEW k \in DOMAIN tried' PROVE tried'[k].host # todo[j]
  BY <1>1 DEF WalkInv, HostsInv
<1>4. HostsInv'
  BY <1>0, <1>2, <1>3 DEF WalkInv, HostsInv
<1>5. ASSUME NEW j \in 1 .. Len(addrs) PROVE ~WasTried(at.host, addrs[j])'
  BY <1>1 DEF WalkInv, AddrsInv, WasTried
<1>6. AddrsInv'
  BY <1>0, <1>1, <1>5 DEF WalkInv, AddrsInv
<1> QED BY <1>4, <1>6

\* Steps of an attempt.
AttemptVars == <<config, todo, addrs, at, resolved, tried, token>>

\* A step within the attempt on one address keeps the walk: hosts and addresses stay.
LEMMA WalkGoes ==
  ASSUME StartupInv, WalkInv, pc \in AtAddr, pc' \in AtAddr, UNCHANGED AttemptVars,
         \A m \in sent' : m.what = "cancel" => m \in sent \/ Cancelling,
         pc' \in {"tls", "ssl_answer", "handshake"} \cup Talking \/ Cancelling =>
           said'.key \in {0, SessionKey}
  PROVE  WalkInv'
<1>1. HostsInv' /\ AddrsInv'
  BY WalkRests DEF AttemptVars
<1>2. CancelInv'
  BY DEF WalkInv, CancelInv, AttemptVars, Cancelling, SessionKey
<1> QED BY <1>1, <1>2 DEF WalkInv

\* A failed attempt, of connect or of cancel_query.
LEMMA WalkFailed ==
  ASSUME StartupInv, WalkInv, NEW e, pc \in InAttempt, Failed(e),
         \A m \in sent' : m.what = "cancel" => m \in sent \/ Cancelling
  PROVE  WalkInv'
<1>0. pc \in AtAddr
  BY DEF AtAddr
<1>1. CASE Cancelling
  <2>1. pc' = "done" /\ UNCHANGED AttemptVars /\ said' = said
    BY <1>1 DEF Failed, AttemptVars, hostVars
  <2>2. said'.key \in {0, SessionKey}
    BY <1>1, <2>1 DEF WalkInv, CancelInv
  <2>3. pc' \in AtAddr
    BY <2>1 DEF AtAddr
  <2> QED BY <1>0, <2>1, <2>2, <2>3, WalkGoes
<1>2. CASE ~Cancelling
  <2>1. /\ pc' = "addr" /\ tried' = Append(tried, [host |-> at.host, addr |-> at.addr])
        /\ UNCHANGED <<config, todo, addrs, at, resolved, token>>
    BY <1>2 DEF Failed, AfterFailure, hostVars
  <2>2. HostsInv' /\ AddrsInv'
    BY <1>0, <2>1, WalkFails
  <2>3. CancelInv'
    BY <1>2, <2>1 DEF WalkInv, CancelInv, Cancelling, Talking
  <2> QED BY <2>2, <2>3 DEF WalkInv
<1> QED BY <1>1, <1>2

\* So does a step that sends one message of the handshake.
LEMMA WalkSends ==
  ASSUME StartupInv, WalkInv, NEW w, NEW p \in AtAddr, NEW a, SendThen(w, p, a), pc \in InAttempt,
         pc # "socket", pc \in {"tls", "ssl_answer", "handshake"} \cup Talking \/ Cancelling,
         w = "cancel" => Cancelling
  PROVE  WalkInv'
<1>1. \A m \in sent' : m.what = "cancel" => m \in sent \/ Cancelling
  BY DEF SendThen
<1>2. CASE Goes(p, a) /\ UNCHANGED said
  <2>1. pc' = p /\ UNCHANGED AttemptVars /\ pc \in AtAddr
    BY <1>2 DEF Goes, AttemptVars, hostVars, AtAddr
  <2>2. said'.key \in {0, SessionKey}
    BY <1>2 DEF WalkInv, CancelInv
  <2> QED BY <1>1, <2>1, <2>2, WalkGoes
<1>3. CASE Failed("io")
  BY <1>1, <1>3, WalkFailed
<1> QED BY <1>2, <1>3 DEF SendThen

\* And one that sends nothing.
LEMMA WalkQuiet ==
  ASSUME StartupInv, WalkInv, NEW p \in AtAddr, NEW a, Goes(p, a), pc \in InAttempt, UNCHANGED sent,
         said'.key = said.key \/ said'.key \in {0, SessionKey},
         pc \in {"tls", "ssl_answer", "handshake"} \cup Talking \/ Cancelling
  PROVE  WalkInv'
<1>1. pc' = p /\ UNCHANGED AttemptVars /\ pc \in AtAddr
  BY DEF Goes, AttemptVars, hostVars, AtAddr
<1>2. said'.key \in {0, SessionKey}
  BY DEF WalkInv, CancelInv
<1> QED BY <1>1, <1>2, WalkGoes


-----------------------------------------------------------------------------
(***************************************************************************)
(* The steps of the walk.                                                  *)
(***************************************************************************)

\* An order of 1 .. n is a sequence in which each of them comes up once.
LEMMA OrdersCover ==
  ASSUME NEW n \in Nat, NEW r \in BOOLEAN, NEW s \in Orders(n, r)
  PROVE  /\ Len(s) = n /\ DOMAIN s = 1 .. n /\ s \in [1 .. n -> 1 .. n]
         /\ \A j, k \in 1 .. n : j # k => s[j] # s[k]
         /\ \A i \in 1 .. n : \E j \in 1 .. n : s[j] = i
         /\ ~r => \A j \in 1 .. n : s[j] = j
<1>1. s \in [1 .. n -> 1 .. n] /\ (~r => \A j \in 1 .. n : s[j] = j)
      /\ (r => \A j, k \in 1 .. n : j # k => s[j] # s[k])
  BY DEF Orders
<1>2. \A j, k \in 1 .. n : j # k => s[j] # s[k]
  BY <1>1
<1>3. ASSUME NEW i \in 1 .. n, \A j \in 1 .. n : s[j] # i PROVE FALSE
  <2>1. s \in [1 .. n -> (1 .. n) \ {i}]
    BY <1>1, <1>3
  <2>2. IsFiniteSet(1 .. n) /\ Cardinality(1 .. n) = n
    BY FS_Interval
  <2>3. IsFiniteSet((1 .. n) \ {i}) /\ Cardinality((1 .. n) \ {i}) = n - 1
    <3>1. IsFiniteSet((1 .. n) \ {i})
      BY <2>2, FS_RemoveElement
    <3>2. i \in 1 .. n /\ n \in Nat
      BY <1>3
    <3>3. Cardinality((1 .. n) \ {i}) = Cardinality(1 .. n) - 1
      BY <2>2, <3>2, FS_RemoveElement, Zenon
    <3> QED BY <2>2, <3>1, <3>3
  <2> DEFINE T == (1 .. n) \ {i}
  <2>a. s \in [1 .. n -> T] /\ IsFiniteSet(T) /\ Cardinality(T) = n - 1 /\ n - 1 < n
    BY <2>1, <2>3
  <2>b. Cardinality(T) < Cardinality(1 .. n)
    BY <2>2, <2>a
  <2> HIDE DEF T
  <2>4. \E j, k \in 1 .. n : j # k /\ s[j] = s[k]
    BY <2>a, <2>b, <2>2, FS_PigeonHole, Zenon
  <2> QED BY <1>2, <2>4
<1>4. Len(s) = n /\ DOMAIN s = 1 .. n
  BY <1>1
<1> QED BY <1>1, <1>2, <1>3, <1>4

\* No session is cancelled while connect walks.
LEMMA WalkNoCancel ==
  ASSUME StartupInv, WalkInv, pc \in {"start", "host", "resolve", "addr"},
         pc' \in {"host", "resolve", "addr", "failed", "socket"}, UNCHANGED <<sent, token>>
  PROVE  CancelInv'
<1>1. ~Cancelling /\ ~Cancelling'
  BY DEF StartupInv, PlaceInv, Cancelling
<1> QED BY <1>1 DEF WalkInv, CancelInv, Talking, Cancelling

\* The places of the walk are none of those of an attempt.
LEMMA WalkPlaces ==
  /\ "start" \notin AtHost \cup AtAddr /\ "host" \notin AtHost \cup AtAddr
  /\ "failed" \notin AtHost \cup AtAddr
  /\ "resolve" \in AtHost \ AtAddr /\ "addr" \in AtHost \ AtAddr
  /\ "socket" \in AtHost \cap AtAddr /\ "done" \in AtHost \cap AtAddr
BY DEF AtHost, AtAddr, InAttempt, Attempting, Talking

\* The types of what the walk over hosts and addresses keeps.
LEMMA WalkTypes ==
  ASSUME StartupInv
  PROVE  /\ config \in Configs /\ config.random \in BOOLEAN /\ NumHosts(config) \in Nat
         /\ todo \in Seq(1 .. NumHosts(config)) /\ Len(todo) \in Nat
         /\ addrs \in Seq(1 .. MaxOf(1, MaxAddrs)) /\ Len(addrs) \in Nat
         /\ DOMAIN resolved = 1 .. NumHosts(config)
         /\ \A i \in 1 .. NumHosts(config) : resolved[i] \in Nat
         /\ at.host \in 0 .. NumHosts(config) /\ at.addr \in Nat
<1>1. config \in Configs /\ NumHosts(config) \in Nat /\ MaxOf(1, MaxAddrs) \in Nat
  BY ConfigFacts DEF StartupInv, TypeOK
<1>2. config.random \in BOOLEAN
  BY <1>1, StartupAssumption
<1>3. todo \in Seq(1 .. NumHosts(config)) /\ addrs \in Seq(1 .. MaxOf(1, MaxAddrs))
  BY DEF StartupInv, TypeOK
<1>4. Len(todo) \in Nat /\ Len(addrs) \in Nat
  BY <1>3
<1>5. resolved \in [1 .. NumHosts(config) -> Nat]
  BY DEF StartupInv, TypeOK
<1>6. at \in Place(config)
  BY DEF StartupInv, TypeOK
<1>7. at.host \in 0 .. NumHosts(config) /\ at.addr \in Nat
  BY <1>1, <1>6 DEF Place
<1> QED BY <1>1, <1>2, <1>3, <1>4, <1>5, <1>7

\* At the start every host is still to come.
LEMMA ConnectWalk == StartupInv /\ WalkInv /\ Connect => WalkInv'
<1> SUFFICES ASSUME StartupInv, WalkInv, Connect PROVE WalkInv'
  OBVIOUS
<1>1. /\ pc = "start" /\ pc' \in {"host", "failed"}
      /\ UNCHANGED <<config, addrs, at, att, sent, said, tried, resolved, token>>
  BY DEF Connect
<1>2. /\ NumHosts(config) \in Nat /\ config.random \in BOOLEAN
      /\ DOMAIN resolved = 1 .. NumHosts(config)
  BY WalkTypes
<1>3. /\ at.host = 0 /\ todo = <<>> /\ tried = <<>> /\ addrs = <<>>
      /\ \A i \in 1 .. NumHosts(config) : resolved[i] = 0
  BY <1>1, <1>2 DEF WalkInv, HostsInv, AddrsInv
<1>4. AddrsInv'
  BY <1>1, <1>3, WalkPlaces DEF AddrsInv
<1>5. CancelInv'
  BY <1>1, WalkNoCancel
<1>6. CASE ~Valid(config)
  <2>1. pc' = "failed" /\ todo' = <<>> /\ ~Valid(config)'
    BY <1>1, <1>3, <1>6 DEF Connect
  <2>2. HostsInv'
    BY <2>1 DEF HostsInv
  <2> QED BY <1>4, <1>5, <2>2 DEF WalkInv
<1>7. CASE Valid(config)
  <2>1. pc' = "host" /\ todo' \in Orders(NumHosts(config), config.random)
    BY <1>7 DEF Connect
  <2>2. PICK s \in Orders(NumHosts(config), config.random) : todo' = s
    BY <2>1
  <2>3. /\ Len(s) = NumHosts(config) /\ s \in [1 .. NumHosts(config) -> 1 .. NumHosts(config)]
        /\ \A j, k \in 1 .. NumHosts(config) : j # k => s[j] # s[k]
        /\ \A i \in 1 .. NumHosts(config) : \E j \in 1 .. NumHosts(config) : s[j] = i
        /\ ~config.random => \A j \in 1 .. NumHosts(config) : s[j] = j
    <3>1. PICK n \in Nat, r \in BOOLEAN : n = NumHosts(config) /\ r = config.random
      BY <1>2
    <3>2. s \in Orders(n, r)
      BY <3>1
    <3>3. /\ Len(s) = n /\ s \in [1 .. n -> 1 .. n]
          /\ \A j, k \in 1 .. n : j # k => s[j] # s[k]
          /\ \A i \in 1 .. n : \E j \in 1 .. n : s[j] = i
          /\ ~r => \A j \in 1 .. n : s[j] = j
      BY <3>2, OrdersCover
    <3> QED BY <3>1, <3>3, Zenon
  <2>4. ASSUME NEW j \in 1 .. NumHosts(config) PROVE s[j] # 0 /\ resolved[s[j]] = 0
    <3>1. s[j] \in 1 .. NumHosts(config)
      BY <2>3
    <3>2. resolved[s[j]] = 0
      BY <1>3, <3>1
    <3> QED BY <3>1, <3>2
  <2>5. \A k \in DOMAIN tried' : FALSE
    BY <1>1, <1>3
  <2>6. NumHosts(config)' = NumHosts(config) /\ Valid(config)'
    BY <1>1, <1>7
  <2>7. HostsInv'
    BY <1>1, <1>2, <1>3, <2>1, <2>2, <2>3, <2>4, <2>5, <2>6 DEF HostsInv
  <2> QED BY <1>4, <1>5, <2>7 DEF WalkInv
<1> QED BY <1>6, <1>7

\* The next host leaves the ones to come for the one being tried.
LEMMA NextHostWalk == StartupInv /\ WalkInv /\ NextHost => WalkInv'
<1> SUFFICES ASSUME StartupInv, WalkInv, NextHost PROVE WalkInv'
  OBVIOUS
<1>1. /\ pc = "host" /\ pc' \in {"addr", "resolve"} /\ todo' = Tail(todo) /\ todo # <<>>
      /\ at'.host = Head(todo)
      /\ UNCHANGED <<config, sent, said, tried, token>>
      /\ \/ addrs' = <<1>> /\ pc' = "addr" /\ resolved' = [resolved EXCEPT ![Head(todo)] = 1]
         \/ pc' = "resolve" /\ addrs' = addrs /\ resolved' = resolved
  BY DEF NextHost
<1>2. PICK N \in Nat : N = NumHosts(config) /\ NumHosts(config)' = N
  BY <1>1, WalkTypes
<1>3. /\ todo \in Seq(1 .. N) /\ DOMAIN resolved = 1 .. N /\ Len(todo) \in Nat
  BY <1>2, WalkTypes
<1>4. PICK h \in 1 .. N : h = Head(todo) /\ h = todo[1]
  BY <1>1, <1>3
<1>5. /\ Len(todo') = Len(todo) - 1 /\ Len(todo) >= 1 /\ Len(todo') \in Nat
      /\ \A j \in 1 .. Len(todo') : /\ todo'[j] = todo[j + 1] /\ j + 1 \in 1 .. Len(todo)
                                    /\ todo'[j] \in 1 .. N
      /\ \A j \in 1 .. Len(todo) : j = 1 \/ j - 1 \in 1 .. Len(todo')
      /\ \A j \in 1 .. Len(todo) : j # 1 => todo[j] = todo'[j - 1]
  BY <1>1, <1>3
<1>6. /\ \A j, k \in 1 .. Len(todo) : j # k => todo[j] # todo[k]
      /\ \A j \in 1 .. Len(todo) : resolved[todo[j]] = 0 /\ \A k \in DOMAIN tried : tried[k].host # todo[j]
      /\ Valid(config)
      /\ \A i \in 1 .. N : \/ \E j \in 1 .. Len(todo) : todo[j] = i
                           \/ HostDone(i)
      /\ ~config.random =>
           /\ \A j \in 1 .. Len(todo) : todo[j] = N - Len(todo) + j
  BY <1>1, <1>2, WalkPlaces DEF WalkInv, HostsInv
<1>7. /\ resolved[h] = 0 /\ \A k \in DOMAIN tried : tried[k].host # h
      /\ \A i \in 1 .. N : i # h => resolved'[i] = resolved[i]
      /\ \A j \in 1 .. Len(todo') : todo'[j] # h
  <2>1. 1 \in 1 .. Len(todo)
    BY <1>5
  <2>2. \A j \in 1 .. Len(todo') : j + 1 # 1 /\ j + 1 \in 1 .. Len(todo)
    BY <1>5
  <2>3. resolved[h] = 0 /\ \A k \in DOMAIN tried : tried[k].host # h
    BY <1>4, <1>6, <2>1
  <2>4. \A i \in 1 .. N : i # h => resolved'[i] = resolved[i]
    BY <1>1, <1>3, <1>4
  <2>5. \A j \in 1 .. Len(todo') : todo'[j] # h
    BY <1>4, <1>5, <1>6, <2>1, <2>2
  <2> QED BY <2>3, <2>4, <2>5
<1>8. \A i, a : WasTried(i, a)' <=> WasTried(i, a)
  BY <1>1 DEF WasTried
<1>9. \A i \in 1 .. N : HostDone(i) => HostDone(i)' /\ i # h
  <2>1. \A i \in 1 .. N : HostDone(i) => i # h
    BY <1>7 DEF HostDone, WasTried
  <2>2. \A i \in 1 .. N : i # h /\ HostDone(i) => HostDone(i)'
    BY <1>7, <1>8 DEF HostDone, AllTried
  <2> QED BY <2>1, <2>2
<1>10. HostsInv'
  <2>1. \A j, k \in 1 .. Len(todo') : j # k => todo'[j] # todo'[k]
    <3>1. \A j, k \in 1 .. Len(todo) : j # k => todo[j] # todo[k]
      BY <1>6
    <3>2. \A j \in 1 .. Len(todo') : todo'[j] = todo[j + 1] /\ j + 1 \in 1 .. Len(todo)
      BY <1>5
    <3> QED BY <1>5, <3>1, <3>2
  <2>2. \A j \in 1 .. Len(todo') :
          /\ todo'[j] # at'.host /\ resolved'[todo'[j]] = 0
          /\ \A k \in DOMAIN tried' : tried'[k].host # todo'[j]
    BY <1>1, <1>4, <1>5, <1>6, <1>7
  <2>3. pc' = "resolve" => resolved'[at'.host] = 0 /\ \A k \in DOMAIN tried' : tried'[k].host # at'.host
    BY <1>1, <1>4, <1>7
  <2>4. \A i \in 1 .. N : \/ \E j \in 1 .. Len(todo') : todo'[j] = i
                          \/ i = at'.host /\ pc' \in AtHost
                          \/ HostDone(i)'
    <3> SUFFICES ASSUME NEW i \in 1 .. N, ~HostDone(i)
                 PROVE  \/ \E j \in 1 .. Len(todo') : todo'[j] = i
                        \/ i = at'.host /\ pc' \in AtHost
      BY <1>9
    <3>1. PICK j \in 1 .. Len(todo) : todo[j] = i
      BY <1>6, Zenon
    <3>2. CASE j = 1
      BY <1>1, <1>4, <3>1, <3>2, WalkPlaces
    <3>3. CASE j # 1
      BY <1>5, <3>1, <3>3
    <3> QED BY <3>2, <3>3
  <2>5. ~config.random => /\ \A j \in 1 .. Len(todo') : todo'[j] = N - Len(todo') + j
                          /\ at'.host = N - Len(todo')
    <3>1. \A j \in 1 .. Len(todo') : todo'[j] = todo[j + 1] /\ j + 1 \in 1 .. Len(todo)
      BY <1>5
    <3>2. 1 \in 1 .. Len(todo)
      BY <1>5
    <3> QED BY <1>1, <1>3, <1>4, <1>5, <1>6, <3>1, <3>2
  <2>6. pc' \notin {"start", "failed"} /\ Valid(config)' /\ config'.random = config.random
    BY <1>1, <1>6
  <2> QED BY <1>2, <2>1, <2>2, <2>3, <2>4, <2>5, <2>6 DEF HostsInv
<1>11. AddrsInv'
  <2>1. \A a : ~WasTried(h, a)'
    <3>1. \A a : ~WasTried(h, a)
      BY <1>7 DEF WasTried
    <3> QED BY <1>8, <3>1
  <2>2. CASE addrs' = <<1>> /\ pc' = "addr" /\ resolved' = [resolved EXCEPT ![Head(todo)] = 1]
    <3>1. at'.host = h /\ resolved'[h] = 1
      BY <1>1, <1>3, <1>4, <2>2
    <3>2. Len(addrs') = 1 /\ addrs'[1] = 1
      BY <2>2
    <3> QED BY <2>1, <2>2, <3>1, <3>2, WalkPlaces DEF AddrsInv
  <2>3. CASE pc' = "resolve" /\ addrs' = addrs /\ resolved' = resolved
    <3>1. addrs' = <<>>
      BY <1>1, <2>3 DEF WalkInv, AddrsInv
    <3> QED BY <2>3, <3>1, WalkPlaces DEF AddrsInv
  <2> QED BY <1>1, <2>2, <2>3
<1>12. CancelInv'
  BY <1>1, WalkNoCancel
<1> QED BY <1>10, <1>11, <1>12 DEF WalkInv

\* There is no host left: what follows is the failure.
LEMMA NoHostLeftWalk == StartupInv /\ WalkInv /\ NoHostLeft => WalkInv'
<1> SUFFICES ASSUME StartupInv, WalkInv, NoHostLeft PROVE WalkInv'
  OBVIOUS
<1>1. /\ pc = "host" /\ pc' = "failed" /\ todo = <<>>
      /\ UNCHANGED <<config, sent, said, tried, token, todo, addrs, at, resolved>>
  BY DEF NoHostLeft, hostVars
<1>2. /\ \A i, a : WasTried(i, a)' <=> WasTried(i, a)
      /\ \A i : HostDone(i)' <=> HostDone(i)
  BY <1>1 DEF WasTried, HostDone, AllTried
<1>3. HostsInv'
  BY <1>1, <1>2, WalkPlaces DEF WalkInv, HostsInv
<1>4. AddrsInv'
  BY <1>1, <1>2, WalkPlaces DEF WalkInv, AddrsInv
<1>5. CancelInv'
  BY <1>1, WalkNoCancel
<1> QED BY <1>3, <1>4, <1>5 DEF WalkInv

\* A name that does not resolve is done with; one that does has its addresses to come.
LEMMA ResolveWalk == StartupInv /\ WalkInv /\ Resolve => WalkInv'
<1> SUFFICES ASSUME StartupInv, WalkInv, Resolve PROVE WalkInv'
  OBVIOUS
<1>1. /\ pc = "resolve" /\ pc' \in {"host", "addr"}
      /\ UNCHANGED <<config, todo, at, att, sent, said, token>>
  BY DEF Resolve
<1>2. /\ resolved[at.host] = 0 /\ \A k \in DOMAIN tried : tried[k].host # at.host
      /\ addrs = <<>> /\ Valid(config)
      /\ \A j \in 1 .. Len(todo) : todo[j] # at.host
  BY <1>1 DEF WalkInv, HostsInv, AddrsInv
<1>3. CancelInv'
  BY <1>1, WalkNoCancel
<1>4. CASE /\ pc' = "host" /\ tried' = Append(tried, [host |-> at.host, addr |-> 0])
           /\ UNCHANGED <<addrs, resolved>>
  <2>1. PICK x : tried' = Append(tried, x) /\ x.host = at.host /\ x.addr = 0
    BY <1>4
  <2>2. /\ \A i, a : WasTried(i, a) => WasTried(i, a)'
        /\ \A k \in DOMAIN tried' : (k \in DOMAIN tried /\ tried'[k] = tried[k]) \/ tried'[k] = x
        /\ WasTried(x.host, x.addr)'
    BY <2>1, TriedGrows, TriedAppend
  <2>3. \A i : HostDone(i) => HostDone(i)'
    BY <1>4, <2>2 DEF HostDone, AllTried
  <2>4. HostDone(at.host)'
    <3>1. resolved'[at.host] = 0
      BY <1>2, <1>4
    <3>2. WasTried(at.host, 0)'
      BY <1>1, <2>1, <2>2 DEF WasTried
    <3>3. \A a \in 1 .. 0 : FALSE
      OBVIOUS
    <3>4. 0 \in 0 .. 0
      OBVIOUS
    <3> QED BY <1>1, <3>1, <3>2, <3>3, <3>4 DEF HostDone, AllTried
  <2>5. \A j \in 1 .. Len(todo) : \A k \in DOMAIN tried' : tried'[k].host # todo[j]
    BY <1>2, <2>1, <2>2 DEF WalkInv, HostsInv
  <2>6. HostsInv'
    BY <1>1, <1>2, <1>4, <2>3, <2>4, <2>5, WalkPlaces DEF WalkInv, HostsInv
  <2>7. AddrsInv'
    BY <1>2, <1>4, WalkPlaces DEF AddrsInv
  <2> QED BY <1>3, <2>6, <2>7 DEF WalkInv
<1>5. CASE \E n \in IF config.hostaddr > 0 THEN {1} ELSE 1 .. MaxAddrs :
             /\ addrs' \in Orders(n, config.random)
             /\ resolved' = [resolved EXCEPT ![at.host] = n]
             /\ pc' = "addr" /\ UNCHANGED <<error, tried>>
  <2>1. PICK n \in IF config.hostaddr > 0 THEN {1} ELSE 1 .. MaxAddrs :
             /\ addrs' \in Orders(n, config.random)
             /\ resolved' = [resolved EXCEPT ![at.host] = n]
             /\ pc' = "addr" /\ UNCHANGED <<error, tried>>
    BY <1>5
  <2>2. n \in Nat /\ n >= 1
    BY <2>1, StartupAssumption
  <2>3. config.random \in BOOLEAN /\ DOMAIN resolved = 1 .. NumHosts(config)
        /\ at.host \in 0 .. NumHosts(config) /\ NumHosts(config) \in Nat /\ at.host # 0
        /\ todo \in Seq(1 .. NumHosts(config))
    BY <1>1, WalkTypes DEF StartupInv, PlaceInv
  <2>4. PICK s : addrs' = s /\ s \in Orders(n, config.random)
    BY <2>1
  <2>5. /\ Len(s) = n
        /\ \A j, k \in 1 .. n : j # k => s[j] # s[k]
        /\ \A i \in 1 .. n : \E j \in 1 .. n : s[j] = i
    <3>1. PICK r \in BOOLEAN : r = config.random
      BY <2>3
    <3>2. s \in Orders(n, r)
      BY <2>4, <3>1
    <3> QED BY <2>2, <3>2, OrdersCover
  <2>6. /\ resolved'[at.host] = n
        /\ \A i \in 1 .. NumHosts(config) : i # at.host => resolved'[i] = resolved[i]
    BY <2>1, <2>3
  <2>7. \A i, a : WasTried(i, a)' <=> WasTried(i, a)
    BY <2>1 DEF WasTried
  <2>8. \A i \in 1 .. NumHosts(config) : HostDone(i) => HostDone(i)' /\ i # at.host
    <3>1. \A i \in 1 .. NumHosts(config) : HostDone(i) => i # at.host
      BY <1>2 DEF HostDone, WasTried
    <3>2. \A i \in 1 .. NumHosts(config) : i # at.host /\ HostDone(i) => HostDone(i)'
      BY <2>6, <2>7 DEF HostDone, AllTried
    <3> QED BY <3>1, <3>2
  <2>9. \A j \in 1 .. Len(todo) : todo[j] \in 1 .. NumHosts(config)
    BY <2>3
  <2>10. HostsInv'
    BY <1>1, <1>2, <2>1, <2>6, <2>8, <2>9, WalkPlaces DEF WalkInv, HostsInv
  <2>11. \A a : ~WasTried(at.host, a)'
    BY <1>1, <1>2, <2>1 DEF WasTried
  <2>12. AddrsInv'
    <3>1. pc' = "addr" /\ at'.host = at.host /\ Len(addrs') = n /\ DOMAIN addrs' = 1 .. n
      BY <1>1, <2>1, <2>2, <2>4, <2>5
    <3>2. pc' \notin AtAddr /\ pc' \notin {"start", "host", "resolve", "failed"}
      BY <3>1, WalkPlaces
    <3>3. \A j, k \in 1 .. Len(addrs') : j # k => addrs'[j] # addrs'[k]
      BY <2>4, <2>5, <3>1
    <3>4. resolved'[at'.host] = n /\ \A a \in 1 .. n : \E j \in 1 .. Len(addrs') : addrs'[j] = a
      BY <2>4, <2>5, <2>6, <3>1
    <3> QED BY <2>2, <2>11, <3>1, <3>2, <3>3, <3>4 DEF AddrsInv
  <2> QED BY <1>3, <2>10, <2>12 DEF WalkInv
<1> QED BY <1>4, <1>5 DEF Resolve

\* A host without an address left is done with; otherwise the next one is tried.
LEMMA NextAddrWalk == StartupInv /\ WalkInv /\ NextAddr => WalkInv'
<1> SUFFICES ASSUME StartupInv, WalkInv, NextAddr PROVE WalkInv'
  OBVIOUS
<1>1. /\ pc = "addr" /\ pc' \in {"host", "socket"}
      /\ UNCHANGED <<config, error, todo, att, sent, said, tried, resolved, token>>
  BY DEF NextAddr
<1>2. /\ \A i, a : WasTried(i, a)' <=> WasTried(i, a)
      /\ \A i : HostDone(i)' <=> HostDone(i)
  BY <1>1 DEF WasTried, HostDone, AllTried
<1>3. CancelInv'
  BY <1>1, WalkNoCancel
<1>4. /\ resolved[at.host] >= 1 /\ addrs \in Seq(1 .. MaxOf(1, MaxAddrs)) /\ Len(addrs) \in Nat
      /\ at.host \in 1 .. NumHosts(config) /\ resolved[at.host] \in Nat
      /\ \A a \in 1 .. resolved[at.host] :
           (\E j \in 1 .. Len(addrs) : addrs[j] = a) \/ WasTried(at.host, a)
      /\ \A j, k \in 1 .. Len(addrs) : j # k => addrs[j] # addrs[k]
      /\ \A j \in 1 .. Len(addrs) : ~WasTried(at.host, addrs[j])
  <2>1. at.host \in 0 .. NumHosts(config) /\ at.host # 0 /\ NumHosts(config) \in Nat
    BY <1>1, WalkTypes DEF StartupInv, PlaceInv
  <2>2. at.host \in 1 .. NumHosts(config)
    BY <2>1
  <2> QED BY <1>1, <2>2, WalkTypes, WalkPlaces DEF WalkInv, AddrsInv
<1>5. CASE addrs = <<>>
  <2>1. pc' = "host" /\ addrs' = addrs /\ at' = at
    BY <1>5 DEF NextAddr
  <2>2. \A a \in 1 .. resolved[at.host] : WasTried(at.host, a)
    BY <1>4, <1>5
  <2>3. 1 \in 1 .. resolved[at.host] /\ 1 \in 0 .. resolved[at.host]
    BY <1>4
  <2>4. HostDone(at.host)
    BY <2>2, <2>3 DEF HostDone, AllTried
  <2>5. HostsInv'
    BY <1>1, <1>2, <2>1, <2>4, WalkPlaces DEF WalkInv, HostsInv
  <2>6. AddrsInv'
    BY <1>5, <2>1, WalkPlaces DEF AddrsInv
  <2> QED BY <1>3, <2>5, <2>6 DEF WalkInv
<1>6. CASE addrs # <<>>
  <2>1. pc' = "socket" /\ addrs' = Tail(addrs) /\ at' = [at EXCEPT !.addr = Head(addrs)]
    BY <1>6 DEF NextAddr
  <2>2. at'.host = at.host /\ at'.addr = addrs[1]
    <3>1. Head(addrs) = addrs[1]
      BY <1>4, <1>6
    <3>2. at \in Place(config)
      BY DEF StartupInv, TypeOK
    <3> QED BY <2>1, <3>1, <3>2 DEF Place
  <2>3. /\ Len(addrs') = Len(addrs) - 1 /\ Len(addrs) >= 1 /\ 1 \in 1 .. Len(addrs)
        /\ \A j \in 1 .. Len(addrs') : /\ addrs'[j] = addrs[j + 1] /\ j + 1 \in 1 .. Len(addrs)
                                       /\ j + 1 # 1
        /\ \A j \in 1 .. Len(addrs) : j # 1 => j - 1 \in 1 .. Len(addrs') /\ addrs[j] = addrs'[j - 1]
    BY <1>4, <1>6, <2>1
  <2>4. HostsInv'
    BY <1>1, <1>2, <2>1, <2>2, WalkPlaces DEF WalkInv, HostsInv
  <2>5. \A j, k \in 1 .. Len(addrs') : j # k => addrs'[j] # addrs'[k]
    BY <1>4, <2>3
  <2> DEFINE Was(a) == \E k \in DOMAIN tried : tried[k].host = at.host /\ tried[k].addr = a
             Is(a) == \E k \in DOMAIN tried' : tried'[k].host = at'.host /\ tried'[k].addr = a
  <2>6. \A a : Is(a) <=> Was(a)
    BY <1>1, <2>2
  <2>7. /\ \A j \in 1 .. Len(addrs) : ~Was(addrs[j])
        /\ \A a \in 1 .. resolved[at.host] : (\E j \in 1 .. Len(addrs) : addrs[j] = a) \/ Was(a)
    BY <1>4 DEF WasTried
  <2> HIDE DEF Is, Was
  <2>8. /\ \A j \in 1 .. Len(addrs') : ~Is(addrs'[j]) /\ addrs'[j] # at'.addr
        /\ ~Is(at'.addr)
    BY <1>4, <2>2, <2>3, <2>6, <2>7
  <2>9. \A a \in 1 .. resolved[at.host] :
            \/ \E j \in 1 .. Len(addrs') : addrs'[j] = a
            \/ a = at'.addr
            \/ Is(a)
    <3> SUFFICES ASSUME NEW a \in 1 .. resolved[at.host], ~Was(a)
                 PROVE  (\E j \in 1 .. Len(addrs') : addrs'[j] = a) \/ a = at'.addr
      BY <2>6
    <3>1. PICK j \in 1 .. Len(addrs) : addrs[j] = a
      BY <2>7
    <3> QED BY <2>2, <2>3, <3>1
  <2>10. AddrsInv'
    BY <1>1, <1>4, <2>1, <2>2, <2>5, <2>8, <2>9, WalkPlaces DEF AddrsInv, WasTried, Is
  <2> QED BY <1>3, <2>4, <2>10 DEF WalkInv
<1> QED BY <1>5, <1>6

-----------------------------------------------------------------------------
(***************************************************************************)
(* The steps of an attempt.                                                *)
(***************************************************************************)
Negotiating == {"tls", "ssl_answer", "handshake"}

\* The places of an attempt.
LEMMA AttemptPlaces ==
  /\ InAttempt \subseteq AtAddr /\ Negotiating \subseteq InAttempt /\ Talking \subseteq InAttempt
  /\ "socket" \in InAttempt /\ "cancel" \in InAttempt /\ "done" \in AtAddr
  /\ "socket" \notin Negotiating \cup Talking
  /\ Begin \in InAttempt
BY DEF AtAddr, InAttempt, Attempting, Talking, Negotiating, Begin

\* Nothing has been sent when an attempt begins.
LEMMA ConnectSocketWalk == StartupInv /\ WalkInv /\ ConnectSocket => WalkInv'
<1> SUFFICES ASSUME StartupInv, WalkInv, ConnectSocket PROVE WalkInv'
  OBVIOUS
<1>1. /\ pc = "socket" /\ pc \in InAttempt /\ pc \in AtAddr /\ "tls" \in AtAddr
      /\ \A m \in sent' : m.what = "cancel" => m \in sent \/ Cancelling
  BY AttemptPlaces DEF ConnectSocket, Negotiating
<1>2. ASSUME NEW e, Failed(e) PROVE WalkInv'
  BY <1>1, <1>2, WalkFailed
<1>3. ASSUME NEW a, Goes("tls", a), said' = IF Cancelling THEN said ELSE NothingSaid
      PROVE  WalkInv'
  <2>1. pc' = "tls" /\ UNCHANGED AttemptVars
    BY <1>3 DEF Goes, AttemptVars, hostVars
  <2>2. said'.key \in {0, SessionKey}
    BY <1>3 DEF WalkInv, CancelInv, NothingSaid
  <2> QED BY <1>1, <2>1, <2>2, WalkGoes
<1> QED BY <1>2, <1>3 DEF ConnectSocket

\* connect_tls keeps the walk.
LEMMA ConnectTlsWalk == StartupInv /\ WalkInv /\ ConnectTls => WalkInv'
<1> SUFFICES ASSUME StartupInv, WalkInv, ConnectTls PROVE WalkInv'
  OBVIOUS
<1>1. /\ pc = "tls" /\ pc \in Negotiating \cup Talking /\ pc \in InAttempt /\ pc # "socket"
      /\ Begin \in AtAddr /\ "handshake" \in AtAddr /\ "ssl_answer" \in AtAddr
  BY AttemptPlaces DEF ConnectTls, Negotiating
<1>2. ASSUME NEW p \in AtAddr, NEW a, Goes(p, a), UNCHANGED <<sent, said>> PROVE WalkInv'
  BY <1>1, <1>2, WalkQuiet DEF Negotiating
<1>3. ASSUME Failed("tls"), UNCHANGED sent PROVE WalkInv'
  BY <1>1, <1>3, WalkFailed
<1>4. ASSUME SendThen("ssl_request", "ssl_answer", att) PROVE WalkInv'
  BY <1>1, <1>4, WalkSends DEF Negotiating
<1> QED BY <1>1, <1>2, <1>3, <1>4 DEF ConnectTls

\* Reading the answer to the SSLRequest keeps the walk.
LEMMA SslAnswerWalk == StartupInv /\ WalkInv /\ SslAnswer => WalkInv'
<1> SUFFICES ASSUME StartupInv, WalkInv, SslAnswer PROVE WalkInv'
  OBVIOUS
<1>1. /\ pc = "ssl_answer" /\ pc \in InAttempt /\ pc \in Negotiating /\ sent' = sent
      /\ Begin \in AtAddr /\ "handshake" \in AtAddr
  BY AttemptPlaces DEF SslAnswer, Negotiating
<1>2. ASSUME NEW p \in AtAddr, NEW a, Goes(p, a), said' = said PROVE WalkInv'
  BY <1>1, <1>2, WalkQuiet DEF Negotiating
<1>3. ASSUME NEW e, Failed(e) PROVE WalkInv'
  BY <1>1, <1>3, WalkFailed
<1> QED BY <1>1, <1>2, <1>3 DEF SslAnswer

\* The TLS handshake keeps the walk.
LEMMA HandshakeWalk == StartupInv /\ WalkInv /\ Handshake => WalkInv'
<1> SUFFICES ASSUME StartupInv, WalkInv, Handshake PROVE WalkInv'
  OBVIOUS
<1>1. /\ pc = "handshake" /\ pc \in InAttempt /\ pc \in Negotiating /\ sent' = sent
      /\ Begin \in AtAddr
  BY AttemptPlaces DEF Handshake, Negotiating
<1>2. ASSUME NEW a, Goes(Begin, a), said' = said PROVE WalkInv'
  BY <1>1, <1>2, WalkQuiet DEF Negotiating
<1>3. ASSUME NEW e, Failed(e) PROVE WalkInv'
  BY <1>1, <1>3, WalkFailed
<1> QED BY <1>1, <1>2, <1>3 DEF Handshake

\* While the server talks, a step that fails, sends or goes on.
LEMMA TalkWalk ==
  ASSUME StartupInv, WalkInv, pc \in Talking
  PROVE  /\ \A e : Failed(e) /\ sent' = sent => WalkInv'
         /\ \A m : Unexpected(m) => WalkInv'
         /\ \A p \in AtAddr : \A a : Goes(p, a) /\ UNCHANGED <<sent, said>> => WalkInv'
         /\ \A w : \A p \in AtAddr : \A a : w # "cancel" /\ SendThen(w, p, a) => WalkInv'
<1>1. pc \in InAttempt /\ pc # "socket" /\ pc \in AtAddr
  BY AttemptPlaces
<1>2. ASSUME NEW e, Failed(e), sent' = sent PROVE WalkInv'
  BY <1>1, <1>2, WalkFailed
<1>3. ASSUME NEW m, Unexpected(m) PROVE WalkInv'
  BY <1>2, <1>3 DEF Unexpected
<1>4. ASSUME NEW p \in AtAddr, NEW a, Goes(p, a), UNCHANGED <<sent, said>> PROVE WalkInv'
  BY <1>1, <1>4, WalkQuiet
<1>5. ASSUME NEW w, NEW p \in AtAddr, NEW a, w # "cancel", SendThen(w, p, a) PROVE WalkInv'
  BY <1>1, <1>5, WalkSends
<1> QED BY <1>2, <1>3, <1>4, <1>5

\* startup and authenticate keep the walk.
LEMMA AuthWalk ==
  StartupInv /\ WalkInv /\ (SendStartup \/ Authenticate \/ SaslContinue \/ SaslFinal \/ AuthenticationOk)
    => WalkInv'
<1> SUFFICES ASSUME StartupInv, WalkInv,
               SendStartup \/ Authenticate \/ SaslContinue \/ SaslFinal \/ AuthenticationOk
             PROVE  WalkInv'
  OBVIOUS
<1>1. pc \in Talking
  BY DEF SendStartup, Authenticate, SaslContinue, SaslFinal, AuthenticationOk, Talking
<1>2. /\ \A e : Failed(e) /\ sent' = sent => WalkInv'
      /\ \A m : Unexpected(m) => WalkInv'
      /\ \A p \in AtAddr : \A a : Goes(p, a) /\ UNCHANGED <<sent, said>> => WalkInv'
      /\ \A w : \A p \in AtAddr : \A a : w # "cancel" /\ SendThen(w, p, a) => WalkInv'
  BY <1>1, TalkWalk
<1>3. Talking \subseteq AtAddr
  BY AttemptPlaces
<1>4. CASE SendStartup
  BY <1>2, <1>3, <1>4 DEF SendStartup, Talking
<1>5. CASE Authenticate
  <2>1. ASSUME NEW m \in PasswordKinds, AuthenticatePassword(m) PROVE WalkInv'
    BY <1>2, <1>3, <2>1 DEF AuthenticatePassword, PasswordKinds, Talking
  <2>2. ASSUME NEW offered, AuthenticateSasl(offered) PROVE WalkInv'
    <3>1. Mechanism(offered) # "cancel"
      BY DEF Mechanism
    <3> QED BY <1>2, <1>3, <2>2, <3>1 DEF AuthenticateSasl, Talking
  <2>3. "auth" \in AtAddr /\ "info" \in AtAddr
    BY <1>3 DEF Talking
  <2> QED BY <1>2, <1>5, <2>1, <2>2, <2>3 DEF Authenticate
<1>6. CASE SaslContinue
  BY <1>2, <1>3, <1>6 DEF SaslContinue, AfterSaslResponse, Talking
<1>7. CASE SaslFinal
  BY <1>2, <1>3, <1>7 DEF SaslFinal, Talking
<1>8. CASE AuthenticationOk
  BY <1>2, <1>3, <1>8 DEF AuthenticationOk, Talking
<1> QED BY <1>4, <1>5, <1>6, <1>7, <1>8

\* The session's key is its own, and its place is where it was connected to.
LEMMA EstablishedWalk ==
  ASSUME StartupInv, WalkInv, pc \in Talking, NEW a, Established(a), sent' = sent, said'.key = said.key
  PROVE  WalkInv'
<1>1. /\ pc' = "done" /\ token'.at = at
      /\ UNCHANGED <<config, tried, todo, addrs, at, resolved>>
  BY DEF Established, hostVars
<1>2. HostsInv' /\ AddrsInv'
  BY <1>1, AttemptPlaces, WalkRests
<1>3. ~Cancelling /\ at.host # 0
  BY AttemptPlaces DEF StartupInv, PlaceInv, Talking
<1>4. Cancelling'
  BY <1>1, <1>3 DEF Cancelling, Nowhere
<1>5. said'.key \in {0, SessionKey'}
  BY <1>1 DEF WalkInv, CancelInv, SessionKey
<1>6. CancelInv'
  BY <1>1, <1>4, <1>5 DEF CancelInv
<1> QED BY <1>2, <1>6 DEF WalkInv

\* read_info, which learns the session's key, keeps the walk.
LEMMA ReadInfoWalk == StartupInv /\ WalkInv /\ ReadInfo => WalkInv'
<1> SUFFICES ASSUME StartupInv, WalkInv, pc = "info", sent' = sent, NEW code \in Codes,
       CASE code \in {"negotiate", "parameter"} -> Goes("info", att) /\ UNCHANGED said
         [] code = "key" ->
              /\ Goes("info", [att EXCEPT !.key = SessionKey])
              /\ said' = [said EXCEPT !.key = SessionKey]
         [] code = "notice" ->
              LET n == Len(said.notices) + 1 IN
              /\ n <= MaxNotices
              /\ Goes("info", [att EXCEPT !.notices = Append(@, <<SessionKey, n>>)])
              /\ said' = [said EXCEPT !.notices = Append(@, <<SessionKey, n>>)]
         [] code = "ready" ->
              /\ IF config.attrs = "any" THEN Established(att)
                                         ELSE Goes("attrs", att)
              /\ UNCHANGED said
         [] OTHER -> Unexpected(Parsed(code))
     PROVE WalkInv'
  BY DEF ReadInfo
<1>1. /\ pc \in Talking /\ pc \in InAttempt /\ "info" \in AtAddr /\ "attrs" \in AtAddr
  BY AttemptPlaces DEF Talking
<1>2. \E k, n, r : said = [key |-> k, notices |-> n, readOnly |-> r]
  BY DEF StartupInv, TypeOK
<1>3. CASE code \in {"negotiate", "parameter"}
  BY <1>1, <1>3, TalkWalk
<1>4. CASE code = "key"
  <2>1. PICK a : Goes("info", a) /\ said'.key = SessionKey
    BY <1>2, <1>4
  <2> QED BY <1>1, <2>1, WalkQuiet
<1>5. CASE code = "notice"
  <2>1. PICK a : Goes("info", a) /\ said'.key = said.key
    BY <1>2, <1>5
  <2> QED BY <1>1, <2>1, WalkQuiet
<1>6. CASE code = "ready" /\ config.attrs = "any"
  BY <1>1, <1>6, EstablishedWalk
<1>7. CASE code = "ready" /\ config.attrs # "any"
  <2>1. Goes("attrs", att) /\ said' = said
    BY <1>7
  <2> QED BY <1>1, <2>1, WalkQuiet
<1>8. CASE code \notin {"negotiate", "parameter", "key", "notice", "ready"}
  BY <1>1, <1>8, TalkWalk
<1> QED BY <1>3, <1>4, <1>5, <1>6, <1>7, <1>8

\* The check of target_session_attrs, which may give the address up, keeps the walk.
LEMMA CheckAttrsWalk == StartupInv /\ WalkInv /\ CheckAttrs => WalkInv'
<1> SUFFICES ASSUME StartupInv, WalkInv, CheckAttrs PROVE WalkInv'
  OBVIOUS
<1>1. pc = "attrs" /\ pc \in Talking /\ pc \in AtAddr /\ sent' = sent /\ ~Cancelling
  BY AttemptPlaces DEF CheckAttrs, Talking, StartupInv, PlaceInv
<1>2. \E k, n, r : said = [key |-> k, notices |-> n, readOnly |-> r]
  BY DEF StartupInv, TypeOK
<1>3. ASSUME NEW e, Failed(e) PROVE WalkInv'
  BY <1>1, <1>3, TalkWalk
<1>4. ASSUME pc' = AfterFailure("connect"),
             tried' = Append(tried, [host |-> at.host, addr |-> at.addr]),
             UNCHANGED <<config, att, token, hostVars>>
      PROVE  WalkInv'
  <2>1. pc' = "addr" /\ UNCHANGED <<config, todo, addrs, at, resolved>>
    BY <1>4 DEF AfterFailure, hostVars
  <2>2. HostsInv' /\ AddrsInv'
    BY <1>1, <1>4, <2>1, WalkFails
  <2>3. CancelInv'
    BY <1>1, <1>4, <2>1 DEF WalkInv, CancelInv, Cancelling, Talking
  <2> QED BY <2>2, <2>3 DEF WalkInv
<1>5. ASSUME NEW v, said' = [said EXCEPT !.readOnly = v],
             Established([att EXCEPT !.notices = <<>>])
      PROVE  WalkInv'
  <2>1. said'.key = said.key
    BY <1>2, <1>5
  <2> QED BY <1>1, <1>5, <2>1, EstablishedWalk
<1> QED BY <1>3, <1>4, <1>5 DEF CheckAttrs

\* cancel_query with the key of the session keeps the walk.
LEMMA CancelWalk == StartupInv /\ WalkInv /\ (CancelQuery \/ SendCancel) => WalkInv'
<1> SUFFICES ASSUME StartupInv, WalkInv, CancelQuery \/ SendCancel PROVE WalkInv'
  OBVIOUS
<1>1. CASE CancelQuery
  <2>1. /\ pc = "done" /\ pc' = "socket" /\ at' = token.at /\ Cancelling
        /\ UNCHANGED <<config, error, todo, addrs, resolved, att, sent, said, tried, token>>
    BY <1>1 DEF CancelQuery, CancelAt, StartupInv, PlaceInv
  <2>2. at' = at
    BY <2>1 DEF WalkInv, CancelInv
  <2>3. pc \in AtAddr /\ pc' \in AtAddr
    BY <2>1, AttemptPlaces
  <2>4. HostsInv' /\ AddrsInv'
    BY <2>1, <2>2, <2>3, WalkRests
  <2>5. CancelInv'
    BY <2>1, <2>2 DEF WalkInv, CancelInv, Cancelling, SessionKey
  <2> QED BY <2>4, <2>5 DEF WalkInv
<1>2. CASE SendCancel
  <2>1. pc = "cancel" /\ Cancelling /\ SendThen("cancel", "done", att)
    BY <1>2 DEF SendCancel, StartupInv, PlaceInv
  <2> QED BY <2>1, AttemptPlaces, WalkSends
<1> QED BY <1>1, <1>2

-----------------------------------------------------------------------------
\* The walk starts where it should and keeps to it.
LEMMA WalkStart == Init => WalkInv
<1> SUFFICES ASSUME Init PROVE WalkInv
  OBVIOUS
<1>1. pc = "start" /\ todo = <<>> /\ addrs = <<>> /\ tried = <<>> /\ at = Nowhere /\ sent = {} /\ token = NoToken
  BY DEF Init
<1>2. DOMAIN tried = {} /\ \A j \in 1 .. Len(todo) : FALSE
  BY <1>1
<1>3. HostsInv
  BY <1>1, <1>2, WalkPlaces DEF Init, HostsInv, Nowhere
<1>4. AddrsInv
  BY <1>1, WalkPlaces DEF AddrsInv
<1>5. CancelInv
  BY <1>1 DEF CancelInv, Cancelling, NoToken, Talking
<1> QED BY <1>3, <1>4, <1>5 DEF WalkInv

\* Every step of connecting keeps the walk.
LEMMA WalkNext == StartupInv /\ WalkInv /\ [Next]_vars => WalkInv'
<1> SUFFICES ASSUME StartupInv, WalkInv, [Next]_vars PROVE WalkInv'
  OBVIOUS
<1>1. CASE UNCHANGED vars
  BY <1>1 DEF vars, hostVars, WalkInv, HostsInv, AddrsInv, CancelInv, HostDone, AllTried, WasTried,
              Cancelling, SessionKey
<1>2. CASE Connect \/ NextHost \/ NoHostLeft \/ Resolve \/ NextAddr
  BY <1>2, ConnectWalk, NextHostWalk, NoHostLeftWalk, ResolveWalk, NextAddrWalk
<1>3. CASE ConnectSocket \/ ConnectTls \/ SslAnswer \/ Handshake
  BY <1>3, ConnectSocketWalk, ConnectTlsWalk, SslAnswerWalk, HandshakeWalk
<1>4. CASE SendStartup \/ Authenticate \/ SaslContinue \/ SaslFinal \/ AuthenticationOk
  BY <1>4, AuthWalk
<1>5. CASE ReadInfo \/ CheckAttrs \/ CancelQuery \/ SendCancel
  BY <1>5, ReadInfoWalk, CheckAttrsWalk, CancelWalk
<1> QED BY <1>1, <1>2, <1>3, <1>4, <1>5 DEF Next

\* The walk over hosts and addresses holds of every reachable state.
LEMMA WalkInvariant == Spec => [](StartupInv /\ WalkInv)
BY StartupInit, StartupNext, WalkStart, WalkNext, PTL DEF Spec

\* connect gives up only when every address of every host was tried, and
\* reaches a host only after those before it (unless it shuffles them).
THEOREM StartupTriesAll == Spec => []FailsOnlyAfterAll
<1>1. StartupInv /\ WalkInv => FailsOnlyAfterAll
  <2> SUFFICES ASSUME StartupInv, WalkInv PROVE FailsOnlyAfterAll
    OBVIOUS
  <2>1. NumHosts(config) \in Nat /\ at.host \in 0 .. NumHosts(config) /\ Len(todo) \in Nat
    BY WalkTypes
  <2>2. CASE pc = "failed" /\ Valid(config)
    <3>1. todo = <<>> /\ \A i \in 1 .. NumHosts(config) : HostDone(i)
      BY <2>2, WalkPlaces DEF WalkInv, HostsInv
    <3> QED BY <2>2, <3>1 DEF FailsOnlyAfterAll, HostDone, AllTried, WasTried
  <2>3. CASE pc = "done" /\ ~config.random
    <3>1. token.at = at /\ Valid(config)
      BY <2>3 DEF WalkInv, HostsInv, CancelInv, StartupInv, PlaceInv
    <3>2. /\ \A j \in 1 .. Len(todo) : todo[j] = NumHosts(config) - Len(todo) + j
          /\ at.host = NumHosts(config) - Len(todo)
          /\ \A i \in 1 .. NumHosts(config) :
               (\E j \in 1 .. Len(todo) : todo[j] = i) \/ i = at.host \/ HostDone(i)
      BY <2>3, <3>1 DEF WalkInv, HostsInv
    <3>3. ASSUME NEW i \in 1 .. at.host - 1 PROVE HostDone(i)
      <4>1. i \in 1 .. NumHosts(config) /\ i # at.host /\ i < at.host /\ at.host \in Nat
        BY <2>1
      <4>2. \A j \in 1 .. Len(todo) : todo[j] # i
        BY <2>1, <3>2, <4>1
      <4> QED BY <3>2, <4>1, <4>2
    <3> QED BY <2>3, <3>1, <3>3 DEF FailsOnlyAfterAll, HostDone, AllTried, WasTried
  <2> QED BY <2>2, <2>3 DEF FailsOnlyAfterAll
<1> QED BY <1>1, WalkInvariant, PTL

\* A cancel request goes to the address of its session, with that session's key.
THEOREM StartupCancelsItsOwn == Spec => []CancelsItsOwnSession
<1>1. StartupInv /\ WalkInv => CancelsItsOwnSession
  <2> SUFFICES ASSUME StartupInv, WalkInv, Cancelling PROVE CancelsItsOwnSession
    BY DEF WalkInv, CancelInv, CancelsItsOwnSession
  <2>1. pc \in AtAddr
    BY DEF StartupInv, TypeOK, PlaceInv, AtAddr, InAttempt
  <2>2. \A k \in DOMAIN tried : tried[k] # [host |-> at.host, addr |-> at.addr]
    BY <2>1 DEF WalkInv, AddrsInv, WasTried
  <2>3. token.key = said.key /\ said.key \in {0, SessionKey}
    BY DEF StartupInv, InfoInv, WalkInv, CancelInv
  <2> QED BY <2>2, <2>3 DEF CancelsItsOwnSession
<1> QED BY <1>1, WalkInvariant, PTL
=============================================================================
