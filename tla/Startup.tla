------------------------------ MODULE Startup -------------------------------
(***************************************************************************)
(* Establishing a connection: connect walks over hosts and addresses,      *)
(* connect_tls negotiates TLS, connect_raw sends the startup message,      *)
(* authenticates and reads the session's information, connect_once checks  *)
(* target_session_attrs; and cancel_query, which takes the first part of   *)
(* the same way to the same server.                                        *)
(*                                                                         *)
(* The other end may answer anything that the codec can parse, in any      *)
(* order, or hang up; what it sends is chosen by each action.              *)
(***************************************************************************)
EXTENDS Integers, Sequences, FiniteSets

CONSTANTS
  Configs,      \* the values of Config a connection is attempted with
  MaxAddrs,     \* bound on the addresses a host name resolves to
  MaxNotices    \* bound on the notices of one session

HostKinds == {"tcp", "unix"}

\* A Config: host (kinds only), the numbers of hostaddrs and ports, whether a
\* password is set, and whether the TLS connector can connect (NoTls cannot).
ASSUME StartupAssumption ==
  /\ MaxAddrs \in Nat /\ MaxNotices \in Nat
  /\ \A c \in Configs :
       /\ c.host \in Seq(HostKinds) /\ c.hostaddr \in Nat /\ c.port \in Nat
       /\ c.random \in BOOLEAN /\ c.password \in BOOLEAN
       /\ c.canTls \in BOOLEAN /\ c.compat \in BOOLEAN
       /\ c.ssl \in {"disable", "prefer", "require"}
       /\ c.negotiation \in {"postgres", "direct"}
       /\ c.binding \in {"disable", "prefer", "require"}
       /\ c.attrs \in {"any", "read_write", "read_only"}

VARIABLES
  config,     \* the Config
  pc,         \* where the future of connect (or cancel_query) is
  todo,       \* connect: host indices not yet tried
  addrs,      \* connect_host: addresses not yet tried
  at,         \* connect_once, cancel_query: the host, address, port, hostname
  error,      \* the last error
  att,        \* locals of connect_raw in the current attempt
  sent,       \* history: what was sent in the current attempt, and over what
  said,       \* history: what the server of this attempt said of its session
  tried,      \* history: the attempts that failed
  resolved,   \* history: how many addresses each host resolved to
  token       \* CancelToken of the established connection

hostVars == <<todo, addrs, at, resolved>>
vars == <<config, pc, error, att, sent, said, tried, token, hostVars>>

-----------------------------------------------------------------------------
(***************************************************************************)
(* connect.                                                                *)
(***************************************************************************)
MaxOf(m, n) == IF m > n THEN m ELSE n

NumHosts(c) == MaxOf(Len(c.host), c.hostaddr)

\* The checks before the first attempt.
Valid(c) ==
  /\ NumHosts(c) > 0
  /\ Len(c.host) > 0 /\ c.hostaddr > 0 => Len(c.host) = c.hostaddr
  /\ c.port > 1 => c.port = NumHosts(c)

\* 1 .. n in the order given, or shuffled.
Orders(n, random) ==
  {s \in [1 .. n -> 1 .. n] :
     IF random THEN \A i, j \in 1 .. n : i # j => s[i] # s[j]
               ELSE \A i \in 1 .. n : s[i] = i}

\* Which port of the list is used for host i; 0: 5432.
PortOf(c, i) == IF i <= c.port THEN i ELSE IF c.port > 0 THEN 1 ELSE 0

Nowhere == [host |-> 0, addr |-> 0, port |-> 0, named |-> FALSE]

\* Mutant: what read_info collects is kept from one attempt to the next.
Fresh_KeepInfo(a) ==
  [a EXCEPT !.stream = "none", !.mech = "none", !.endPoint = FALSE, !.verified = FALSE]

\* Every attempt starts afresh.
Fresh(a) ==
  [stream |-> "none", mech |-> "none", endPoint |-> FALSE, verified |-> FALSE,
   key |-> 0, notices |-> <<>>]

NoToken   == [at |-> Nowhere, key |-> 0]
NothingSaid == [key |-> 0, notices |-> <<>>, readOnly |-> "unknown"]

Init ==
  /\ config \in Configs
  /\ pc = "start"
  /\ todo = <<>> /\ addrs = <<>> /\ at = Nowhere
  /\ error = "none"
  /\ att = [stream |-> "none", mech |-> "none", endPoint |-> FALSE, verified |-> FALSE,
            key |-> 0, notices |-> <<>>]
  /\ sent = {}
  /\ said = NothingSaid
  /\ tried = <<>>
  /\ resolved = [i \in 1 .. NumHosts(config) |-> 0]
  /\ token = NoToken

Connect ==
  /\ pc = "start"
  /\ IF Valid(config)
       THEN /\ todo' \in Orders(NumHosts(config), config.random)
            /\ pc' = "host" /\ UNCHANGED error
       ELSE pc' = "failed" /\ error' = "config" /\ UNCHANGED todo
  /\ UNCHANGED <<config, addrs, at, att, sent, said, tried, resolved, token>>

\* The next host: hostaddr if there is one, else host; TLS uses the name of host.
NextHost ==
  LET i     == Head(todo)
      unix  == config.hostaddr = 0 /\ config.host[i] = "unix"
      named == i <= Len(config.host) /\ config.host[i] = "tcp" IN
  /\ pc = "host" /\ todo # <<>>
  /\ todo' = Tail(todo)
  /\ at' = [host |-> i, addr |-> 0, port |-> PortOf(config, i), named |-> named]
  /\ IF unix THEN addrs' = <<1>> /\ pc' = "addr" /\ resolved' = [resolved EXCEPT ![i] = 1]
             ELSE pc' = "resolve" /\ UNCHANGED <<addrs, resolved>>
  /\ UNCHANGED <<config, error, att, sent, said, tried, token>>

NoHostLeft ==
  /\ pc = "host" /\ todo = <<>>
  /\ pc' = "failed"
  /\ UNCHANGED <<config, error, att, sent, said, tried, token, hostVars>>

\* net::lookup_host: an error, which no address at all is too, or the addresses
\* of a name; an IP address is its own.
Resolve ==
  /\ pc = "resolve"
  /\ \/ /\ config.hostaddr = 0
        /\ error' = "connect" /\ pc' = "host"
        /\ tried' = Append(tried, [host |-> at.host, addr |-> 0])
        /\ UNCHANGED <<addrs, resolved>>
     \/ \E n \in IF config.hostaddr > 0 THEN {1} ELSE 1 .. MaxAddrs :
          /\ addrs' \in Orders(n, config.random)
          /\ resolved' = [resolved EXCEPT ![at.host] = n]
          /\ pc' = "addr" /\ UNCHANGED <<error, tried>>
  /\ UNCHANGED <<config, todo, at, att, sent, said, token>>

NextAddr ==
  /\ pc = "addr"
  /\ IF addrs = <<>> THEN pc' = "host" /\ UNCHANGED <<addrs, at>>
     ELSE /\ at' = [at EXCEPT !.addr = Head(addrs)]
          /\ addrs' = Tail(addrs) /\ pc' = "socket"
  /\ UNCHANGED <<config, error, todo, att, sent, said, tried, resolved, token>>

-----------------------------------------------------------------------------
(***************************************************************************)
(* One attempt, to connect or (once there is a token) to cancel a query.   *)
(***************************************************************************)
Cancelling == token.at # Nowhere

\* Mutant: a server that refuses the credentials ends connect.
AfterFailure_Stop(e) == IF e = "auth" THEN "failed" ELSE "addr"

\* Whatever the error, the next address is tried.
AfterFailure(e) == "addr"

\* The attempt fails; cancel_query fails at once.
Failed(e) ==
  /\ IF Cancelling
       THEN pc' = "done" /\ UNCHANGED <<error, tried>>
       ELSE /\ pc' = AfterFailure(e) /\ error' = e
            /\ tried' = Append(tried, [host |-> at.host, addr |-> at.addr])
  /\ UNCHANGED <<config, att, said, token, hostVars>>

\* The attempt goes on at p with locals a.
Goes(p, a) ==
  /\ pc' = p /\ att' = a
  /\ UNCHANGED <<config, error, tried, token, hostVars>>

\* Message w is sent, and the future goes on at p with locals a if it could be
\* written.
SendThen(w, p, a) ==
  /\ sent' = sent \cup {[what |-> w, over |-> att.stream]}
  /\ \/ Goes(p, a) /\ UNCHANGED said
     \/ Failed("io")

\* connect_socket and make_tls_connect.
ConnectSocket ==
  /\ pc = "socket"
  /\ sent' = {}
  /\ \/ \E e \in {"connect", "timeout", "tls"} : Failed(e)
     \/ /\ Goes("tls", IF Cancelling THEN [att EXCEPT !.stream = "none"] ELSE Fresh(att))
        /\ said' = IF Cancelling THEN said ELSE NothingSaid

\* Where a stream is used once connect_tls has returned it.
Begin == IF Cancelling THEN "cancel" ELSE "startup"

\* connect_tls before anything is sent.
TlsPlan(c) ==
  CASE c.ssl = "disable" -> "raw"
    [] c.ssl = "prefer" /\ ~c.canTls -> "raw"
    [] c.ssl = "prefer" /\ c.canTls /\ c.negotiation = "direct" -> "refuse"
    [] c.ssl = "require" /\ c.negotiation = "direct" -> "handshake"
    [] OTHER -> "ask"

ConnectTls ==
  /\ pc = "tls"
  /\ CASE TlsPlan(config) = "raw" ->
            Goes(Begin, [att EXCEPT !.stream = "raw"]) /\ UNCHANGED <<sent, said>>
       [] TlsPlan(config) = "refuse" -> Failed("tls") /\ UNCHANGED sent
       [] TlsPlan(config) = "handshake" -> Goes("handshake", att) /\ UNCHANGED <<sent, said>>
       [] OTHER -> SendThen("ssl_request", "ssl_answer", att)

\* Mutant: a server without TLS is used without TLS whatever sslmode says.
AfterAnswer_Raw(c, byte) == IF byte = "S" THEN "handshake" ELSE "raw"

\* The answer to SSLRequest.
AfterAnswer(c, byte) ==
  CASE byte = "S" -> "handshake"
    [] byte # "S" /\ c.ssl = "require" -> "refuse"
    [] OTHER -> "raw"

SslAnswer ==
  /\ pc = "ssl_answer"
  /\ UNCHANGED sent
  /\ \/ Failed("io")
     \/ \E byte \in {"S", "N"} :
          CASE AfterAnswer(config, byte) = "handshake" -> Goes("handshake", att) /\ UNCHANGED said
            [] AfterAnswer(config, byte) = "refuse" -> Failed("tls")
            [] OTHER -> Goes(Begin, [att EXCEPT !.stream = "raw"]) /\ UNCHANGED said

\* The handshake needs a name, and gives the data for channel binding or not.
Handshake ==
  /\ pc = "handshake"
  /\ UNCHANGED sent
  /\ \/ Failed("tls")
     \/ /\ at.named /\ config.canTls
        /\ \E b \in BOOLEAN :
             Goes(Begin, [att EXCEPT !.stream = "tls", !.endPoint = b])
        /\ UNCHANGED said

-----------------------------------------------------------------------------
(***************************************************************************)
(* connect_raw.                                                            *)
(***************************************************************************)
SendStartup == pc = "startup" /\ SendThen("startup", "auth", att)

\* What a message means depends on AuthMode: codes 10, 11 and 13.
Parsed(code) ==
  CASE code = "auth10" -> IF config.compat THEN "sha256" ELSE "sasl"
    [] code = "auth11" -> IF config.compat THEN "md5sha256" ELSE "continue"
    [] code = "auth13" -> IF config.compat THEN "sm3" ELSE "unknown"
    [] OTHER -> code

\* Messages of the server.
Codes == {"ok", "cleartext", "md5", "gss", "auth10", "auth11", "final", "auth13",
          "negotiate", "key", "notice", "parameter", "ready", "error", "eof", "other"}

CanSkipChannelBinding == config.binding # "require"

\* Reading a message other than the ones expected.
Unexpected(m) ==
  /\ UNCHANGED sent
  /\ Failed(CASE m = "unknown" -> "io" [] m = "error" -> "db" [] m = "eof" -> "closed"
              [] OTHER -> "unexpected")

PasswordKinds == {"cleartext", "md5", "sha256", "md5sha256", "sm3"}

\* The password, or a hash of it; hashing may fail.
AuthenticatePassword(m) ==
  \/ (~CanSkipChannelBinding \/ m \in {"sha256", "md5sha256", "sm3"})
       /\ Failed("auth") /\ UNCHANGED sent
  \/ CanSkipChannelBinding /\ ~config.password /\ Failed("config") /\ UNCHANGED sent
  \/ CanSkipChannelBinding /\ config.password /\ SendThen(m, "auth_ok", att)

\* The SCRAM mechanism for those the server offers.
Mechanism(offered) ==
  CASE "plus" \in offered /\ att.endPoint /\ config.binding # "disable" -> "plus"
    [] offered = {} -> "none"
    [] OTHER -> "scram"

\* Mutant: SCRAM without channel binding is taken for granted.
MechanismAllowed_Always(m) == TRUE

MechanismAllowed(m) == m = "plus" \/ CanSkipChannelBinding

AuthenticateSasl(offered) ==
  LET m == Mechanism(offered) IN
  \/ ~config.password /\ Failed("config") /\ UNCHANGED sent
  \/ config.password /\ (m = "none" \/ ~MechanismAllowed(m)) /\ Failed("auth") /\ UNCHANGED sent
  \/ /\ config.password /\ m # "none" /\ MechanismAllowed(m)
     /\ SendThen(m, "sasl_continue", [att EXCEPT !.mech = m])

Authenticate ==
  /\ pc = "auth"
  /\ \E code \in Codes :
       LET m == Parsed(code) IN
       \/ m = "negotiate" /\ Goes("auth", att) /\ UNCHANGED <<sent, said>>
       \/ m = "ok" /\ UNCHANGED sent
            /\ IF CanSkipChannelBinding THEN Goes("info", att) /\ UNCHANGED said
                                        ELSE Failed("auth")
       \/ m \in PasswordKinds /\ AuthenticatePassword(m)
       \/ m = "sasl" /\ \E offered \in SUBSET {"scram", "plus"} : AuthenticateSasl(offered)
       \/ m = "gss" /\ Failed("auth") /\ UNCHANGED sent
       \/ m \notin {"negotiate", "ok", "sasl", "gss"} \cup PasswordKinds /\ Unexpected(m)

\* Mutant: AuthenticationOk is enough, the server's signature is not awaited.
AfterSaslResponse_Ok == "auth_ok"

AfterSaslResponse == "sasl_final"

\* ScramSha256::update refuses what it cannot parse and nonces that are not its own.
SaslContinue ==
  /\ pc = "sasl_continue"
  /\ \E code \in Codes :
       IF Parsed(code) # "continue" THEN Unexpected(Parsed(code))
       ELSE \/ Failed("auth") /\ UNCHANGED sent
            \/ SendThen("proof", AfterSaslResponse, att)

\* ScramSha256::finish: the signature may be right or wrong.
SaslFinal ==
  /\ pc = "sasl_final"
  /\ \E code \in Codes :
       IF Parsed(code) # "final" THEN Unexpected(Parsed(code))
       ELSE /\ UNCHANGED sent
            /\ \/ Failed("auth")
               \/ Goes("auth_ok", [att EXCEPT !.verified = TRUE]) /\ UNCHANGED said

AuthenticationOk ==
  /\ pc = "auth_ok"
  /\ \E code \in Codes :
       IF Parsed(code) # "ok" THEN Unexpected(Parsed(code))
       ELSE Goes("info", att) /\ UNCHANGED <<sent, said>>

\* The attempt has succeeded: connect returns, and a CancelToken names the
\* session and the server it is at.
Established(a) ==
  /\ pc' = "done" /\ att' = a /\ token' = [at |-> at, key |-> a.key]
  /\ UNCHANGED <<config, error, tried, hostVars>>

\* A session's key, unique to the attempt; 0: it has not sent one.
SessionKey == Len(tried) + 1

ReadInfo ==
  /\ pc = "info"
  /\ UNCHANGED sent
  /\ \E code \in Codes :
       CASE code \in {"negotiate", "parameter"} -> Goes("info", att) /\ UNCHANGED said
         [] code = "key" ->
              /\ Goes("info", [att EXCEPT !.key = SessionKey])
              /\ said' = [said EXCEPT !.key = SessionKey]
         [] code = "notice" ->
              LET n == Len(said.notices) + 1 IN
              /\ n <= MaxNotices
              /\ Goes("info", [att EXCEPT !.notices = Append(@, <<SessionKey, n>>)])
              /\ said' = [said EXCEPT !.notices = Append(@, <<SessionKey, n>>)]
         [] code = "ready" ->
              /\ IF config.attrs = "any" THEN Established(att)
                                         ELSE Goes("attrs", att)
              /\ UNCHANGED said
         [] OTHER -> Unexpected(Parsed(code))

\* Mutant: only read_write is looked at.
Refused_Writes(v) == v = "on" /\ config.attrs = "read_write"

\* What connect_once refuses of SHOW transaction_read_only: one text, whatever
\* else the server sends it takes.
Refused(v) ==
  \/ v = "on"  /\ config.attrs = "read_write"
  \/ v = "off" /\ config.attrs = "read_only"

\* What the first row may say; "neither": NULL or any other text.
Answers == {"on", "off", "neither"}

\* The Connection is polled for the answer, which logs the delayed notices.  No
\* row, a row without a column, an error or the end fail the attempt.
CheckAttrs ==
  /\ pc = "attrs"
  /\ UNCHANGED sent
  /\ \/ \E e \in {"unexpected", "column", "db", "closed", "io"} : Failed(e)
     \/ \E v \in Answers :
          /\ said' = [said EXCEPT !.readOnly = v]
          /\ IF Refused(v)
               THEN /\ pc' = AfterFailure("connect") /\ error' = "connect"
                    /\ tried' = Append(tried, [host |-> at.host, addr |-> at.addr])
                    /\ UNCHANGED <<config, att, token, hostVars>>
               ELSE Established([att EXCEPT !.notices = <<>>])

-----------------------------------------------------------------------------
(***************************************************************************)
(* Canceling a query.                                                      *)
(***************************************************************************)

\* Mutant: the request goes to the first host of the Config.
CancelAt_First == [token.at EXCEPT !.host = 1, !.addr = 1, !.port = PortOf(config, 1)]

\* The server of the established connection, not a name to resolve again.
CancelAt == token.at

CancelQuery ==
  /\ pc = "done"
  /\ pc' = "socket" /\ at' = CancelAt
  /\ UNCHANGED <<config, error, todo, addrs, resolved, att, sent, said, tried, token>>

SendCancel == pc = "cancel" /\ SendThen("cancel", "done", att)

-----------------------------------------------------------------------------
Next ==
  \/ Connect \/ NextHost \/ NoHostLeft \/ Resolve \/ NextAddr
  \/ ConnectSocket \/ ConnectTls \/ SslAnswer \/ Handshake
  \/ SendStartup \/ Authenticate \/ SaslContinue \/ SaslFinal \/ AuthenticationOk
  \/ ReadInfo \/ CheckAttrs \/ CancelQuery \/ SendCancel

Spec == Init /\ [][Next]_vars

-----------------------------------------------------------------------------
(***************************************************************************)
(* Properties.                                                             *)
(***************************************************************************)
Attempting == {"socket", "tls", "ssl_answer", "handshake"}
Talking    == {"startup", "auth", "sasl_continue", "sasl_final", "auth_ok", "info", "attrs"}

Errors   == {"config", "connect", "timeout", "tls", "io", "auth", "db", "closed", "unexpected",
             "column"}
Place(c) == [host : 0 .. NumHosts(c), addr : 0 .. MaxOf(1, MaxAddrs),
             port : 0 .. c.port, named : BOOLEAN]
Notices  == Seq(Nat \X Nat)
Locals   == [stream : {"none", "raw", "tls"}, mech : {"none", "scram", "plus"},
             endPoint : BOOLEAN, verified : BOOLEAN, key : Nat, notices : Notices]

\* Every variable has its type, nothing is read or written without a stream,
\* and no host is asked for past the ends of host and hostaddr (an unwrap).
TypeOK ==
  /\ config \in Configs
  /\ pc \in {"start", "host", "resolve", "addr", "done", "failed", "cancel"}
              \cup Attempting \cup Talking
  /\ pc \in Talking \cup {"cancel"} => att.stream # "none"
  /\ todo \in Seq(1 .. NumHosts(config)) /\ addrs \in Seq(1 .. MaxOf(1, MaxAddrs))
  /\ at \in Place(config)
  /\ at.host > 0 => at.host <= Len(config.host) \/ at.host <= config.hostaddr
  /\ error \in Errors \cup {"none"}
  /\ att \in Locals
  /\ said \in [key : Nat, notices : Notices, readOnly : {"unknown"} \cup Answers]
  /\ tried \in Seq([host : Nat, addr : Nat])
  /\ resolved \in [1 .. NumHosts(config) -> Nat]
  /\ token \in [at : Place(config), key : Nat]

\* "If set to `require`, TLS will be forced to be used": with sslmode=require
\* nothing but SSLRequest ever leaves without TLS, at any host and address, the
\* cancel request included.
RequireMeansTls ==
  config.ssl = "require" =>
    \A m \in sent : m.what = "ssl_request" \/ m.over = "tls"

\* "the authentication process will fail if channel binding is not used": with
\* channel_binding=require a session is entered only after SCRAM-SHA-256-PLUS
\* over TLS with the server's signature checked, and no password is ever sent.
BindingRequired ==
  config.binding = "require" =>
    /\ pc \in {"info", "attrs", "done"} => att.mech = "plus" /\ att.verified
    /\ \A m \in sent : m.what \notin PasswordKinds \cup {"scram"}

\* A session authenticated with SCRAM is entered only after the server has
\* proved that it knows the password too.
ServerVerified ==
  pc \in {"info", "attrs"} /\ att.mech # "none" => att.verified

\* The Connection gets the notices of its own session, all of them and in
\* order, and the CancelToken its own key, whatever earlier attempts had read.
HandsOverItsOwn ==
  pc = "done" =>
    /\ token.key = said.key
    /\ config.attrs = "any" => att.notices = said.notices

\* "Each host will be tried in turn": connect fails only after every address of
\* every host was tried; earlier hosts were all tried before the one it
\* connects to.
FailsOnlyAfterAll ==
  LET Tried(i, a) == \E k \in DOMAIN tried : tried[k].host = i /\ tried[k].addr = a
      Exhausted(i) == \A a \in 1 .. resolved[i] : Tried(i, a) IN
  /\ pc = "failed" /\ Valid(config) =>
       \A i \in 1 .. NumHosts(config) : Exhausted(i) /\ \E a \in 0 .. resolved[i] : Tried(i, a)
  /\ pc = "done" /\ ~config.random =>
       \A i \in 1 .. token.at.host - 1 : Exhausted(i)

\* "The session must allow writes", "The session allow only reads": the session
\* connect returns was asked in this very attempt, and did not describe itself as
\* the other kind; so from a server that answers on or off it is one of the kind
\* asked for.  More cannot be had: connect_once takes NULL or any other text for
\* leave in both cases.
TargetSessionMet ==
  pc = "done" =>
    /\ config.attrs = "read_write" => said.readOnly \notin {"unknown", "on"}
    /\ config.attrs = "read_only"  => said.readOnly \notin {"unknown", "off"}

\* A cancel request goes to the very address of the session it names, with the
\* key that session gave (or none).
CancelsItsOwnSession ==
  (\E m \in sent : m.what = "cancel") =>
    /\ \A k \in DOMAIN tried : tried[k] # [host |-> at.host, addr |-> at.addr]
    /\ token.key \in {0, SessionKey} /\ token.key = said.key
=============================================================================
