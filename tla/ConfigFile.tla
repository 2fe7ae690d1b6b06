----------------------------- MODULE ConfigFile -----------------------------
(***************************************************************************)
(* config.rs of the gaussdb crate: the configuration file, its connections *)
(* with their timeouts, and the connection string and TLS settings made of *)
(* the one that is chosen.                                                 *)
(*                                                                         *)
(* A connection is a record with the keys of the file, NULL where one is   *)
(* missing; values are strings as in ConnString, ports are numbers.        *)
(***************************************************************************)
EXTENDS ConnString

CONSTANTS
  LowerCase,     \* LowerCase[w]: word w in lower case
  Decimal10,     \* Decimal10[n]: the word for the number n
  MaxMillis      \* u64::MAX; smaller in an instance

DEFAULT_STATEMENT_TIMEOUT_MS == 600000
KEYRING_SENTINEL == <<"keyring">>

NoConnection ==
  [name |-> NULL, url |-> NULL, host |-> NULL, port |-> NULL, user |-> NULL, password |-> NULL,
   dbname |-> NULL, sslmode |-> NULL, statement_timeout |-> NULL,
   connection_max_lifetime |-> NULL, timeout_action |-> NULL]

ToLower(s) == [i \in DOMAIN s |-> IF s[i] \in DOMAIN LowerCase THEN LowerCase[s[i]] ELSE s[i]]
TrimWs(s) == LET t == skip_ws(s) IN Reverse(skip_ws(Reverse(t)))

-----------------------------------------------------------------------------
(***************************************************************************)
(* parse_duration: milliseconds.                                           *)
(***************************************************************************)
UnitMillis(unit) ==
  CASE unit \in {<<>>, <<"s">>} -> {1000}
    [] unit = <<"ms">> -> {1}
    [] unit \in {<<"m">>, <<"min">>, <<"minutes">>} -> {60000}
    [] unit \in {<<"h">>, <<"hr">>} -> {3600000}
    [] unit = <<"d">> -> {86400000}
    [] OTHER -> {}

\* Mutant: the multiplication wraps around.
Millis_Wrap(n, factor) == Got((n % (MaxMillis \div factor + 1)) * factor, <<>>)

\* checked_mul.
Millis(n, factor) == IF n > MaxMillis \div factor THEN Err ELSE Got(n * factor, <<>>)

\* The unit begins at the first letter; nothing may be between the two.
IsLetter(c) == c \notin DOMAIN Number /\ c \notin Space \cup {"."}
parse_duration(s) ==
  LET t    == TrimWs(s)
      num  == TakeWhile(t, LAMBDA c : ~IsLetter(c))
      n    == ParseInt(num.val, LAMBDA i : i >= 0)
      unit == UnitMillis(ToLower(TrimWs(num.rest)))
  IN  IF ~n.ok \/ unit = {} THEN Err ELSE Millis(n.val, CHOOSE f \in unit : TRUE)

-----------------------------------------------------------------------------
(***************************************************************************)
(* TimeoutConfig.                                                          *)
(***************************************************************************)
TimeoutAction_from_str(s) ==
  LET t == ToLower(TrimWs(s))
  IN  CASE t \in {<<"cancel">>, <<"keep">>} -> Got("Cancel", <<>>)
        [] t \in {<<"disconnect">>, <<"drop">>, <<"reconnect">>} -> Got("Disconnect", <<>>)
        [] OTHER -> Err

TimeoutConfig_default ==
  [statement_timeout |-> DEFAULT_STATEMENT_TIMEOUT_MS, connection_max_lifetime |-> NULL,
   timeout_action |-> "Cancel"]

\* A statement may not run longer than its connection lives.
TimeoutValid(t) ==
  \/ t.statement_timeout = NULL \/ t.connection_max_lifetime = NULL
  \/ t.statement_timeout <= t.connection_max_lifetime

\* base is NULL or a TimeoutConfig; what is not given comes from it.
from_overrides(over, base) ==
  LET Or(field, P(_), default) ==
        IF over[field] # NULL THEN P(over[field])
        ELSE Got(IF base = NULL THEN default
                 ELSE IF base[field] = NULL THEN default ELSE base[field], <<>>)
      st == Or("statement_timeout", parse_duration, DEFAULT_STATEMENT_TIMEOUT_MS)
      cl == Or("connection_max_lifetime", parse_duration, NULL)
      ac == Or("timeout_action", TimeoutAction_from_str, "Cancel")
      t  == [statement_timeout |-> st.val, connection_max_lifetime |-> cl.val,
             timeout_action |-> ac.val]
  IN  IF ~(st.ok /\ cl.ok /\ ac.ok) THEN Err
      ELSE IF TimeoutValid(t) THEN Got(t, <<>>) ELSE Err

-----------------------------------------------------------------------------
(***************************************************************************)
(* The connection string and sslmode of a connection.                      *)
(***************************************************************************)
Joined(parts) ==
  FoldLeft(LAMBDA a, p : IF a = <<>> THEN p ELSE a \o <<" ">> \o p, <<>>, parts)

UrlKeys == <<"host", "port", "user", "password", "dbname", "sslmode">>

\* NULL without a host or a user.  Values go in as they are.
to_connection_url(conn) ==
  LET Part(k) == <<k, "=">> \o IF k = "port" THEN <<Decimal10[conn.port]>> ELSE conn[k]
      given   == SelectSeq(UrlKeys, LAMBDA k : conn[k] # NULL)
  IN  CASE conn.url # NULL -> conn.url
        [] conn.host = NULL /\ conn.user = NULL -> NULL
        [] OTHER -> Joined([i \in DOMAIN given |-> Part(given[i])])

sslmode_from_value(v) ==
  LET t == ToLower(TrimWs(v))
  IN  CASE t = <<"prefer">> -> "Prefer"
        [] t = <<"require">> -> "Require"
        [] t \in {<<"verify-ca">>, <<"verify_ca">>} -> "VerifyCa"
        [] t \in {<<"verify-full">>, <<"verify_full">>} -> "VerifyFull"
        [] OTHER -> "Disable"

\* The first sslmode= among the parts, of the query if there is one.
FirstSslmode(parts) ==
  LET i == SelectInSeq(parts, LAMBDA p : IsPrefix(<<"sslmode", "=">>, p))
  IN  IF i = 0 THEN NULL ELSE Behind(2, parts[i])

sslmode_from_url(dsn) ==
  LET query == Split(dsn, "?")
      inUrl == IF Len(query) > 1 THEN FirstSslmode(Split(query[2], "&")) ELSE NULL
      pair  == FirstSslmode(Split(dsn, " "))
  IN  IF inUrl # NULL THEN sslmode_from_value(inUrl)
      ELSE IF pair # NULL THEN sslmode_from_value(pair) ELSE "Disable"

-----------------------------------------------------------------------------
(***************************************************************************)
(* read_config and resolve.  A file is [flat, connections, default]:       *)
(* connections in the order of their names.                                *)
(***************************************************************************)
\* MultiConfig::resolve: the connections and the name of the default one.
ResolveFile(file) ==
  IF file.connections # <<>>
  THEN Got([connections |-> file.connections,
            default |-> IF file.default = NULL THEN file.connections[1].name ELSE file.default], <<>>)
  ELSE IF file.flat.host = NULL /\ file.flat.user = NULL /\ file.flat.url = NULL THEN Err
  ELSE Got([connections |-> <<[file.flat EXCEPT !.name = "default"]>>, default |-> "default"], <<>>)

\* Invalid timeouts at the top of the file are as if there were none.
BaseTimeout(file) ==
  LET t == from_overrides(file.flat, NULL) IN IF t.ok THEN t.val ELSE NULL

\* The password of the file, or of the keyring (NULL: it has none) for the
\* sentinel and where there is no password.
FoundPassword(conn, keyring) ==
  IF conn.password \notin {NULL, KEYRING_SENTINEL} THEN Got(conn.password, <<>>)
  ELSE IF keyring = NULL THEN Err ELSE Got(keyring, <<>>)

resolve_single_connection(conn, keyring, base) ==
  LET pw  == FoundPassword(conn, keyring)
      url == to_connection_url([conn EXCEPT !.password = pw.val])
      t   == from_overrides(conn, base)
  IN  IF ~pw.ok THEN Err
      ELSE IF url = NULL \/ ~t.ok THEN Err
      ELSE Got([name |-> conn.name, connection_url |-> url, timeout_config |-> t.val,
                sslmode |-> IF conn.sslmode = NULL THEN "Disable"
                            ELSE sslmode_from_value(conn.sslmode)], <<>>)

resolve_env_var_connection(url) ==
  [name |-> "default", connection_url |-> url, timeout_config |-> TimeoutConfig_default,
   sslmode |-> sslmode_from_url(url)]

\* read_config: GAUSSDB_URL or DATABASE_URL stands for a file.
read_config(env, file) ==
  IF env = NULL THEN ResolveFile(file)
  ELSE Got([connections |-> <<[NoConnection EXCEPT !.name = "default", !.url = env]>>,
            default |-> "default"], <<>>)

Named(raw, name) ==
  SelectInSeq(raw.connections, LAMBDA c : c.name = (IF name = NULL THEN raw.default ELSE name))

\* gaussdb::config::resolve: a DSN is taken as it is; otherwise the named
\* connection, or the default one.
resolve(dsn, env, file, name, keyring) ==
  LET raw == read_config(env, file)
      i   == IF raw.ok THEN Named(raw.val, name) ELSE 0
  IN  IF dsn # NULL THEN Got(resolve_env_var_connection(dsn), <<>>)
      ELSE IF i = 0 THEN Err
      ELSE resolve_single_connection(raw.val.connections[i], keyring,
                                     IF env = NULL THEN BaseTimeout(file) ELSE NULL)

\* connect_async and connect_sync up to Config::connect: the settings, the
\* driver's sslmode and what the TLS connector does not verify.
ConnectSettings(resolved) ==
  LET c   == ParseConfig(resolved.connection_url)
      tls == resolved.sslmode # "Disable"
  IN  IF ~c.ok THEN Err
      ELSE Got([config |-> [c.val EXCEPT !.sslmode = IF tls THEN "require" ELSE "disable"],
                tls |-> tls,
                any_certificate |-> resolved.sslmode \in {"Prefer", "Require"},
                any_hostname |-> resolved.sslmode \in {"Prefer", "Require", "VerifyCa"}], <<>>)

-----------------------------------------------------------------------------
(***************************************************************************)
(* The tools: resolve_target of the shell and the command line, do_connect *)
(* and the entries of the server.                                          *)
(***************************************************************************)
resolve_target(name, env, file, over, keyring) ==
  LET raw == read_config(env, file)
      i   == IF raw.ok THEN Named(raw.val, name) ELSE 0
      r   == IF i = 0 THEN Err
             ELSE IF env # NULL THEN Got(resolve_env_var_connection(raw.val.connections[i].url), <<>>)
             ELSE resolve_single_connection(raw.val.connections[i], keyring, BaseTimeout(file))
      t   == IF r.ok THEN from_overrides(over, r.val.timeout_config) ELSE Err
  IN  IF t.ok THEN Got([r.val EXCEPT !.timeout_config = t.val], <<>>) ELSE Err

\* needs_tls looks at the parts between white space.
needs_tls(url) ==
  \E i \in DOMAIN Split(url, " ") :
    Split(url, " ")[i] \in {<<"sslmode", "=", m>> : m \in {"require", "verify-ca", "verify-full"}}

do_connect(url) ==
  LET c == ParseConfig(url)
  IN  IF ~c.ok THEN Err
      ELSE Got([config |-> c.val, tls |-> needs_tls(url),
                any_certificate |-> TRUE, any_hostname |-> TRUE], <<>>)

\* build_lazy_resolver and what its resolver returns: without a sentinel the
\* keyring is not asked.
LazyUrl(conn, keyring, base) ==
  LET r  == resolve_single_connection(conn, keyring, base)
      pw == IF conn.password = KEYRING_SENTINEL THEN keyring ELSE NULL
      t  == from_overrides(conn, base)
  IN  IF conn.url # NULL \/ conn.password \notin {NULL, KEYRING_SENTINEL}
      THEN IF r.ok THEN Got(r.val.connection_url, <<>>) ELSE Err
      ELSE IF ~t.ok \/ (conn.password = KEYRING_SENTINEL /\ keyring = NULL) THEN Err
      ELSE LET url == to_connection_url([conn EXCEPT !.password = pw])
           IN  IF url = NULL THEN Err ELSE Got(url, <<>>)
=============================================================================
