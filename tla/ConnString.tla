----------------------------- MODULE ConnString -----------------------------
(***************************************************************************)
(* config.rs: a connection string becomes a Config, whether it is written  *)
(* as key=value pairs or as a URL.                                         *)
(*                                                                         *)
(* A string is a sequence of characters; a character is one the parsers    *)
(* look for, such as "=" and " ", or a whole word they never look into.    *)
(* A percent-encoded character is one character too.                       *)
(***************************************************************************)
EXTENDS Bytes

CONSTANTS
  Number,     \* Number[w]: the integer word w is the decimal form of
  Addresses,  \* the words that are IP addresses
  Decoded,    \* Decoded[c]: what the percent-encoded character c stands for
  MaxPort     \* u16::MAX

Space == {" "}

\* The readers of this module return Got(value, the string behind it).
TakeWhile(s, P(_)) ==
  LET n == SelectInSeq(s, LAMBDA c : ~P(c))
  IN  IF n = 0 THEN Got(s, <<>>) ELSE Got(First(n - 1, s), Behind(n - 1, s))

Split(s, sep) ==
  FoldLeft(LAMBDA parts, c : IF c = sep THEN Append(parts, <<>>)
                             ELSE [parts EXCEPT ![Len(parts)] = Append(@, c)],
           <<<<>>>>, s)

\* splitn(2, sep): the second part is NULL where there is no sep.
SplitOnce(s, sep) ==
  LET n == SelectInSeq(s, LAMBDA c : c = sep)
  IN  IF n = 0 THEN <<s, NULL>> ELSE <<First(n - 1, s), Behind(n, s)>>

\* str::parse of an integer type that holds In.
ParseInt(s, In(_)) ==
  IF Len(s) = 1 /\ s[1] \in DOMAIN Number THEN IF In(Number[s[1]]) THEN Got(Number[s[1]], <<>>) ELSE Err
  ELSE Err

-----------------------------------------------------------------------------
(***************************************************************************)
(* Config.  Its fields have the names of the options.                      *)
(***************************************************************************)
Config_new ==
  [user |-> NULL, password |-> NULL, dbname |-> NULL, options |-> NULL, application_name |-> NULL,
   sslmode |-> "prefer", sslnegotiation |-> "postgres",
   host |-> <<>>, hostaddr |-> <<>>, port |-> <<>>,
   connect_timeout |-> NULL, tcp_user_timeout |-> NULL,
   keepalives |-> TRUE, keepalives_idle |-> 7200, keepalives_interval |-> NULL,
   keepalives_retries |-> NULL,
   target_session_attrs |-> "any", channel_binding |-> "prefer",
   load_balance_hosts |-> "disable", opengauss_compat |-> FALSE]

TextOptions == {"user", "password", "dbname", "options", "application_name"}
SecondsOptions == {"connect_timeout", "tcp_user_timeout", "keepalives_idle", "keepalives_interval"}

\* The values of the options that are enumerations.
EnumOptions ==
  [sslmode |-> {"disable", "prefer", "require"},
   sslnegotiation |-> {"postgres", "direct"},
   target_session_attrs |-> {"any", "read-write", "read-only"},
   channel_binding |-> {"disable", "prefer", "require"},
   load_balance_hosts |-> {"disable", "random"}]

Yes == {"true", "1", "on"}
No == {"false", "0", "off"}

\* Config::host and host_path: a path is a Unix socket.
Host(s) == IF s # <<>> /\ s[1] = "/" THEN [unix |-> s] ELSE [tcp |-> s]

ParsePort(s) == IF s = <<>> THEN Got(5432, <<>>) ELSE ParseInt(s, LAMBDA n : n \in 0 .. MaxPort)
ParseAddr(s) == IF Len(s) = 1 /\ s[1] \in Addresses THEN Got(s[1], <<>>) ELSE Err

\* A list: every part must parse.
PushAll(c, field, parts, P(_)) ==
  LET parsed == [i \in DOMAIN parts |-> P(parts[i])]
  IN  IF \E i \in DOMAIN parsed : ~parsed[i].ok THEN Err
      ELSE Got([c EXCEPT ![field] = @ \o [i \in DOMAIN parsed |-> parsed[i].val]], <<>>)

SetField(c, field, v) == Got([c EXCEPT ![field] = v], <<>>)

param(c, key, value) ==
  LET k == IF Len(key) = 1 THEN key[1] ELSE "none"
      v == IF Len(value) = 1 THEN value[1] ELSE "none"
      n == CASE k \in SecondsOptions -> ParseInt(value, LAMBDA i : TRUE)
             [] OTHER -> ParseInt(value, LAMBDA i : i >= 0)
  IN  CASE k \in TextOptions -> SetField(c, k, value)
        [] k \in DOMAIN EnumOptions -> IF v \in EnumOptions[k] THEN SetField(c, k, v) ELSE Err
        [] k = "host" -> PushAll(c, k, Split(value, ","), LAMBDA h : Got(Host(h), <<>>))
        [] k = "hostaddr" -> PushAll(c, k, Split(value, ","), ParseAddr)
        [] k = "port" -> PushAll(c, k, Split(value, ","), ParsePort)
        [] k \in SecondsOptions -> IF ~n.ok THEN Err       \* not above 0: as if not given
                                   ELSE IF n.val > 0 THEN SetField(c, k, n.val) ELSE Got(c, <<>>)
        [] k = "keepalives" -> IF n.ok THEN SetField(c, k, n.val # 0) ELSE Err
        [] k = "keepalives_retries" -> IF n.ok THEN SetField(c, k, n.val) ELSE Err
        [] k = "opengauss_compat" -> IF v \in Yes \cup No THEN SetField(c, k, v \in Yes) ELSE Err
        [] OTHER -> Err

-----------------------------------------------------------------------------
(***************************************************************************)
(* Parser: key = value, white space around, values quoted or not.          *)
(***************************************************************************)
skip_ws(s) == TakeWhile(s, LAMBDA c : c \in Space).rest
eat(s, c) == IF s # <<>> /\ s[1] = c THEN Got(c, Behind(1, s)) ELSE Err
keyword(s) == TakeWhile(s, LAMBDA c : c \notin Space \cup {"="})

\* Up to a character that Stops; a backslash takes the next one as it is,
\* and is dropped at the end.
Unescape(s, Stops(_)) ==
  LET f[i \in 1 .. Len(s) + 1] ==
        IF i > Len(s) \/ Stops(s[IF i > Len(s) THEN 1 ELSE i]) THEN Got(<<>>, Behind(i - 1, s))
        ELSE IF s[i] # "\\" THEN LET r == f[i + 1] IN Got(<<s[i]>> \o r.val, r.rest)
        ELSE IF i = Len(s) THEN Got(<<>>, <<>>)
        ELSE LET r == f[i + 2] IN Got(<<s[i + 1]>> \o r.val, r.rest)
  IN  f[1]

simple_value(s) ==
  LET r == Unescape(s, LAMBDA c : c \in Space) IN IF r.val = <<>> THEN Err ELSE r

\* The closing quote is not taken.
quoted_value(s) ==
  LET r == Unescape(s, LAMBDA c : c = "'") IN IF r.rest = <<>> THEN Err ELSE r

value(s) ==
  IF s = <<>> \/ s[1] # "'" THEN simple_value(s)
  ELSE LET q == quoted_value(Behind(1, s))
           e == IF q.ok THEN eat(q.rest, "'") ELSE Err
       IN  IF e.ok THEN Got(q.val, e.rest) ELSE Err

\* NULL without a keyword: that ends the parameters, whatever follows.
parameter(s) ==
  LET k  == keyword(skip_ws(s))
      eq == eat(skip_ws(k.rest), "=")
      v  == IF eq.ok THEN value(skip_ws(eq.rest)) ELSE Err
  IN  IF k.val = <<>> THEN Got(NULL, k.rest)
      ELSE IF v.ok THEN Got(<<k.val, v.val>>, v.rest) ELSE Err

Parser_parse(s) ==
  LET f[n \in 0 .. Len(s)] ==        \* the parameters in the last n characters
        LET p == parameter(Behind(Len(s) - n, s))
        IN  IF ~p.ok THEN <<Err>>
            ELSE IF p.val = NULL THEN <<>>
            ELSE <<p>> \o f[Len(p.rest)]
      Apply(c, p) == IF c.ok /\ p.ok THEN param(c.val, p.val[1], p.val[2]) ELSE Err
  IN  FoldLeft(Apply, Got(Config_new, <<>>), f[Len(s)])

-----------------------------------------------------------------------------
(***************************************************************************)
(* UrlParser.  A step returns Got(config, the string behind it).           *)
(***************************************************************************)
UrlPrefixes == {"postgres://", "postgresql://"}

TakeUntil(s, Ends) == TakeWhile(s, LAMBDA c : c \notin Ends)

decode(s) == [i \in DOMAIN s |-> IF s[i] \in DOMAIN Decoded THEN Decoded[s[i]] ELSE s[i]]

parse_credentials(c, s) ==
  LET r  == TakeUntil(s, {"@"})
      up == SplitOnce(r.val, ":")
  IN  IF r.rest = <<>> THEN Got(c, s)
      ELSE Got([c EXCEPT !.user = decode(up[1]),
                         !.password = IF up[2] = NULL THEN @ ELSE decode(up[2])], Behind(1, r.rest))

host_param(c, s) == Got([c EXCEPT !.host = Append(@, Host(decode(s)))], <<>>)

\* host, [host], each with :port or without; port NULL is none.
HostAndPort(chunk) ==
  LET close == SelectInSeq(chunk, LAMBDA x : x = "]")
      after == Behind(close, chunk)
  IN  IF chunk = <<>> \/ chunk[1] # "[" THEN Got(SplitOnce(chunk, ":"), <<>>)
      ELSE IF close = 0 THEN Err
      ELSE IF after = <<>> THEN Got(<<SubSeq(chunk, 2, close - 1), NULL>>, <<>>)
      ELSE IF after[1] = ":" THEN Got(<<SubSeq(chunk, 2, close - 1), Behind(1, after)>>, <<>>)
      ELSE Err

\* A host without a port has the default one, so that they stay paired.
HostChunk(c, chunk) ==
  LET hp   == HostAndPort(chunk)
      port == IF ~hp.ok THEN Err
              ELSE IF hp.val[2] = NULL THEN Got(5432, <<>>) ELSE ParsePort(decode(hp.val[2]))
  IN  IF ~port.ok THEN Err
      ELSE Got([host_param(c, hp.val[1]).val EXCEPT !.port = Append(@, port.val)], <<>>)

parse_host(c, s) ==
  LET r == TakeUntil(s, {"/", "?"})
      h == FoldLeft(LAMBDA a, chunk : IF a.ok THEN HostChunk(a.val, chunk) ELSE Err,
                    Got(c, <<>>), Split(r.val, ","))
  IN  IF r.val = <<>> THEN Got(c, s) ELSE IF h.ok THEN Got(h.val, r.rest) ELSE Err

parse_path(c, s) ==
  LET r == TakeUntil(Behind(1, s), {"?"})
  IN  IF s = <<>> \/ s[1] # "/" THEN Got(c, s)
      ELSE Got(IF r.val = <<>> THEN c ELSE [c EXCEPT !.dbname = decode(r.val)], r.rest)

\* What is between "&"; a last one that is empty is none.
UrlParameter(c, kv) ==
  LET p == SplitOnce(kv, "=")
  IN  IF p[2] = NULL THEN Err
      ELSE IF decode(p[1]) = <<"host">> THEN host_param(c, p[2])
      ELSE param(c, decode(p[1]), decode(p[2]))

parse_params(c, s) ==
  LET kvs  == Split(Behind(1, s), "&")
      some == IF Last(kvs) = <<>> THEN Front(kvs) ELSE kvs
  IN  IF s = <<>> \/ s[1] # "?" THEN Got(c, s)
      ELSE FoldLeft(LAMBDA a, kv : IF a.ok THEN UrlParameter(a.val, kv) ELSE Err, Got(c, <<>>), some)

UrlParser_parse(s) ==
  LET c == parse_credentials(Config_new, Behind(1, s))
      h == parse_host(c.val, c.rest)
      p == IF h.ok THEN parse_path(h.val, h.rest) ELSE Err
  IN  IF p.ok THEN parse_params(p.val, p.rest) ELSE Err

\* from_str.
ParseConfig(s) ==
  IF s # <<>> /\ s[1] \in UrlPrefixes THEN UrlParser_parse(s) ELSE Parser_parse(s)
=============================================================================
