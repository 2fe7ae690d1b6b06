------------------------------ MODULE Formats -------------------------------
(***************************************************************************)
(* The conversions of the drivers and of the tools, each checked against   *)
(* what it is for: the codec on any division of the server's octets into   *)
(* pieces, requests against a reader of the server's side, and the other   *)
(* conversions against their inverse or against a reference.               *)
(*                                                                         *)
(* Reading and writing messages are Wire's actions.  Each other conversion *)
(* is one step that chooses an input; job keeps it with what the code      *)
(* makes of it.  One behavior does one of the three.                       *)
(***************************************************************************)
EXTENDS Wire, Output, ConfigFile, SqlText

CONSTANTS
  Sent,         \* Sent[<<mode, octets>>]: the messages the server means by them
  ValueCases,   \* <<Rust type, Postgres type, value>>
  RangeCases,   \* <<lower bound, upper bound>>, <<>> for the empty range
  RowCases,     \* rows: sequences of columns [name, type, rust, value], those
                \* whose names differ in case at most having one Rust type
  ShowCases,    \* [type, rust, value], or the octets themselves as value
  SettingCases, \* settings of a connection string: functions from keys to text,
                \* host and port to sequences of text
  FileCases,    \* [dsn, env, file, name, keyring, over]: what resolve is called with
  Literals,     \* text to be quoted
  Scripts,      \* statements, each a sequence of pieces (see Rendered)
  Encoded       \* Encoded[c]: character c percent-encoded

VARIABLE job    \* the conversion that was done

NoJob == [of |-> "none"]
vars == <<wireVars, job>>

Done(j) ==
  /\ job = NoJob /\ stream = <<>> /\ asked = <<>>
  /\ job' = j
  /\ UNCHANGED wireVars

-----------------------------------------------------------------------------
(***************************************************************************)
(* Values and rows.                                                        *)
(***************************************************************************)
\* A value is checked, written and read back: as it was written, cut off at
\* any length, and with an octet behind it.
ConvertValue ==
  \E c \in ValueCases :
    LET octets == to_sql_checked(c[1], c[2], c[3])
        sent   == octets \notin {NULL, Unconvertible}
    IN  Done([of |-> "value", case |-> c, octets |-> octets,
              back |-> IF octets = Unconvertible THEN Err ELSE from_sql_nullable(c[1], c[2], octets),
              short |-> IF sent THEN {from_sql(c[1], c[2], First(n, octets)) :
                                        n \in 0 .. Len(octets) - 1} ELSE {},
              long |-> IF sent THEN from_sql(c[1], c[2], Append(octets, 0)) ELSE Err])

\* A range by its bounds' octets: the protocol crate's, no Rust type is one.
ConvertRange ==
  \E r \in RangeCases :
    LET octets == IF r = <<>> THEN empty_range_to_sql ELSE range_to_sql(r[1], r[2]).buf
    IN  Done([of |-> "range", range |-> r, back |-> range_from_sql(octets),
              short |-> {range_from_sql(First(n, octets)) : n \in 0 .. Len(octets) - 1},
              long |-> range_from_sql(Append(octets, 0))])

OctetsOf(row) == [i \in DOMAIN row |-> to_sql_checked(row[i].rust, row[i].type, row[i].value)]
TypesOf(row) == [i \in DOMAIN row |-> row[i].type]

\* The server sends the row as a DataRow; every column is read by position
\* and by name, as its type and shown by the tools.
ReadRow ==
  \E row \in RowCases :
    LET body == <<Len(row), WriteEach(write_nullable, OctetsOf(row), <<>>).buf>>
        r    == RowNew([i \in DOMAIN row |-> [name |-> row[i].name, type |-> row[i].type]], body)
    IN  Done([of |-> "row", row |-> row, ok |-> r.ok,
              cut |-> {RowNew(TypesOf(row), <<body[1], First(n, body[2])>>).ok :
                         n \in 0 .. Len(body[2]) - 1},
              byPosition |-> [i \in DOMAIN row |-> get_inner(r.val, <<"pos", i>>, row[i].rust)],
              byName |-> [i \in DOMAIN row |-> get_inner(r.val, <<"name", row[i].name>>, row[i].rust)],
              text |-> [i \in DOMAIN row |-> simple_get_inner(r.val, <<"pos", i>>)],
              anyCase |-> [i \in DOMAIN row |->
                             get_inner(r.val, <<"name", <<row[i].name[1], "other">>>>, row[i].rust)],
              beyond |-> get_inner(r.val, <<"pos", Len(row) + 1>>, <<"i32">>)])

\* The row is copied in, twice, and what was sent is copied out again, one
\* chunk for each row as the server sends it.
CopyRows ==
  \E row \in RowCases :
    LET vs    == [i \in DOMAIN row |-> <<row[i].rust, row[i].value>>]
        w     == copy_finish(write_raw(write_raw(BinaryCopyInWriter(TypesOf(row)), vs), vs))
        one   == PutInt(Len(row), 2) \o WriteEach(write_nullable, OctetsOf(row), <<>>).buf
        head  == BinaryCopyInWriter(<<>>).buf
        Out(chunks) == BinaryCopyOut(TypesOf(row), chunks)
        out   == Out(<<head \o one, one, PutInt(-1, 2)>>)
    IN  Done([of |-> "copy", row |-> row,
              sent |-> FlattenSeq(w.sent), want |-> head \o one \o one \o PutInt(-1, 2),
              most |-> Max({Len(w.sent[i]) : i \in DOMAIN w.sent} \cup {0}), size |-> Len(one),
              end |-> out.end, open |-> Out(<<head \o one>>).end,
              back |-> [k \in DOMAIN out.rows |->
                          [i \in DOMAIN row |-> copy_try_get(TypesOf(row), out.rows[k], i, row[i].rust)]]])

\* A column of the server is shown by the tools.
ShowValue ==
  \E c \in ShowCases :
    LET octets == IF c.rust = "octets" THEN c.value ELSE to_sql_checked(<<"Option", <<c.rust>>>>, c.type, c.value)
        row    == RowNew(<<[name |-> <<"c", "c">>, type |-> c.type]>>, <<1, write_nullable(octets, <<>>).buf>>)
    IN  Done([of |-> "show", case |-> c, octets |-> octets,
              json |-> format_value_with_type(row.val, 1), text |-> format_field_string(row.val, 1)])

-----------------------------------------------------------------------------
(***************************************************************************)
(* Configuration.                                                          *)
(***************************************************************************)
\* Settings as key='value' pairs, and as a URL.
Lists == {"host", "port", "hostaddr"}
KeyOrder ==
  <<"user", "password", "host", "port", "dbname", "hostaddr", "sslmode", "sslnegotiation", "connect_timeout",
    "channel_binding", "target_session_attrs", "load_balance_hosts", "opengauss_compat", "keepalives",
    "keepalives_retries">>
Commas(list) == FlattenSeq([i \in DOMAIN list |-> (IF i = 1 THEN <<>> ELSE <<",">>) \o list[i]])
AsText(set, k) == IF k \in Lists THEN Commas(set[k]) ELSE set[k]

InPairs(set) ==
  LET Quoted(v) == FlattenSeq([i \in DOMAIN v |-> IF v[i] \in {"'", "\\"} THEN <<"\\", v[i]>> ELSE <<v[i]>>])
      keys      == SelectSeq(KeyOrder, LAMBDA k : k \in DOMAIN set)
  IN  Joined([i \in DOMAIN keys |-> <<keys[i], "=", "'">> \o Quoted(AsText(set, keys[i])) \o <<"'">>])

Encode(v) == [i \in DOMAIN v |-> IF v[i] \in DOMAIN Encoded THEN Encoded[v[i]] ELSE v[i]]
UrlHost(h) == IF \E i \in DOMAIN h : h[i] = ":" THEN <<"[">> \o h \o <<"]">> ELSE Encode(h)
InUrl(set) ==
  LET Has(k) == k \in DOMAIN set
      If(k, before) == IF Has(k) THEN before \o Encode(set[k]) ELSE <<>>
      hosts  == [i \in DOMAIN set["host"] |->
                   UrlHost(set["host"][i]) \o IF Has("port") THEN <<":">> \o set["port"][i] ELSE <<>>]
      rest   == SelectSeq(Behind(5, KeyOrder), Has)
      params == [i \in DOMAIN rest |-> <<IF i = 1 THEN "?" ELSE "&", rest[i], "=">>
                                       \o Encode(AsText(set, rest[i]))]
  IN  <<"postgres://">> \o If("user", <<>>) \o If("password", <<":">>)
      \o (IF Has("user") THEN <<"@">> ELSE <<>>) \o (IF Has("host") THEN Commas(hosts) ELSE <<>>)
      \o If("dbname", <<"/">>) \o FlattenSeq(params)

ParseSettings ==
  \E set \in SettingCases :
    Done([of |-> "settings", set |-> set,
          pairs |-> ParseConfig(InPairs(set)), url |-> ParseConfig(InUrl(set))])

\* The three ways to a connection of the file: the drivers', the shell's and
\* the server's.
ResolveConnection ==
  \E c \in FileCases :
    LET r == resolve(c.dsn, c.env, c.file, c.name, c.keyring)
        t == resolve_target(c.name, c.env, c.file, c.over, c.keyring)
    IN  Done([of |-> "resolve", case |-> c, resolved |-> r,
              settings |-> IF r.ok THEN ConnectSettings(r.val) ELSE Err,
              shell |-> t, connected |-> IF t.ok THEN do_connect(t.val.connection_url) ELSE Err,
              lazy |-> LET raw == ResolveFile(c.file)
                           i   == IF raw.ok THEN Named(raw.val, c.name) ELSE 0
                       IN  IF i = 0 THEN Err
                           ELSE LazyUrl(raw.val.connections[i], c.keyring, BaseTimeout(c.file))])

-----------------------------------------------------------------------------
(***************************************************************************)
(* Text.                                                                   *)
(***************************************************************************)
QuoteText ==
  \E s \in Literals :
    Done([of |-> "quote", text |-> s, literal |-> escape_literal(s), ident |-> escape_identifier(s)])

\* A piece of SQL: words, a quoted literal or identifier, a dollar quote, a
\* comment with another one inside, a comment to the end of the line.
Rendered(piece) ==
  CASE piece[1] = "words" -> piece[2]
    [] piece[1] = "literal" -> escape_literal(piece[2])
    [] piece[1] = "ident" -> escape_identifier(piece[2])
    [] piece[1] = "dollar" -> <<"$">> \o piece[2] \o <<"$">> \o piece[3] \o <<"$">> \o piece[2] \o <<"$">>
    [] piece[1] = "nested" -> <<"/", "*">> \o piece[2] \o <<"/", "*">> \o piece[2] \o <<"*", "/">>
                              \o piece[2] \o <<"*", "/">>
    [] piece[1] = "line" -> <<"-", "-">> \o piece[2] \o <<"\n">>

StatementText(pieces) == Joined([i \in DOMAIN pieces |-> Rendered(pieces[i])])

\* What is run of a buffer that rustyline hands over: split leaves nothing
\* over, or that is lost.  A buffer that is not complete is not handed over.
Handover(input) ==
  [complete |-> IF validate(input) THEN split_statements(input).complete ELSE <<>>, open |-> ~validate(input)]

\* The text with Enter typed behind its first n characters: it ends the input
\* if that is complete, and otherwise goes into the buffer as a newline.
EnterBehind(n, text) ==
  LET line == Handover(First(n, text))
      rest == Handover((IF line.open THEN First(n, text) \o <<"\n">> ELSE <<>>) \o Behind(n, text))
  IN  [complete |-> line.complete \o rest.complete, open |-> rest.open]

SplitText ==
  \E script \in Scripts :
    LET text == FlattenSeq([i \in DOMAIN script |-> Append(StatementText(script[i]), ";")])
        In(t) == split_statements(t)
    IN  Done([of |-> "split", script |-> script, all |-> In(text),
              text |-> text, typed |-> [n \in DOMAIN text |-> EnterBehind(n, text)],
              alone |-> [i \in DOMAIN script |-> In(StatementText(script[i]))],
              enter |-> validate(text), open |-> validate(Append(text, "SELECT")),
              bare |-> [i \in DOMAIN script |-> strip_leading_comments(StatementText(script[i]))],
              rows |-> [i \in DOMAIN script |-> IsQuery(StatementText(script[i]))]])

-----------------------------------------------------------------------------
Init == WireInit /\ job = NoJob /\ (stream = <<>> => mode = "Standard")

ReadStep == stream # <<>> /\ WireRead /\ UNCHANGED job
WriteStep == stream = <<>> /\ job = NoJob /\ WireWrite /\ UNCHANGED job

Next ==
  \/ ReadStep \/ WriteStep
  \/ ConvertValue \/ ConvertRange \/ ReadRow \/ CopyRows \/ ShowValue
  \/ ParseSettings \/ ResolveConnection
  \/ QuoteText \/ SplitText

Spec == Init /\ [][Next]_vars

-----------------------------------------------------------------------------
(***************************************************************************)
(* The codec.                                                              *)
(***************************************************************************)
Handed == FlattenSeq([k \in DOMAIN items |-> IF items[k].is = "async" THEN <<items[k].msg>>
                                             ELSE items[k].msgs])
IsBad(m) == m.tag = "error"
ReadyEnds(msgs) == \A i \in DOMAIN msgs : msgs[i].tag = "READY_FOR_QUERY" => i = Len(msgs)

\* However the server's octets are divided into pieces, the messages handed
\* on are the ones it sent, in their order, none twice and none left out, up
\* to the first that is malformed; asynchronous ones come alone, a batch is
\* complete exactly if ReadyForQuery is its last message, and a connection
\* that ends inside a message ends with an error (PostgresCodec::decode,
\* BackendMessages, Message::parse_with_mode).
MessagesAsSent ==
  stream # <<>> =>
    LET want == Sent[<<mode, stream>>]
        bad  == Min({i \in DOMAIN want : IsBad(want[i])} \cup {Len(want) + 1})
    IN  /\ \A i \in DOMAIN Handed : i <= bad => i \in DOMAIN want /\ Handed[i] = want[i]
        /\ rstate = "eof" /\ arrived = Len(stream) => Len(Handed) = Len(want) \/ bad <= Len(Handed)
        /\ rstate = "error" => bad <= Len(want) \/ arrived < Len(stream)
        /\ \A k \in DOMAIN items : items[k].is = "normal" =>
             /\ ReadyEnds(items[k].msgs)
             /\ \A i \in DOMAIN items[k].msgs : items[k].msgs[i].tag \notin Async
             /\ items[k].complete <=>
                  \/ IsBad(Last(items[k].msgs)) /\ items[k].complete
                  \/ Last(items[k].msgs).tag = "READY_FOR_QUERY"

(***************************************************************************)
(* The server's side of a request: the fields of each message as it reads  *)
(* them, and what they are meant to be.                                    *)
(***************************************************************************)
Grammar(tag) ==
  CASE tag = "bind" -> <<CStr, CStr, <<"count", <<U(2)>>>>, <<"count", <<Nullable>>>>, <<"count", <<U(2)>>>>>>
    [] tag = "parse" -> <<CStr, CStr, <<"count", <<U(4)>>>>>>
    [] tag \in {"close", "describe"} -> <<U(1), CStr>>
    [] tag = "execute" -> <<CStr, I(4)>>
    [] tag \in {"copy_fail", "password_message", "query"} -> <<CStr>>
    [] tag = "sasl_initial_response" -> <<CStr, Nullable>>
    [] tag \in {"sasl_response", "copy_data"} -> <<All>>
    [] tag = "cancel_request" -> <<I(4), I(4), I(4)>>
    [] tag = "ssl_request" -> <<I(4)>>
    [] tag = "startup_message" -> <<I(4), <<"pairs", <<>>>>>>
    [] OTHER -> <<>>

Meaning(m) ==
  CASE m.tag = "bind" -> <<m.portal, m.statement, m.formats, m.values, m.result_formats>>
    [] m.tag = "parse" -> <<m.name, m.query, m.param_types>>
    [] m.tag \in {"close", "describe"} -> <<m.variant, m.name>>
    [] m.tag = "execute" -> <<m.portal, m.max_rows>>
    [] m.tag = "copy_fail" -> <<m.message>>
    [] m.tag = "password_message" -> <<m.password>>
    [] m.tag = "query" -> <<m.query>>
    [] m.tag = "sasl_initial_response" -> <<m.mechanism, m.data>>
    [] m.tag \in {"sasl_response", "copy_data"} -> <<m.data>>
    [] m.tag = "cancel_request" -> <<CANCEL_CODE, m.process_id, m.secret_key>>
    [] m.tag = "ssl_request" -> <<SSL_CODE>>
    [] m.tag = "startup_message" -> <<PROTOCOL, FlattenSeq(m.parameters)>>
    [] OTHER -> <<>>

ServerField(field, buf) ==
  LET n == Read(U(2), buf)
  IN  CASE field[1] = "count" -> IF n.ok THEN ReadItems(n.val, field[2], n.rest) ELSE Err
        [] field[1] = "pairs" -> SaslMechanisms(buf)
        [] OTHER -> Read(field, buf)

\* What is left when m has been read from buf, Err if something else is there.
ServerTakes(m, buf) ==
  LET tagged == m.tag \notin Untagged
      at     == IF tagged THEN Behind(1, buf) ELSE buf
      len    == Read(I(4), at)
      whole  == IF len.ok /\ len.val >= 4 THEN ReadExact(len.val - 4, len.rest) ELSE Err
      fields == FoldLeft(LAMBDA r, f : IF ~r.ok THEN r
                                       ELSE LET x == ServerField(f, r.rest)
                                            IN  IF x.ok THEN Got(Append(r.val, x.val), x.rest) ELSE Err,
                         Got(<<>>, whole.val), Grammar(m.tag))
  IN  IF buf = <<>> \/ ~whole.ok THEN Err
      ELSE IF (tagged /\ buf[1] # FTag[m.tag]) \/ ~Drained(fields).ok \/ fields.val # Meaning(m) THEN Err
      ELSE Ok(whole.rest)

\* The server reads exactly the messages of the requests that could be
\* encoded: a request that fails half way (a string with a terminator, a
\* value that does not convert, too many or too long ones) leaves nothing
\* behind in front of the next one (frontend.rs, InnerClient::with_buf).
RequestsAreWholeFrames ==
  LET good == SelectSeq(asked, LAMBDA a : a.ok)
      msgs == FlattenSeq([i \in DOMAIN good |-> good[i].msgs])
  IN  FoldLeft(LAMBDA r, m : IF r.ok THEN ServerTakes(m, r.val) ELSE r, Ok(written), msgs) = Ok(<<>>)

(***************************************************************************)
(* Values and rows.                                                        *)
(***************************************************************************)
\* What a value keeps: times are whole microseconds, zero has no sign and no
\* scale.
Kept(rt, v) ==
  CASE rt[1] \in {"SystemTime", "NaiveDateTime", "DateTimeUtc", "JiffDateTime", "JiffTimestamp",
                  "NaiveTime", "JiffTime"} -> Trunc(v, NsecPerUsec) * NsecPerUsec
    [] rt[1] = "Decimal" -> IF v.mant = 0 THEN [neg |-> FALSE, mant |-> 0, scale |-> 0] ELSE v
    [] OTHER -> v

\* Types that take whatever octets there are, or ignore the ones behind.
OpenEnded == {"bytes", "str", "Json", "enum", "transparent"}
Trailing == {"composite", "Decimal"}

\* A mantissa is aligned to whole groups on the wire and may not fit then.
Unaligned(rt, v) ==
  rt[1] = "Decimal" /\ v.mant * 10 ^ (CeilDiv(v.scale, DecDigits) * DecDigits - v.scale) > MaxMantissa

\* A cut through the text of a key or a value of a map.
CutsText(inner, v) ==
  inner = "HashMap" /\ v # NULL /\ \E e \in v : e[1] # <<>> \/ e[2] \notin {NULL, <<>>}

\* A value that a type accepts for writing is read back as it was, by the
\* same Rust type, NULL as NULL.  An array, range, map or record that is cut
\* off anywhere, or has octets behind it, is never read as another value:
\* its reader returns an error, but for a map cut inside a key or a value,
\* where it panics (types/mod.rs, HstoreEntries there; ToSql and FromSql of
\* the types crate and of the derive macros).
TypesRoundTrip ==
  /\ job.of = "value" =>
       LET rt == job.case[1] ty == job.case[2] v == job.case[3]
           inner == IF rt[1] \in {"Option", "Box"} THEN rt[2][1] ELSE rt[1]
       IN  /\ (job.octets = NULL) <=> (v = NULL)
           /\ job.octets # Unconvertible => /\ accepts("from", rt, ty)
                                            /\ job.back = Ok(Kept(rt, v)) \/ (~job.back.ok /\ Unaligned(rt, v))
           /\ inner \notin OpenEnded =>
                /\ job.short \subseteq {Err} \cup IF CutsText(inner, v) THEN {Panic} ELSE {}
                /\ inner \notin Trailing => job.long = Err
           /\ Panic \in job.short <=> CutsText(inner, v)
  /\ job.of = "range" => job.back = Ok(job.range) /\ job.short \cup {job.long} = {Err}

\* Every column of a DataRow is found by its position and by its name, the
\* exact spelling going before one that differs in case, and has its value;
\* a row that is cut off is refused.  What is copied in goes over whole, in
\* messages of a bounded size, and reads back row for row; a copy that stops
\* before the trailer is an error (row.rs, binary_copy.rs).
RowsReadBack ==
  /\ job.of = "row" =>
       LET exact(i) == Min({j \in DOMAIN job.row : job.row[j].name = job.row[i].name})
           other(i) == Min({j \in DOMAIN job.row : job.row[j].name[1] = job.row[i].name[1]})
       IN  /\ job.ok /\ TRUE \notin job.cut /\ ~job.beyond.ok
           /\ \A i \in DOMAIN job.row :
                /\ job.byPosition[i] = Ok(job.row[i].value)
                /\ job.byName[i] = Ok(job.row[exact(i)].value)
                /\ job.anyCase[i] = Ok(job.row[other(i)].value)
                /\ job.text[i] = Ok(OctetsOf(job.row)[i])
  /\ job.of = "copy" =>
       /\ job.sent = job.want
       /\ job.most <= CopyFlush + job.size + 2
       /\ job.end = "end" /\ job.open = "closed"
       /\ job.back = [k \in 1 .. 2 |-> [i \in DOMAIN job.row |-> Ok(job.row[i].value)]]

(***************************************************************************)
(* Configuration and text.                                                 *)
(***************************************************************************)
\* The Config that settings stand for; in a URL a host has its port with it.
Meant(set, url) ==
  LET Value(k) ==
        CASE k = "host" -> [i \in DOMAIN set[k] |-> Host(set[k][i])]
          [] k = "port" -> [i \in DOMAIN set[k] |-> Number[set[k][i][1]]]
          [] k = "hostaddr" -> [i \in DOMAIN set[k] |-> set[k][i][1]]
          [] k \in DOMAIN EnumOptions -> set[k][1]
          [] k = "opengauss_compat" -> set[k][1] \in Yes
          [] k = "keepalives" -> Number[set[k][1]] # 0
          [] k \in {"connect_timeout", "keepalives_retries"} -> Number[set[k][1]]
          [] OTHER -> set[k]
      plain == [k \in DOMAIN Config_new |-> IF k \in DOMAIN set THEN Value(k) ELSE Config_new[k]]
  IN  IF url /\ "port" \notin DOMAIN set /\ "host" \in DOMAIN set
      THEN [plain EXCEPT !.port = [i \in DOMAIN set["host"] |-> 5432]] ELSE plain

\* The settings that are ones: ports that exist, words that are known.
Holds(set) ==
  /\ \A k \in DOMAIN EnumOptions \cap DOMAIN set : set[k][1] \in EnumOptions[k]
  /\ "port" \in DOMAIN set => \A i \in DOMAIN set["port"] : Number[set["port"][i][1]] \in 0 .. MaxPort
  /\ "connect_timeout" \in DOMAIN set => Number[set["connect_timeout"][1]] > 0

\* Milliseconds of a time of the file, and whether they can be counted.
Factor(s) == CHOOSE f \in UnitMillis(Behind(1, s)) : TRUE
Counted(s) == s # NULL => Number[s[1]] <= MaxMillis \div Factor(s)
TimeOf(s, default) == IF s = NULL THEN default ELSE Number[s[1]] * Factor(s)

\* A connection of the file that can be used.
Usable(conn, keyring) ==
  /\ conn.password \in {NULL, KEYRING_SENTINEL} => keyring # NULL
  /\ Counted(conn.statement_timeout) /\ Counted(conn.connection_max_lifetime)
  /\ TimeOf(conn.statement_timeout, DEFAULT_STATEMENT_TIMEOUT_MS) <= TimeOf(conn.connection_max_lifetime, MaxMillis)
  /\ conn.timeout_action # <<"never">>

\* What stands for itself behind "=" without quotes.
Bare(v) == v # NULL => v # <<>> /\ v[1] # "'" /\ \A i \in DOMAIN v : v[i] \notin Space \cup {"\\"}
NeedsNoQuotes(conn) ==
  /\ conn.sslmode # NULL => conn.sslmode[1] \in EnumOptions.sslmode
  /\ \A k \in {"user", "password", "dbname"} : Bare(conn[k])

Says(c, conn) ==
  /\ \A k \in {"user", "password", "dbname"} : c[k] = conn[k]
  /\ c.host = <<Host(conn.host)>> /\ c.port = <<conn.port>>

\* A user, password, host or database of any characters, quotes, blanks,
\* separators and percent signs included, comes out of key='value' pairs and
\* out of a percent-encoded URL as it went in, for one host and for several;
\* a port or a word that is not one is refused.  A connection of the
\* configuration file resolves exactly if it has a password and times that
\* can be counted and make sense; its statement timeout never goes beyond its
\* lifetime, and none wraps around.  The connection string made of it says
\* what the file says exactly if no value needs quotes, which
\* to_connection_url does not write, and sslmode is one of the driver's; the
\* lazy resolver makes the same one (config.rs of the driver and of gaussdb,
\* duration_parse.rs).
ConfigReadBack ==
  /\ job.of = "settings" =>
       IF Holds(job.set) THEN job.pairs = Ok(Meant(job.set, FALSE)) /\ job.url = Ok(Meant(job.set, TRUE))
       ELSE ~job.pairs.ok /\ ~job.url.ok
  /\ job.of = "resolve" /\ job.case.dsn # NULL => job.settings.ok /\ job.settings.val.tls
  /\ job.of = "resolve" /\ job.case.dsn = NULL /\ job.case.env = NULL =>
       LET file == ResolveFile(job.case.file)
           at   == IF file.ok THEN Named(file.val, job.case.name) ELSE 0
           conn == LET c == file.val.connections[at]
                   IN  IF c.password \in {NULL, KEYRING_SENTINEL} THEN [c EXCEPT !.password = job.case.keyring] ELSE c
           t    == job.resolved.val.timeout_config
       IN  /\ job.resolved.ok <=> (at # 0 /\ Usable(file.val.connections[at], job.case.keyring))
           /\ job.shell.ok => job.resolved.ok /\ TimeoutValid(job.shell.val.timeout_config)
           /\ job.resolved.ok =>
                /\ TimeoutValid(t)
                /\ \A k \in {"statement_timeout", "connection_max_lifetime"} :
                     conn[k] # NULL => t[k] \div Factor(conn[k]) = Number[conn[k][1]]
                /\ conn.url = NULL => (job.settings.ok /\ Says(job.settings.val.config, conn) <=> NeedsNoQuotes(conn))
                /\ file.val.connections[at].password # NULL => job.lazy = Ok(job.resolved.val.connection_url)

\* What a server reads as a literal or an identifier; with
\* standard_conforming_strings off a backslash escapes in any literal.
ServerText(s, q, escapes) ==
  LET f[i \in 1 .. Len(s) + 1] ==
        CASE i > Len(s) -> Err
          [] escapes /\ s[i] = "\\" -> IF i = Len(s) THEN Err
                                       ELSE MapVal(f[i + 2], LAMBDA r : <<s[i + 1]>> \o r)
          [] s[i] # q -> MapVal(f[i + 1], LAMBDA r : <<s[i]>> \o r)
          [] i < Len(s) /\ s[IF i < Len(s) THEN i + 1 ELSE i] = q -> MapVal(f[i + 2], LAMBDA r : <<q>> \o r)
          [] OTHER -> Got(<<>>, Behind(i, s))
  IN  f[2]

ServerLiteral(s, conforming) ==
  IF IsPrefix(<<" ", "E">>, s) THEN ServerText(Behind(2, s), "'", TRUE) ELSE ServerText(s, "'", ~conforming)

Solid(pieces) == \E i \in DOMAIN pieces : pieces[i][1] \in {"words", "literal", "ident", "dollar"}

\* A newline behind the first n characters leaves the marks around it what
\* they are: no mark is on both sides of it, nor the rest of a -- comment
\* behind it.
Between(n, text) ==
  LET st == SplitLoop(text, n) IN st.next = n + 1 /\ st.mode # <<"line">>

NoNewline(texts) == [i \in DOMAIN texts |-> SelectSeq(texts[i], LAMBDA c : c # "\n")]

\* A text that is quoted is read by the server as that text, whatever its
\* setting of standard_conforming_strings (escape_literal,
\* escape_identifier).  Statements are cut at the semicolons between them and
\* nowhere else, not in a literal, identifier, dollar quote or nested
\* comment, and none of them is cut again (split_statements).  Enter in
\* between, whether it hands the line over or adds a newline to the buffer,
\* loses nothing and gives the same statements up to that newline; not in a
\* -- comment, which it ends, nor inside a mark, which it takes apart
\* (validate, the loop of the shell).  The keyword is found behind any
\* comments (strip_leading_comments).
SqlTextKept ==
  /\ job.of = "quote" =>
       /\ \A conforming \in BOOLEAN : ServerLiteral(job.literal, conforming) = Ok(job.text)
       /\ ServerText(job.ident, "\"", FALSE) = Ok(job.text)
  /\ job.of = "split" =>
       LET texts == [i \in DOMAIN job.script |-> TrimText(StatementText(job.script[i]))]
       IN  /\ job.all = [complete |-> SelectSeq(texts, LAMBDA t : t # <<>>), remainder |-> <<>>]
           /\ \A n \in DOMAIN job.text : Between(n, job.text) =>
                /\ ~job.typed[n].open
                /\ NoNewline(job.typed[n].complete) = NoNewline(job.all.complete)
           /\ \A i \in DOMAIN texts : job.alone[i].complete = <<>>
           /\ job.enter /\ ~job.open
           /\ \A i \in DOMAIN texts :
                LET solid == SelectInSeq(job.script[i], LAMBDA p : p[1] \notin {"nested", "line"})
                    bare  == TrimStart(StatementText(Behind(solid - 1, job.script[i])))
                IN  /\ job.bare[i] = IF solid = 0 THEN <<>> ELSE bare
                    /\ job.rows[i] <=> (solid # 0 /\ bare # <<>> /\ bare[1] \in {"SELECT", "EXPLAIN", "WITH"})

\* What is left of a text of JSON: each key once with its last number, which
\* is a double beyond the integers.
JsonKept(text, shown) ==
  LET m == JsonMembers(text).val
  IN  IF text = JSON_NULL THEN shown = <<"null">>
      ELSE /\ DOMAIN shown[2] = {m[i][1] : i \in DOMAIN m}
           /\ \A i \in DOMAIN m : (\A k \in i + 1 .. Len(m) : m[k][1] # m[i][1]) =>
                /\ m[i][2] - shown[2][m[i][1]] \in 0 .. DoubleStep - 1
                /\ m[i][2] <= MaxJsonInt => shown[2][m[i][1]] = m[i][2]

\* The parts of an interval add up to it, except that its time has no sign,
\* and a fraction of a second before zero is added to the seconds it was to
\* be taken from: -0.5 s is shown as 00:00:01.5, against the "mirrors psql"
\* of output.rs:417.
IntervalKept(octets, shown) ==
  LET parts  == ReadFields(<<I(8), I(4), I(4)>>, octets).val
      time   == shown.time
      micros == ((time[1] * 60 + time[2]) * 60 + time[3]) * UsecPerSec + time[4]
      excess == IF parts[1] < 0 THEN 2 * (parts[1] % UsecPerSec) ELSE 0
  IN  12 * shown.years + shown.mons = parts[3] /\ shown.days = parts[2] /\ micros = Abs(parts[1]) + excess

\* What is shown of a column says what the server sent, a number without
\* loss and what cannot be read by its octets, and is nothing for NULL only;
\* with these exceptions: JSON output is also nothing for a float that is not
\* finite and for the null of JSON, a loss of the kind the comment at
\* output.rs:340-345 rules out; an inet is shown without its netmask;
\* serde_json keeps a key once and an integer beyond u64 as a double; and the
\* time of an interval before zero (format_value_with_type,
\* format_field_string, decimal_to_json, format_interval).
ShownAsIs ==
  job.of = "show" =>
    LET v == job.case.value rt == job.case.rust j == job.json t == job.text
        name == job.case.type.name
        typed == DisplayType(name) = {rt} /\ accepts("from", <<rt>>, job.case.type)
        read  == typed /\ ~Unaligned(<<rt>>, v)
    IN  /\ (t = Null) <=> (v = NULL)
        /\ (j = Null) <=> (v = NULL \/ (rt \in {"f32", "f64"} /\ v \in NotFinite)
                                       \/ (rt = "Json" /\ v = JSON_NULL))
        /\ t # Null /\ read /\ rt # "Json" => t.val = Kept(<<rt>>, v)
        /\ t # Null /\ ~typed /\ name \notin {"interval", "inet"} => t.val = job.octets /\ j.val = job.octets
        /\ t # Null /\ name = "inet" => t.val = v[1] /\ j.val = v[1]
        /\ t # Null /\ rt = "Json" => JsonKept(v, t.val) /\ (j # Null => j = t)
        /\ j # Null /\ read =>
             IF name = "numeric"
             THEN /\ j.val.mant * 10 ^ v.scale = v.mant * 10 ^ j.val.scale
                  /\ v.mant # 0 => j.val.neg = v.neg
                  /\ j.as = "number" /\ j.val.scale > 0 => Digits10(j.val.mant) <= JsonDigits
             ELSE j.val = t.val
        /\ t # Null /\ name = "interval" =>
             IF Len(job.octets) = 16 THEN IntervalKept(job.octets, t.val) ELSE t = Show("malformed", Len(job.octets))
=============================================================================
