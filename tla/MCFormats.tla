----------------------------- MODULE MCFormats ------------------------------
(***************************************************************************)
(* Formats for TLC.  Streams are sequences of frames, each with what the   *)
(* server means by it; the inputs of the other conversions are listed.     *)
(***************************************************************************)
EXTENDS Formats

MCTag ==
  [PARSE_COMPLETE |-> 49, BIND_COMPLETE |-> 50, CLOSE_COMPLETE |-> 51, NOTIFICATION_RESPONSE |-> 65,
   COPY_DONE |-> 99, COMMAND_COMPLETE |-> 67, COPY_DATA |-> 100, DATA_ROW |-> 68, ERROR_RESPONSE |-> 69,
   COPY_IN_RESPONSE |-> 71, COPY_OUT_RESPONSE |-> 72, EMPTY_QUERY_RESPONSE |-> 73,
   BACKEND_KEY_DATA |-> 75, NO_DATA |-> 110, NOTICE_RESPONSE |-> 78, AUTHENTICATION |-> 82,
   PORTAL_SUSPENDED |-> 115, PARAMETER_STATUS |-> 83, PARAMETER_DESCRIPTION |-> 116,
   ROW_DESCRIPTION |-> 84, READY_FOR_QUERY |-> 90, NEGOTIATE_PROTOCOL_VERSION |-> 118]

MCFTag ==
  [bind |-> 66, close |-> 67, copy_data |-> 100, copy_done |-> 99, copy_fail |-> 102, describe |-> 68,
   execute |-> 69, flush |-> 72, parse |-> 80, password_message |-> 112, query |-> 81,
   sasl_initial_response |-> 112, sasl_response |-> 112, sync |-> 83, terminate |-> 88]

MCI32Max == <<127, 255, 255, 255>>
MCI64Max == <<127, 255, 255, 255, 255, 255, 255, 255>>
MCMagic == <<80, 71, 0>>

-----------------------------------------------------------------------------
(***************************************************************************)
(* The server's frames: tag, body, and the message in each mode.           *)
(***************************************************************************)
Frame(name, body) == <<MCTag[name]>> \o PutInt(Len(body) + 4, 4) \o body
Bad == [tag |-> "error", val |-> <<>>]
Alike(name, body, val) ==
  [octets |-> Frame(name, body), Standard |-> [tag |-> name, val |-> val],
   OpenGauss |-> [tag |-> name, val |-> val]]
Broken(octets) == [octets |-> octets, Standard |-> Bad, OpenGauss |-> Bad]

Row1 == Alike("DATA_ROW", <<0, 1, 0, 0, 0, 0>>, <<1, <<0, 0, 0, 0>>>>)
Tagged == Alike("COMMAND_COMPLETE", <<7, 0>>, <<<<7>>>>)
Ready == Alike("READY_FOR_QUERY", <<73>>, <<73>>)
Notice == Alike("NOTICE_RESPONSE", <<0>>, <<<<0>>>>)
Parameter == Alike("PARAMETER_STATUS", <<8, 0, 9, 0>>, <<<<8>>, <<9>>>>)
Bound == Alike("BIND_COMPLETE", <<>>, <<>>)
Notify == Alike("NOTIFICATION_RESPONSE", <<0, 0, 0, 5, 8, 0, 0>>, <<5, <<8>>, <<>>>>)
KeyData == Alike("BACKEND_KEY_DATA", <<0, 0, 0, 1, 0, 0, 0, 2, 9>>, <<1, 2>>)
Negotiate == Alike("NEGOTIATE_PROTOCOL_VERSION", <<0, 0, 0, 0, 0, 0, 0, 1, 8, 0>>, <<>>)
Copying == Alike("COPY_OUT_RESPONSE", <<1, 0, 1, 0, 1>>, <<1, 1, <<0, 1>>>>)
Cleartext == Alike("AUTHENTICATION", <<0, 0, 0, 3>>, <<3>>)
Md5 == Alike("AUTHENTICATION", <<0, 0, 0, 5, 1, 2, 3, 4>>, <<5, <<1, 2, 3, 4>>>>)
Auth10 ==     \* SASL mechanisms there, SHA256 with salt, token, iterations here
  LET body == <<0, 0, 0, 10, 0, 0, 0, 2, 1, 1, 9, 0, 0, 0, 3>>
  IN  [octets |-> Frame("AUTHENTICATION", body),
       Standard |-> [tag |-> "AUTHENTICATION", val |-> <<10, Behind(4, body)>>],
       OpenGauss |-> [tag |-> "AUTHENTICATION", val |-> <<10, 2, <<1, 1>>, <<9>>, 3>>]]
Auth13 ==
  LET body == <<0, 0, 0, 13, 0, 0, 0, 2, 1, 1, 9, 0, 0, 0, 3>>
  IN  [octets |-> Frame("AUTHENTICATION", body), Standard |-> Bad,
       OpenGauss |-> [tag |-> "AUTHENTICATION", val |-> <<13, 2, <<1, 1>>, <<9>>, 3>>]]

NoEnd == Broken(Frame("COMMAND_COMPLETE", <<7>>))
TwoEnds == Broken(Frame("COMMAND_COMPLETE", <<7, 0, 0>>))
HalfParameter == Broken(Frame("PARAMETER_STATUS", <<8, 0, 9>>))
ShortLength == Broken(<<MCTag["DATA_ROW"], 0, 0, 0, 3>>)
Unknown == Broken(<<1, 0, 0, 0, 4>>)

Often == {Row1, Ready, Notice, Parameter, Tagged, NoEnd}
Seldom == {Bound, Notify, KeyData, Negotiate, Copying, Cleartext, Md5, Auth10, Auth13, TwoEnds, HalfParameter,
           ShortLength, Unknown}
FrameSeqs ==
  {<<>>} \cup {<<f>> : f \in Often \cup Seldom}
         \cup {<<f, g>> : f, g \in Often} \cup {<<f, g, Row1>> : f, g \in Seldom \cup {Ready}}
         \cup {<<Row1, f, g>> : f, g \in Often}

Octets(fs) == FlattenSeq([i \in DOMAIN fs |-> fs[i].octets])
MCStreams == {Octets(fs) : fs \in FrameSeqs}
MCSent ==
  [k \in {"Standard", "OpenGauss"} \X MCStreams |->
     LET fs == CHOOSE fs \in FrameSeqs : Octets(fs) = k[2] IN [i \in DOMAIN fs |-> fs[i][k[1]]]]

-----------------------------------------------------------------------------
(***************************************************************************)
(* Requests.                                                               *)
(***************************************************************************)
BindOf(values) == [tag |-> "bind", portal |-> <<>>, statement |-> <<115>>, formats |-> <<1>>,
                   values |-> values, result_formats |-> <<1>>]
Sync == [tag |-> "sync"]
Execute == [tag |-> "execute", portal |-> <<>>, max_rows |-> 0]
MCRequests ==
  {<<BindOf(vs), Execute, Sync>> :
     vs \in {<<>>, <<NULL, <<1>>>>, <<<<1>>, Unconvertible>>, <<NULL, NULL, NULL>>}}
  \cup {<<[tag |-> "parse", name |-> n, query |-> <<113>>, param_types |-> ts],
          [tag |-> "describe", variant |-> 83, name |-> <<115>>], Sync>> :
          n \in {<<115>>, <<115, 0>>}, ts \in {<<23>>, <<1, 2, 3>>}}
  \cup {<<[tag |-> "query", query |-> q]>> : q \in {<<113>>, <<0>>, [i \in 1 .. 60 |-> 113]}}
  \cup {<<[tag |-> "copy_data", data |-> d]>> : d \in {<<1>>, [i \in 1 .. 60 |-> 1]}}
  \cup {<<[tag |-> "close", variant |-> 83, name |-> <<115>>], Sync>>,
        <<[tag |-> "copy_done"], Sync>>, <<[tag |-> "copy_fail", message |-> <<>>], Sync>>,
        <<[tag |-> "flush"]>>, <<[tag |-> "terminate"]>>,
        <<[tag |-> "password_message", password |-> <<112>>]>>,
        <<[tag |-> "sasl_initial_response", mechanism |-> <<83>>, data |-> <<1, 2>>]>>,
        <<[tag |-> "sasl_response", data |-> <<0, 1>>]>>,
        <<[tag |-> "ssl_request"]>>, <<[tag |-> "cancel_request", process_id |-> 1, secret_key |-> -2]>>,
        <<[tag |-> "startup_message", parameters |-> <<<<<<117>>, <<118>>>>>>]>>}

-----------------------------------------------------------------------------
(***************************************************************************)
(* Values.                                                                 *)
(***************************************************************************)
Oids == [bool |-> 16, bytea |-> 17, char |-> 18, int8 |-> 20, int2 |-> 21, int4 |-> 23, text |-> 25, oid |-> 26]
Simple(name) == [name |-> name, kind |-> "simple", of |-> <<>>,
                 oid |-> IF name \in DOMAIN Oids THEN Oids[name] ELSE 99]
ArrayOf(ty) == [name |-> "array", kind |-> "array", of |-> ty, oid |-> 100]
Plainest == {-1, 0, 1, 127}
Xs == {<<>>, <<65>>, <<65, 66>>}
Leaf(rt, names, vs) == {<<<<rt>>, Simple(n), v>> : n \in names, v \in vs}

Decimals == {[neg |-> n, mant |-> m, scale |-> s] :
               n \in BOOLEAN, m \in {0, 1, 10, 100, 1200, 1234, 9999}, s \in 0 .. 3}
V4 == <<10, 0, 0, 128>>
V6 == [i \in 1 .. 16 |-> IF i = 16 THEN 1 ELSE 0]
Pixels == {<<0, 0>>, <<-1, 1>>}

LeafCases ==
  Leaf("bool", {"bool", "int4"}, BOOLEAN) \cup Leaf("i8", {"char"}, Plainest)
  \cup Leaf("i16", {"int2", "int4"}, Plainest \cup {-32768, 300}) \cup Leaf("i32", {"int4"}, Plainest \cup {65536})
  \cup Leaf("u32", {"oid", "xid"}, {0, 65536}) \cup Leaf("i64", {"int8"}, Plainest \cup {-65536})
  \cup Leaf("f32", {"float4"}, {0, 5}) \cup Leaf("f64", {"float8"}, {0, 5})
  \cup Leaf("bytes", {"bytea"}, Xs) \cup Leaf("str", {"text", "ltree", "lquery", "ltxtquery", "bytea"}, Xs)
  \cup Leaf("HashMap", {"hstore"}, {{}, {<<<<>>, NULL>>}, {<<<<65>>, NULL>>}, {<<<<>>, <<66>>>>},
                                    {<<<<65>>, <<66>>>>, <<<<>>, <<>>>>}})
  \cup Leaf("SystemTime", {"timestamp", "timestamptz"}, {-15, 0, 7, 25})
  \cup Leaf("NaiveDateTime", {"timestamp", "timestamptz"}, {-15, 0, 25}) \cup Leaf("JiffTimestamp", {"timestamptz"}, {-7, 25})
  \cup Leaf("NaiveDate", {"date"}, {-1, 30}) \cup Leaf("JiffDate", {"date"}, {0})
  \cup Leaf("NaiveTime", {"time"}, {0, 99, 999}) \cup Leaf("JiffTime", {"time"}, {0, 999})
  \cup Leaf("PgLsn", {"pg_lsn"}, {0, 70000}) \cup Leaf("Decimal", {"numeric"}, Decimals)
  \cup Leaf("IpAddr", {"inet", "cidr"}, {V4, V6}) \cup Leaf("IpInet", {"inet"}, {<<V4, 8>>, <<V6, 128>>})
  \cup Leaf("IpCidr", {"cidr"}, {<<V4, 25>>, <<V6, 128>>})
  \cup Leaf("BitVec", {"bit", "varbit"}, {<<>>, <<1>>, <<1, 0, 1, 0, 1, 0, 1, 0>>, <<1, 0, 1, 0, 1, 0, 1, 0, 1>>})
  \cup Leaf("Point", {"point"}, Pixels) \cup Leaf("Rect", {"box"}, {<<<<-1, 0>>, <<2, 1>>>>})
  \cup Leaf("LineString", {"path"}, {<<>>, <<<<0, 1>>>>, <<<<0, 1>>, <<2, 3>>>>})
  \cup Leaf("MacAddress", {"macaddr"}, {<<1, 2, 3, 4, 5, 6>>}) \cup Leaf("Uuid", {"uuid"}, {V6})
  \cup Leaf("Json", {"json", "jsonb"}, {<<123, 125>>})

Text == Simple("text")
IntType == Simple("int4")
Mood == <<"enum", [name |-> "mood", allow_mismatch |-> FALSE,
                   variants |-> <<[name |-> "sad", label |-> <<115>>], [name |-> "ok", label |-> <<111, 107>>]>>]>>
MoodType(labels) == [name |-> "mood", kind |-> "enum", of |-> labels, oid |-> 101]
Item == <<"composite", [name |-> "item", fields |-> <<[name |-> "a", type |-> <<"i32">>],
                                                      [name |-> "b", type |-> <<"Option", <<"str">>>>]>>]>>
FieldA == [name |-> "a", type |-> IntType]
FieldB == [name |-> "b", type |-> Text]
ItemType(fields) == [name |-> "item", kind |-> "composite", of |-> fields, oid |-> 102]
Domain == [name |-> "small", kind |-> "domain", of |-> IntType, oid |-> 103]

NestedCases ==
  {<<<<"Option", <<"i32">>>>, IntType, v>> : v \in {NULL, 7}} \cup {<<<<"Box", <<"str">>>>, Text, <<65>>>>}
  \cup {<<<<"Vec", <<"Option", <<"i32">>>>>>, ArrayOf(IntType), v>> : v \in {<<>>, <<1>>, <<1, NULL, 3>>}}
  \cup {<<<<"Option", <<"HashMap">>>>, Simple("hstore"), v>> : v \in {NULL, {<<<<65>>, <<66>>>>}}}
  \cup {<<<<"Vec", <<"HashMap">>>>, ArrayOf(Simple("hstore")), <<{<<<<65>>, <<66>>>>}, {}>>>>}
  \cup {<<<<"Vec", <<"str">>>>, ArrayOf(ty), <<<<65>>, <<>>>>>> : ty \in {Text, IntType}}
  \cup {<<<<"Array", <<"i16">>, 2>>, ArrayOf(Simple("int2")), <<1, -1>>>>}
  \cup {<<<<"Vec", Item>>, ArrayOf(ItemType(<<FieldB, FieldA>>)), <<<<1, NULL>>>>>>}
  \cup {<<Mood, MoodType(ls), v>> : ls \in {<<"sad", "ok">>, <<"ok", "sad">>, <<"sad">>}, v \in 1 .. 2}
  \cup {<<Item, ItemType(fs), v>> :
          fs \in {<<FieldA, FieldB>>, <<FieldB, FieldA>>, <<FieldA>>, <<FieldA, FieldB, FieldB>>},
          v \in {<<1, NULL>>, <<2, <<65>>>>}}
  \cup {<<<<"domain", [name |-> "small", type |-> <<"i32">>]>>, Domain, 5>>,
        <<<<"transparent", [type |-> <<"i32">>]>>, IntType, 5>>}
  \cup {<<<<"Date", <<"NaiveDate">>>>, Simple("date"), v>> :
          v \in {<<"PosInfinity">>, <<"NegInfinity">>, <<"Value", 3>>}}
  \cup {<<<<"Timestamp", <<"SystemTime">>>>, Simple("timestamp"), v>> :
          v \in {<<"PosInfinity">>, <<"NegInfinity">>, <<"Value", 30>>}}

MCValueCases == LeafCases \cup NestedCases

Bounds == {<<"unbounded", NULL>>} \cup ({"inclusive", "exclusive"} \X {NULL, <<>>, <<7>>, <<0, 0, 0, 9>>})
MCRangeCases == {<<>>} \cup (Bounds \X Bounds)

-----------------------------------------------------------------------------
(***************************************************************************)
(* Rows, and columns to be shown.                                          *)
(***************************************************************************)
Column(name, c) == [name |-> name, type |-> c[2], rust |-> c[1], value |-> c[3]]
Cells == {<<<<"Option", <<"i32">>>>, IntType, v>> : v \in {NULL, 7}} \cup {<<<<"str">>, Text, <<65>>>>}
IntCells == {<<<<"Option", <<"i32">>>>, IntType, v>> : v \in {NULL, 7, 8}}
MCRowCases ==
  {<<>>} \cup {<<Column(<<"x", "x">>, c)>> : c \in Cells}
         \cup {<<Column(<<"x", "x">>, c), Column(<<"y", "Y">>, d)>> : c, d \in Cells}
         \cup {<<Column(<<"x", "X">>, c), Column(<<"x", "x">>, d), Column(<<"x", "x">>, e)>> :
                 c, d, e \in IntCells}

Shown(rt, names, vs) == {[type |-> Simple(n), rust |-> rt, value |-> v] : n \in names, v \in vs}
IntervalOctets == {PutInt(us, 8) \o PutInt(d, 4) \o PutInt(m, 4) :
                     us \in {0, 7, 370010, -5, -10, -15, -370013}, d \in {0, -3}, m \in {0, 13, -13}}
\* Numbers beyond 1200 are doubles in JSON; keys once, twice and out of order.
JsonText(members) == <<123>> \o FlattenSeq([i \in DOMAIN members |-> <<members[i][1]>> \o PutInt(members[i][2], 2)])
                     \o <<125>>
JsonTexts == {JSON_NULL} \cup
  {JsonText(ms) : ms \in {<<>>, <<<<65, 7>>>>} \cup {<<<<65, m>>, <<k, n>>>> : k \in {64, 65, 66}, m, n \in {7, 1200, 1205}}}
NotJson == {<<123, 65, 125>>, <<123>>, <<>>, <<110, 117>>}
MCShowCases ==
  Shown("i32", {"int4"}, {NULL, 0, 7}) \cup Shown("str", {"text"}, {NULL, <<>>, <<65>>})
  \cup Shown("f64", {"float8"}, {NULL, 5, 99}) \cup Shown("Decimal", {"numeric"}, {NULL} \cup Decimals)
  \cup Shown("Json", {"json", "jsonb"}, {NULL} \cup JsonTexts)
  \cup Shown("octets", {"json"}, NotJson) \cup Shown("IpInet", {"inet"}, {NULL, <<V4, 8>>, <<V4, 32>>, <<V6, 64>>})
  \cup Shown("IpCidr", {"cidr"}, {NULL, <<V4, 25>>})
  \cup Shown("NaiveDateTime", {"timestamp"}, {NULL, 20}) \cup Shown("SystemTime", {"timestamptz"}, {NULL, 20})
  \cup Shown("octets", {"interval"}, IntervalOctets \cup {NULL, <<1>>})
  \cup Shown("octets", {"macaddr", "int4", "money", "bool"}, {NULL, <<1, 2, 3, 4, 5, 6>>})

-----------------------------------------------------------------------------
(***************************************************************************)
(* Configuration.                                                          *)
(***************************************************************************)
MCNumber == [x \in {"0", "1", "10", "100", "5433", "99999"} |->
               CASE x = "0" -> 0 [] x = "1" -> 1 [] x = "10" -> 10 [] x = "100" -> 100
                 [] x = "5433" -> 5433 [] x = "99999" -> 99999]
Specials == {"@", ":", "/", "?", "&", "=", "%", " ", "'", ","}
MCEncoded == [c \in Specials |-> "%" \o c]
MCDecoded == [e \in {"%" \o c : c \in Specials} |-> CHOOSE c \in Specials : e = "%" \o c]
MCDecimal10 == [n \in {1, 5433} |-> IF n = 1 THEN "1" ELSE "5433"]
MCLowerCase == [Cancel |-> "cancel", Require |-> "require"]

Awkward == {<<"x">>} \cup {<<"x", c>> : c \in Specials \cup {"\\"}} \cup {<<"/", "x">>, <<"'", "'", " ">>}
Hosts == {<<<<"h">>>>, <<<<"h">>, <<"::1", ":">>>>, <<<<"/", "tmp">>>>}
Ports(hosts) == {[i \in DOMAIN hosts |-> <<w>>] : w \in {"1", "5433", "99999"}}
MCSettingCases ==
  {[user |-> <<"x">>, password |-> p, dbname |-> d] : p \in Awkward, d \in Awkward}
  \cup {[user |-> u, host |-> h] : u \in Awkward, h \in Hosts}
  \cup UNION {{[host |-> h, port |-> p] : p \in Ports(h)} : h \in Hosts}
  \cup {[user |-> <<"x">>, host |-> <<<<"h">>>>, sslmode |-> <<m>>, connect_timeout |-> <<"10">>] :
          m \in {"disable", "require", "never"}}
  \cup {[hostaddr |-> <<<<"::1">>, <<"127.0.0.1">>>>, opengauss_compat |-> <<b>>, keepalives |-> <<"0">>,
         keepalives_retries |-> <<"1">>, channel_binding |-> <<"require">>, sslnegotiation |-> <<"direct">>,
         target_session_attrs |-> <<t>>, load_balance_hosts |-> <<"random">>] :
          b \in {"on", "0"}, t \in {"read-write", "standby"}}

Conn(name, pw, ssl, st, life) ==
  [NoConnection EXCEPT !.name = name, !.host = <<"h">>, !.user = <<"u">>, !.password = pw, !.port = 5433,
                       !.dbname = <<"d">>, !.sslmode = ssl, !.statement_timeout = st,
                       !.connection_max_lifetime = life]
UrlConn == [NoConnection EXCEPT !.name = "b", !.url = <<"host", "=", "h", " ", "sslmode", "=", "require">>,
                                !.password = <<"p">>]
Times == {NULL, <<"10">>, <<"1", "m">>, <<"100", "d">>}
NoFile == [flat |-> NoConnection, connections |-> <<>>, default |-> NULL]
Files ==
  {[NoFile EXCEPT !.connections = <<Conn("a", pw, <<"disable">>, st, life), UrlConn>>] :
     pw \in {NULL, <<"p">>, KEYRING_SENTINEL}, st \in Times, life \in Times}
  \cup {[NoFile EXCEPT !.flat = [Conn(NULL, <<"p">>, ssl, <<"1", "m">>, NULL) EXCEPT !.timeout_action = a]] :
          ssl \in {NULL, <<"Require">>}, a \in {NULL, <<"Cancel">>, <<"never">>}}
  \cup {NoFile}
AwkwardFiles ==
  {[NoFile EXCEPT !.connections = <<[Conn("a", pw, ssl, NULL, NULL) EXCEPT !.user = u, !.dbname = d]>>] :
     u \in {<<"x">>, <<"x", " ">>, <<>>}, pw \in Awkward \cup {<<>>}, d \in Awkward \cup {<<>>},
     ssl \in {NULL, <<"require">>}}
Overrides == {NoConnection, [NoConnection EXCEPT !.statement_timeout = <<"100">>]}
MCFileCases ==
  {[dsn |-> NULL, env |-> NULL, file |-> f, name |-> n, keyring |-> k, over |-> o] :
     f \in Files, n \in {NULL, "b"}, k \in {NULL, <<"k">>}, o \in Overrides}
  \cup {[dsn |-> NULL, env |-> NULL, file |-> f, name |-> NULL, keyring |-> NULL, over |-> NoConnection] :
           f \in AwkwardFiles}
  \cup {[dsn |-> d, env |-> e, file |-> NoFile, name |-> NULL, keyring |-> NULL, over |-> NoConnection] :
          d \in {NULL, UrlConn.url}, e \in {NULL, <<"postgres://", "h", "?", "sslmode", "=", "require">>}}

-----------------------------------------------------------------------------
(***************************************************************************)
(* Text.                                                                   *)
(***************************************************************************)
Marks == {"'", "\\", "\"", "x", ";"}
MCLiterals == UNION {[1 .. n -> Marks] : n \in 0 .. 3}

Pieces ==
  {<<"words", <<"SELECT", " ", "x">>>>, <<"words", <<"$", "9">>>>, <<"literal", <<";", "'">>>>,
   <<"literal", <<"\\", ";">>>>, <<"ident", <<"\"", "-", "-">>>>, <<"dollar", <<>>, <<";", "$", "x">>>>,
   <<"dollar", <<"t", "9">>, <<"$", "$", ";">>>>, <<"nested", <<";", "'">>>>, <<"line", <<";", "'">>>>}
Statements2 == {<<p>> : p \in Pieces} \cup {<<p, q>> : p, q \in Pieces} \cup {<<>>}
MCScripts == {<<s>> : s \in Statements2} \cup {<<<<p>>, s>> : p \in Pieces, s \in {<<q>> : q \in Pieces} \cup {<<>>}}
=============================================================================
