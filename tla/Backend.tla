------------------------------ MODULE Backend -------------------------------
(***************************************************************************)
(* message/backend.rs: what a message of the server is parsed into, and    *)
(* the iterators over the bodies that are kept as they came.               *)
(*                                                                         *)
(* A message is its tag and the values of its fields; tags are named, not  *)
(* lettered.  The salts and tokens of openGauss are 64 and 8 octets there  *)
(* and SaltLen and TokenLen here.                                          *)
(***************************************************************************)
EXTENDS Bytes

CONSTANTS
  SaltLen,    \* length of random64code and of the salt of MD5_SHA256 (64)
  TokenLen,   \* length of the token (8)
  Tag         \* Tag[name]: the octet of a message's tag

AuthModes == {"Standard", "OpenGauss"}

PLAIN_PASSWORD == 0
MD5_PASSWORD == 1
SHA256_PASSWORD == 2

\* The tags of the backend, as the constants of the code name them.
TagNames == {
  "PARSE_COMPLETE", "BIND_COMPLETE", "CLOSE_COMPLETE", "NOTIFICATION_RESPONSE",
  "COPY_DONE", "COMMAND_COMPLETE", "COPY_DATA", "DATA_ROW", "ERROR_RESPONSE",
  "COPY_IN_RESPONSE", "COPY_OUT_RESPONSE", "EMPTY_QUERY_RESPONSE",
  "BACKEND_KEY_DATA", "NO_DATA", "NOTICE_RESPONSE", "AUTHENTICATION",
  "PORTAL_SUSPENDED", "PARAMETER_STATUS", "PARAMETER_DESCRIPTION",
  "ROW_DESCRIPTION", "READY_FOR_QUERY", "NEGOTIATE_PROTOCOL_VERSION"}

ASSUME TagAssumption ==
  /\ TagNames \subseteq DOMAIN Tag
  /\ \A s, t \in TagNames : Tag[s] = Tag[t] => s = t

TagNameOf(octet) == {t \in TagNames : Tag[t] = octet}

-----------------------------------------------------------------------------
(***************************************************************************)
(* Framing.                                                                *)
(***************************************************************************)
\* Header::parse: nothing yet, an error, or tag and length.
HeaderParse(buf) ==
  IF Len(buf) < 5 THEN [is |-> "none"]
  ELSE LET len == Signed(SubSeq(buf, 2, 5))
       IN  IF len < 4 THEN [is |-> "error"] ELSE [is |-> "some", tag |-> buf[1], len |-> len]

(***************************************************************************)
(* Bodies: the fields parse_with_mode reads for each tag.                  *)
(***************************************************************************)
SimpleBody ==
  [t \in TagNames \ {"AUTHENTICATION", "NEGOTIATE_PROTOCOL_VERSION"} |->
   CASE t = "NOTIFICATION_RESPONSE" -> <<I(4), CStr, CStr>>
     [] t = "COMMAND_COMPLETE" -> <<CStr>>
     [] t \in {"COPY_DATA", "ERROR_RESPONSE", "NOTICE_RESPONSE"} -> <<All>>
     [] t \in {"DATA_ROW", "PARAMETER_DESCRIPTION", "ROW_DESCRIPTION"} -> <<U(2), All>>
     [] t \in {"COPY_IN_RESPONSE", "COPY_OUT_RESPONSE"} -> <<U(1), U(2), All>>
     [] t = "BACKEND_KEY_DATA" -> <<I(4), I(4), All>>
     [] t = "PARAMETER_STATUS" -> <<CStr, CStr>>
     [] t = "READY_FOR_QUERY" -> <<U(1)>>
     [] OTHER -> <<>>]

\* What follows the code of an authentication request, {} for a code the
\* mode does not know; 10, 11 and 13 differ by mode.
SaltAndToken == <<Raw(SaltLen), Raw(TokenLen), I(4)>>

AuthBody(mode, code, method) ==
  CASE code \in {0, 2, 3, 6, 7, 9} -> {<<>>}
    [] code = 5 -> {<<Raw(4)>>}
    [] code \in {8, 12} -> {<<All>>}
    [] code \in {10, 11} /\ mode = "Standard" -> {<<All>>}
    [] code = 10 /\ mode = "OpenGauss" ->
         CASE method \in {SHA256_PASSWORD, PLAIN_PASSWORD} -> {<<I(4)>> \o SaltAndToken}
           [] method = MD5_PASSWORD -> {<<I(4), Raw(4)>>}
           [] OTHER -> {}
    [] code = 11 /\ mode = "OpenGauss" -> {<<Raw(SaltLen), Raw(4)>>}
    [] code = 13 /\ mode = "OpenGauss" -> {<<I(4)>> \o SaltAndToken}
    [] OTHER -> {}

AuthFields(mode, code, method) ==
  IF code.ok THEN AuthBody(mode, code.val, IF method.ok THEN method.val ELSE -1) ELSE {}

ReadAuth(fields, body) ==
  IF fields = {} THEN Err ELSE ReadFields(<<I(4)>> \o (CHOOSE f \in fields : TRUE), body)

ParseAuthentication(mode, body) ==
  ReadAuth(AuthFields(mode, Read(I(4), body), Read(I(4), Behind(4, body))), body)

\* The unrecognized options are read and dropped, like the version.
ParseNegotiate(body) ==
  ReadThen(ReadFields(<<I(4), I(4)>>, body),
          LAMBDA head, rest : MapVal(ReadItems(head[2], <<CStr>>, rest), LAMBDA options : <<>>))

ParseBody(mode, name, body) ==
  CASE name = "AUTHENTICATION" -> ParseAuthentication(mode, body)
    [] name = "NEGOTIATE_PROTOCOL_VERSION" -> ParseNegotiate(body)
    [] name = "BACKEND_KEY_DATA" ->     \* what follows the key is dropped
         MapVal(ReadFields(SimpleBody[name], body), LAMBDA v : <<v[1], v[2]>>)
    [] OTHER -> ReadFields(SimpleBody[name], body)

\* A whole message is split off the buffer, whether its body can be parsed or
\* not; no name is a tag the code does not know.
Message(name, body, rest) ==
  IF body.ok THEN [is |-> "some", msg |-> [tag |-> name, val |-> body.val], rest |-> rest]
             ELSE [is |-> "error", rest |-> rest]

WholeMessage(mode, names, body, rest) ==
  IF names = {} THEN Message("", Err, rest)
  ELSE Message(CHOOSE t \in names : TRUE,
               Drained(ParseBody(mode, CHOOSE t \in names : TRUE, body)), rest)

\* As u32 a negative length is larger than any buffer.
ParseFrame(buf, mode, len) ==
  CASE len \in 0 .. 3 -> [is |-> "error", rest |-> buf]
    [] len < 0 \/ Len(buf) < len + 1 -> [is |-> "none", rest |-> buf]
    [] OTHER -> WholeMessage(mode, TagNameOf(buf[1]), SubSeq(buf, 6, len + 1), Behind(len + 1, buf))

\* parse_with_mode: [is |-> "none"] while the message is not whole.
parse_with_mode(buf, mode) ==
  IF Len(buf) < 5 THEN [is |-> "none", rest |-> buf]
  ELSE ParseFrame(buf, mode, Signed(SubSeq(buf, 2, 5)))

-----------------------------------------------------------------------------
(***************************************************************************)
(* The iterators, run to their end: the items, or Err where next() fails.  *)
(***************************************************************************)
ColumnFormats(len, storage) == Drained(ReadItems(len, <<U(2)>>, storage))

Parameters(len, storage) == Drained(ReadItems(len, <<U(4)>>, storage))

Fields(len, storage) ==
  Drained(ReadItems(len, <<CStr, U(4), I(2), U(4), I(2), I(4), I(2)>>, storage))

\* A value is the range of its octets in storage, NULL has none.
DataRowRanges(len, storage) ==
  LET Step(r, k) ==
        IF ~r.ok THEN r
        ELSE LET v    == ReadNullable(r.rest)
                 base == Len(storage) - Len(r.rest) + 4
             IN  IF ~v.ok THEN Err
                 ELSE Got(Append(r.val, IF v.val = NULL THEN NULL
                                        ELSE <<base, base + Len(v.val)>>), v.rest)
  IN  Drained(FoldLeft(Step, Got(<<>>, storage), [k \in 1 .. len |-> k]))

\* DataRowBody::buffer indexed by a range, as Row and SimpleQueryRow do.
Slice(storage, range) ==
  IF range = NULL THEN NULL ELSE SubSeq(storage, range[1] + 1, range[2])

\* Type and value pairs up to a zero, which must be the last octet.
ErrorFields(storage) ==
  LET f[i \in 1 .. Len(storage) + 1] ==
        LET value == ReadCStr(Behind(i, storage))
        IN  IF i > Len(storage) THEN Err
            ELSE IF storage[i] = 0
                 THEN IF i = Len(storage) THEN Got(<<>>, <<>>) ELSE Err
            ELSE IF ~value.ok THEN Err
            ELSE MapVal(f[i + 2 + Len(value.val)],
                        LAMBDA more : <<<<storage[i], value.val>>>> \o more)
  IN  f[1]

\* Names up to an empty one, which must end the body.
SaslMechanisms(storage) ==
  LET f[i \in 1 .. Len(storage) + 1] ==
        LET name == ReadCStr(Behind(i - 1, storage))
        IN  IF ~name.ok THEN Err
            ELSE IF name.val = <<>>
                 THEN IF i = Len(storage) THEN Got(<<>>, <<>>) ELSE Err
            ELSE MapVal(f[i + 1 + Len(name.val)], LAMBDA more : <<name.val>> \o more)
  IN  f[1]
=============================================================================
