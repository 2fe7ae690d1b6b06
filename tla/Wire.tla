-------------------------------- MODULE Wire --------------------------------
(***************************************************************************)
(* The codec between the socket and the connection, in both directions:    *)
(*  - the server's messages arrive in pieces of any size, decode cuts      *)
(*    whole messages off and hands them on, asynchronous ones alone, the   *)
(*    others in batches that BackendMessages parses lazily;                *)
(*  - a request is put together in the client's one buffer, with_buf, by   *)
(*    writers that may fail half way, and handed over with split().        *)
(***************************************************************************)
EXTENDS Backend, Frontend

CONSTANTS
  Streams,    \* what the server may write: sequences of octets
  Requests,   \* what the client may ask for: sequences of messages
  Modes,      \* AuthModes the codec is made with
  MaxSends    \* bound on the number of requests

VARIABLES
  stream,     \* what the server writes on this connection
  arrived,    \* how many octets of it have arrived
  mode,       \* PostgresCodec.mode
  src,        \* the read buffer of Framed
  items,      \* what decode has returned so far
  rstate,     \* "reading", or why reading ended: "error", "eof"
  buffer,     \* InnerClient.buffer
  written,    \* what the client has written to the server
  asked       \* history: requests and whether they could be encoded

rvars == <<stream, arrived, mode, src, items, rstate>>
wvars == <<buffer, written, asked>>
wireVars == <<rvars, wvars>>

-----------------------------------------------------------------------------
(***************************************************************************)
(* Decoding.                                                               *)
(***************************************************************************)
Async == {"NOTICE_RESPONSE", "NOTIFICATION_RESPONSE", "PARAMETER_STATUS"}
IsAsync(octet) == TagNameOf(octet) \cap Async # {}

\* Mutant: an asynchronous message in the middle of a batch stays in it.
decodeScan_TakesAsync(buf) ==
  LET scan[idx \in 0 .. Len(buf)] ==
        LET header == HeaderParse(Behind(idx, buf))
        IN  IF header.is = "error" THEN [is |-> "error"]
            ELSE IF header.is = "none" \/ Len(buf) - idx < header.len + 1
                 THEN [is |-> "batch", idx |-> idx, complete |-> FALSE]
            ELSE IF IsAsync(header.tag) /\ idx = 0 THEN [is |-> "async"]
            ELSE IF header.tag = Tag["READY_FOR_QUERY"]
                 THEN [is |-> "batch", idx |-> idx + header.len + 1, complete |-> TRUE]
            ELSE scan[idx + header.len + 1]
  IN  scan[0]

\* The loop of decode: how far whole messages go, up to an asynchronous one,
\* up to and including ReadyForQuery.
decodeScan(buf) ==
  LET scan[idx \in 0 .. Len(buf)] ==
        LET header == HeaderParse(Behind(idx, buf))
        IN  IF header.is = "error" THEN [is |-> "error"]
            ELSE IF header.is = "none" \/ Len(buf) - idx < header.len + 1
                 THEN [is |-> "batch", idx |-> idx, complete |-> FALSE]
            ELSE IF IsAsync(header.tag)
                 THEN IF idx = 0 THEN [is |-> "async"]
                      ELSE [is |-> "batch", idx |-> idx, complete |-> FALSE]
            ELSE IF header.tag = Tag["READY_FOR_QUERY"]
                 THEN [is |-> "batch", idx |-> idx + header.len + 1, complete |-> TRUE]
            ELSE scan[idx + header.len + 1]
  IN  scan[0]

\* BackendMessages::next until it returns none, or fails.
NextThen(r, More(_)) ==
  CASE r.is = "none"  -> <<>>
    [] r.is = "error" -> <<[tag |-> "error", val |-> <<>>]>>
    [] OTHER -> <<r.msg>> \o More(Len(r.rest))

MessagesOf(buf, m) ==
  LET f[i \in 0 .. Len(buf)] ==
        NextThen(parse_with_mode(Behind(i, buf), m), LAMBDA left : f[Len(buf) - left])
  IN  f[0]

\* decode has returned None: there is no whole message to hand on.
None == [is |-> "batch", idx |-> 0, complete |-> FALSE]

\* Framed reads once decode has returned None: a piece of the stream has
\* arrived and is appended to the read buffer.
ArriveAfter(scan, n) ==
  /\ rstate = "reading" /\ scan = None /\ arrived + n <= Len(stream)
  /\ arrived' = arrived + n
  /\ src' = src \o SubSeq(stream, arrived + 1, arrived + n)
  /\ UNCHANGED <<stream, mode, items, rstate, wvars>>

Arrive(n) == ArriveAfter(decodeScan(src), n)

\* Framed calls decode until it returns None.
HandAsync(scan, r) ==
  /\ rstate = "reading" /\ scan.is = "async"
  /\ src' = r.rest
  /\ IF r.is = "some"
     THEN items' = Append(items, [is |-> "async", msg |-> r.msg]) /\ UNCHANGED rstate
     ELSE rstate' = "error" /\ UNCHANGED items
  /\ UNCHANGED <<stream, arrived, mode, wvars>>

DecodeAsync == HandAsync(decodeScan(src), parse_with_mode(src, mode))

HandBatch(scan, msgs) ==
  /\ rstate = "reading" /\ scan.is = "batch" /\ scan.idx > 0
  /\ items' = Append(items, [is |-> "normal", complete |-> scan.complete, msgs |-> msgs])
  /\ src' = Behind(scan.idx, src)
  /\ UNCHANGED <<stream, arrived, mode, rstate, wvars>>

DecodeBatch == HandBatch(decodeScan(src), MessagesOf(First(decodeScan(src).idx, src), mode))

DecodeError ==
  /\ rstate = "reading" /\ decodeScan(src).is = "error"
  /\ rstate' = "error"
  /\ UNCHANGED <<stream, arrived, mode, src, items, wvars>>

\* The connection ends, at a message's end or in the middle of one: Framed
\* reports what is left in src as an error.
Eof ==
  /\ rstate = "reading" /\ decodeScan(src) = None
  /\ rstate' = IF src = <<>> THEN "eof" ELSE "error"
  /\ UNCHANGED <<stream, arrived, mode, src, items, wvars>>

-----------------------------------------------------------------------------
(***************************************************************************)
(* Encoding.                                                               *)
(***************************************************************************)
\* Mutant: the buffer is only emptied by split(), not after a failure.
with_buf_KeepsRest(msgs, buf) ==
  LET w == WriteEach(WriteMessage, msgs, buf)
  IN  [ok |-> w.ok, bytes |-> IF w.ok THEN w.buf ELSE <<>>, buf |-> IF w.ok THEN <<>> ELSE w.buf]

\* InnerClient::with_buf around the writers and split().freeze(): nothing of
\* the request stays behind.
with_buf(msgs, buf) ==
  LET w == WriteEach(WriteMessage, msgs, buf)
  IN  [ok |-> w.ok, bytes |-> IF w.ok THEN w.buf ELSE <<>>, buf |-> <<>>]

\* A request is encoded, and if that succeeds written by the codec; copy data
\* does not go through the buffer.
SendEncoded(msgs, w) ==
  /\ Len(asked) < MaxSends
  /\ written' = written \o w.bytes /\ buffer' = w.buf
  /\ asked' = Append(asked, [msgs |-> msgs, ok |-> w.ok])
  /\ UNCHANGED rvars

SendCopyData(msgs, w) ==
  /\ Len(asked) < MaxSends
  /\ written' = w.buf /\ UNCHANGED buffer
  /\ asked' = Append(asked, [msgs |-> msgs, ok |-> w.ok])
  /\ UNCHANGED rvars

IsCopyData(msgs) == Len(msgs) = 1 /\ msgs[1].tag = "copy_data"

Send(msgs) ==
  \/ ~IsCopyData(msgs) /\ SendEncoded(msgs, with_buf(msgs, buffer))
  \/ IsCopyData(msgs) /\ SendCopyData(msgs, CopyData(msgs[1].data, written))

WireInit ==
  /\ stream \in Streams /\ mode \in Modes
  /\ arrived = 0 /\ src = <<>> /\ items = <<>> /\ rstate = "reading"
  /\ buffer = <<>> /\ written = <<>> /\ asked = <<>>

WireRead ==
  \/ \E n \in 1 .. Len(stream) : Arrive(n)
  \/ DecodeAsync \/ DecodeBatch \/ DecodeError \/ Eof

WireWrite == \E r \in Requests : Send(r)
=============================================================================
