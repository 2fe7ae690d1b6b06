------------------------------ MODULE Frontend ------------------------------
(***************************************************************************)
(* message/frontend.rs: the messages of the client.  Each writer appends   *)
(* to the shared buffer and patches the length in afterwards; on an error  *)
(* what it has written so far stays in the buffer.                         *)
(*                                                                         *)
(* A message is a record: tag names it, the other fields are arguments.    *)
(***************************************************************************)
EXTENDS Bytes

CONSTANT FTag     \* FTag[name]: the octet of a message's tag

PROTOCOL == 196659      \* 0x00030033, version 3.51
CANCEL_CODE == 80877102
SSL_CODE == 80877103

\* The messages without a tag, known by where they are sent.
Untagged == {"cancel_request", "ssl_request", "startup_message"}

\* A string is sent with a terminator and may not contain one.
write_cstr(s, buf) ==
  IF \E i \in DOMAIN s : s[i] = 0 THEN Refused(buf) ELSE Written(buf \o s \o <<0>>)

write_counted(W(_, _), items, buf) ==
  LET w == WriteEach(W, items, buf \o PutInt(0, 2))
  IN  IF ~w.ok \/ Len(items) > MaxU16 THEN Refused(w.buf)
      ELSE Written(Patch(w.buf, Len(buf), PutInt(Len(items), 2)))

Put16(v, buf) == Written(buf \o PutInt(v, 2))
Put32(v, buf) == Written(buf \o PutInt(v, 4))
PutRaw(v, buf) == Written(buf \o v)
PutPair(kv, buf) ==
  LET k == write_cstr(kv[1], buf) IN IF k.ok THEN write_cstr(kv[2], k.buf) ELSE k

\* A part of a body and how it is written.
WritePart(p, buf) ==
  CASE p[1] = "cstr"   -> write_cstr(p[2], buf)
    [] p[1] = "octet"  -> Written(Append(buf, p[2]))
    [] p[1] = "i32"    -> Put32(p[2], buf)
    [] p[1] = "raw"    -> PutRaw(p[2], buf)
    [] p[1] = "sized"  -> IF Len(p[2]) > MaxI32 THEN Refused(buf)
                          ELSE Written(buf \o PutInt(Len(p[2]), 4) \o p[2])
    [] p[1] = "i16s"   -> write_counted(Put16, p[2], buf)
    [] p[1] = "oids"   -> write_counted(Put32, p[2], buf)
    [] p[1] = "values" -> write_counted(write_nullable, p[2], buf)
    [] p[1] = "pairs"  -> WriteEach(PutPair, p[2], buf)

(***************************************************************************)
(* The body of each message, part by part, in the order of the code.       *)
(***************************************************************************)
bind(m) == <<<<"cstr", m.portal>>, <<"cstr", m.statement>>, <<"i16s", m.formats>>,
             <<"values", m.values>>, <<"i16s", m.result_formats>>>>
cancel_request(m) == <<<<"i32", CANCEL_CODE>>, <<"i32", m.process_id>>, <<"i32", m.secret_key>>>>
close(m) == <<<<"octet", m.variant>>, <<"cstr", m.name>>>>
copy_fail(m) == <<<<"cstr", m.message>>>>
describe(m) == <<<<"octet", m.variant>>, <<"cstr", m.name>>>>
execute(m) == <<<<"cstr", m.portal>>, <<"i32", m.max_rows>>>>
parse(m) == <<<<"cstr", m.name>>, <<"cstr", m.query>>, <<"oids", m.param_types>>>>
password_message(m) == <<<<"cstr", m.password>>>>
query(m) == <<<<"cstr", m.query>>>>
sasl_initial_response(m) == <<<<"cstr", m.mechanism>>, <<"sized", m.data>>>>
sasl_response(m) == <<<<"raw", m.data>>>>
ssl_request(m) == <<<<"i32", SSL_CODE>>>>
startup_message(m) == <<<<"i32", PROTOCOL>>, <<"pairs", m.parameters>>, <<"octet", 0>>>>

\* copy_done, flush, sync and terminate have no body.
Body(m) ==
  CASE m.tag = "bind" -> bind(m)
    [] m.tag = "cancel_request" -> cancel_request(m)
    [] m.tag = "close" -> close(m)
    [] m.tag = "copy_fail" -> copy_fail(m)
    [] m.tag = "describe" -> describe(m)
    [] m.tag = "execute" -> execute(m)
    [] m.tag = "parse" -> parse(m)
    [] m.tag = "password_message" -> password_message(m)
    [] m.tag = "query" -> query(m)
    [] m.tag = "sasl_initial_response" -> sasl_initial_response(m)
    [] m.tag = "sasl_response" -> sasl_response(m)
    [] m.tag = "ssl_request" -> ssl_request(m)
    [] m.tag = "startup_message" -> startup_message(m)
    [] OTHER -> <<>>

write_body(parts, buf) ==
  LET w    == WriteEach(WritePart, parts, buf \o PutInt(0, 4))
      size == Len(w.buf) - Len(buf)
  IN  IF ~w.ok \/ size > MaxI32 THEN Refused(w.buf)
      ELSE Written(Patch(w.buf, Len(buf), PutInt(size, 4)))

\* CopyData: the length is checked before anything is written.
CopyData(data, buf) ==
  IF Len(data) + 4 > MaxI32 THEN Refused(buf)
  ELSE Written(Append(buf, FTag["copy_data"]) \o PutInt(Len(data) + 4, 4) \o data)

WriteMessage(m, buf) ==
  CASE m.tag = "copy_data" -> CopyData(m.data, buf)
    [] m.tag \in Untagged -> write_body(Body(m), buf)
    [] OTHER -> write_body(Body(m), Append(buf, FTag[m.tag]))
=============================================================================
