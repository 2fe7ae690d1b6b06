------------------------------- MODULE Bytes --------------------------------
(***************************************************************************)
(* Buffers of the wire protocol as sequences of octets: the big-endian     *)
(* integers byteorder and BytesMut read and write, and the fields that     *)
(* messages and values are made of.                                        *)
(*                                                                         *)
(* A reader returns Got(value, the buffer behind it) or Err; it never      *)
(* looks behind the end of its buffer.  Integers that TLC can represent    *)
(* (below 2^31) are exact; a float is its bit pattern.                     *)
(***************************************************************************)
EXTENDS Integers, Sequences, SequencesExt

CONSTANTS
  MaxU16,     \* u16::MAX, the largest count; smaller in an instance
  MaxI32,     \* i32::MAX, the largest length; smaller in an instance
  NULL,       \* the SQL null, Option::None
  Unconvertible   \* a value whose conversion to the wire format fails

Err == [ok |-> FALSE]
Panic == [ok |-> FALSE, panic |-> TRUE]    \* the reader does not return
Got(v, rest) == [ok |-> TRUE, val |-> v, rest |-> rest]

\* The buffer behind its first n octets, and these.
Behind(n, buf) == SubSeq(buf, n + 1, Len(buf))
First(n, buf) == SubSeq(buf, 1, n)

-----------------------------------------------------------------------------
(***************************************************************************)
(* Integers.                                                               *)
(***************************************************************************)
Octet(u, k) == IF k >= 4 THEN 0 ELSE (u \div 256 ^ k) % 256

\* put_i16, put_i32, put_i64: v in n octets, two's complement.
PutInt(v, n) ==
  [i \in 1 .. n |-> IF v >= 0 THEN Octet(v, n - i) ELSE 255 - Octet(-(v + 1), n - i)]

Unsigned(b) == FoldLeft(LAMBDA a, x : 256 * a + x, 0, b)

Signed(b) ==
  IF b[1] < 128 THEN Unsigned(b)
                ELSE -(Unsigned([i \in DOMAIN b |-> 255 - b[i]]) + 1)

-----------------------------------------------------------------------------
(***************************************************************************)
(* Reading.  A field is <<kind, width>>.                                   *)
(***************************************************************************)
I(n) == <<"int", n>>
U(n) == <<"uint", n>>
Raw(n) == <<"raw", n>>
CStr == <<"cstr", 0>>
All == <<"all", 0>>
Nullable == <<"nullable", 4>>

ReadExact(n, buf) == IF Len(buf) < n THEN Err ELSE Got(First(n, buf), Behind(n, buf))

\* memchr(0, ..): the position of the terminator, 0 without one.
FindNull(buf) == SelectInSeq(buf, LAMBDA o : o = 0)

ReadCStr(buf) ==
  LET p == FindNull(buf) IN IF p = 0 THEN Err ELSE Got(First(p - 1, buf), Behind(p, buf))

ReadAll(buf) == Got(buf, <<>>)

\* The ? operator: what follows is done with the value and what is behind it.
ReadThen(r, Op(_, _)) == IF r.ok THEN Op(r.val, r.rest) ELSE r
MapVal(r, Op(_)) == IF r.ok THEN Got(Op(r.val), r.rest) ELSE r

\* A length and that many octets; a negative length is NULL and has none.
ReadNullable(buf) ==
  ReadThen(MapVal(ReadExact(4, buf), Signed),
          LAMBDA len, rest : IF len < 0 THEN Got(NULL, rest) ELSE ReadExact(len, rest))

Read(field, buf) ==
  CASE field[1] = "int"      -> MapVal(ReadExact(field[2], buf), Signed)
    [] field[1] = "uint"     -> MapVal(ReadExact(field[2], buf), Unsigned)
    [] field[1] = "raw"      -> ReadExact(field[2], buf)
    [] field[1] = "cstr"     -> ReadCStr(buf)
    [] field[1] = "all"      -> ReadAll(buf)
    [] field[1] = "nullable" -> ReadNullable(buf)

\* One field behind the other; the first that cannot be read ends it.
ReadFields(fields, buf) ==
  FoldLeft(LAMBDA r, f :
             IF ~r.ok THEN r
             ELSE ReadThen(Read(f, r.rest), LAMBDA v, rest : Got(Append(r.val, v), rest)),
           Got(<<>>, buf), fields)

\* n items of the same fields each; one field is read as itself.
ReadItems(n, fields, buf) ==
  FoldLeft(LAMBDA r, k :
             IF ~r.ok THEN r
             ELSE ReadThen(ReadFields(fields, r.rest),
                          LAMBDA v, rest : Got(Append(r.val, IF Len(fields) = 1 THEN v[1] ELSE v), rest)),
           Got(<<>>, buf), [k \in 1 .. n |-> k])

\* Nothing may be left over.
Drained(r) == IF r.ok /\ r.rest # <<>> THEN Err ELSE r

-----------------------------------------------------------------------------
(***************************************************************************)
(* Writing.  A writer returns the buffer behind what it could write and    *)
(* whether it succeeded: an error leaves what came before it.              *)
(***************************************************************************)
Written(buf) == [ok |-> TRUE, buf |-> buf]
Refused(buf) == [ok |-> FALSE, buf |-> buf]

\* BigEndian::write_*(&mut buf[base..], ..).
Patch(buf, base, octets) ==
  [i \in DOMAIN buf |-> IF i - base \in DOMAIN octets THEN octets[i - base] ELSE buf[i]]

\* A sequence of items, each written by W; the first failure ends it.
WriteEach(W(_, _), items, buf) ==
  FoldLeft(LAMBDA w, x : IF w.ok THEN W(x, w.buf) ELSE w, Written(buf), items)

\* The length is patched in once the value is written; NULL is -1.
write_nullable(v, buf) ==
  IF v = NULL THEN Written(buf \o PutInt(-1, 4))
  ELSE IF v = Unconvertible THEN Refused(buf \o PutInt(0, 4))
  ELSE LET out == buf \o PutInt(0, 4) \o v
       IN  IF Len(v) > MaxI32 THEN Refused(out) ELSE Written(Patch(out, Len(buf), PutInt(Len(v), 4)))
=============================================================================
