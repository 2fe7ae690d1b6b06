------------------------------- MODULE Values -------------------------------
(***************************************************************************)
(* types/mod.rs of the protocol crate: values in the binary format.  Each  *)
(* writer returns octets (or Refused), each reader Got(value, rest) or Err *)
(* (the one of HSTORE may also panic).                                     *)
(* Flags, counts and lengths are computed as in the code; a float is its   *)
(* bit pattern and text is its octets, which are taken to be UTF-8.        *)
(***************************************************************************)
EXTENDS Bytes

RANGE_EMPTY == 1
RANGE_LOWER_INCLUSIVE == 2
RANGE_UPPER_INCLUSIVE == 4
RANGE_LOWER_UNBOUNDED == 8
RANGE_UPPER_UNBOUNDED == 16

HasFlag(tag, flag) == (tag \div flag) % 2 = 1

PGSQL_AF_INET == 2
PGSQL_AF_INET6 == 3

-----------------------------------------------------------------------------
(***************************************************************************)
(* Values of fixed width.                                                  *)
(***************************************************************************)
bool_to_sql(v) == <<IF v THEN 1 ELSE 0>>
bool_from_sql(buf) == IF Len(buf) # 1 THEN Err ELSE Got(buf[1] # 0, <<>>)

char_to_sql(v) == PutInt(v, 1)
char_from_sql(buf) == Drained(Read(I(1), buf))

int2_to_sql(v) == PutInt(v, 2)
int2_from_sql(buf) == Drained(Read(I(2), buf))

int4_to_sql(v) == PutInt(v, 4)
int4_from_sql(buf) == Drained(Read(I(4), buf))

oid_to_sql(v) == PutInt(v, 4)
oid_from_sql(buf) == Drained(Read(U(4), buf))

int8_to_sql(v) == PutInt(v, 8)
int8_from_sql(buf) == Drained(Read(I(8), buf))

lsn_to_sql(v) == PutInt(v, 8)
lsn_from_sql(buf) == Drained(Read(U(8), buf))

float4_to_sql(v) == PutInt(v, 4)
float4_from_sql(buf) == Drained(Read(I(4), buf))

float8_to_sql(v) == PutInt(v, 8)
float8_from_sql(buf) == Drained(Read(I(8), buf))

timestamp_to_sql(v) == PutInt(v, 8)
timestamp_from_sql(buf) == Drained(Read(I(8), buf))

date_to_sql(v) == PutInt(v, 4)
date_from_sql(buf) == Drained(Read(I(4), buf))

time_to_sql(v) == PutInt(v, 8)
time_from_sql(buf) == Drained(Read(I(8), buf))

macaddr_to_sql(v) == v
macaddr_from_sql(buf) == IF Len(buf) # 6 THEN Err ELSE Got(buf, <<>>)

uuid_to_sql(v) == v
uuid_from_sql(buf) == IF Len(buf) # 16 THEN Err ELSE Got(buf, <<>>)

point_to_sql(p) == float8_to_sql(p[1]) \o float8_to_sql(p[2])
point_from_sql(buf) == Drained(ReadFields(<<I(8), I(8)>>, buf))

\* upper_right and lower_left.
box_to_sql(b) == point_to_sql(b[1]) \o point_to_sql(b[2])
box_from_sql(buf) ==
  MapVal(Drained(ReadFields(<<I(8), I(8), I(8), I(8)>>, buf)),
         LAMBDA v : <<<<v[1], v[2]>>, <<v[3], v[4]>>>>)

-----------------------------------------------------------------------------
(***************************************************************************)
(* Octets and text; the text search types have a version in front.         *)
(***************************************************************************)
bytea_to_sql(v) == v
bytea_from_sql(buf) == ReadAll(buf)

text_to_sql(v) == v
text_from_sql(buf) == ReadAll(buf)

ltree_to_sql(v) == <<1>> \o v
ltree_from_sql(buf) == IF buf # <<>> /\ buf[1] = 1 THEN ReadAll(Behind(1, buf)) ELSE Err

lquery_to_sql(v) == <<1>> \o v
lquery_from_sql(buf) == IF buf # <<>> /\ buf[1] = 1 THEN ReadAll(Behind(1, buf)) ELSE Err

ltxtquery_to_sql(v) == <<1>> \o v
ltxtquery_from_sql(buf) == IF buf # <<>> /\ buf[1] = 1 THEN ReadAll(Behind(1, buf)) ELSE Err

-----------------------------------------------------------------------------
(***************************************************************************)
(* HSTORE: a count patched in, then keys and nullable values.              *)
(***************************************************************************)
write_pascal_string(s, buf) ==
  IF Len(s) > MaxI32 THEN Refused(buf) ELSE Written(buf \o PutInt(Len(s), 4) \o s)

HstoreEntry(kv, buf) ==
  LET k == write_pascal_string(kv[1], buf)
  IN  IF ~k.ok THEN k
      ELSE IF kv[2] = NULL THEN Written(k.buf \o PutInt(-1, 4))
      ELSE write_pascal_string(kv[2], k.buf)

hstore_to_sql(entries) ==
  LET w == WriteEach(HstoreEntry, entries, PutInt(0, 4))
  IN  IF ~w.ok \/ Len(entries) > MaxI32 THEN Refused(w.buf)
      ELSE Written(Patch(w.buf, 0, PutInt(Len(entries), 4)))

\* split_at panics where the buffer is short; the other readers use
\* split_at_checked.
SplitAt(n, buf) == IF n > Len(buf) THEN Panic ELSE ReadExact(n, buf)

HstoreText(buf) ==
  ReadThen(Read(I(4), buf), LAMBDA len, rest : IF len < 0 THEN Got(NULL, rest) ELSE SplitAt(len, rest))

\* HstoreEntries::next: a key without a length is an error, a value NULL.
HstoreNext(entries, buf) ==
  ReadThen(HstoreText(buf),
           LAMBDA key, rest : IF key = NULL THEN Err
                              ELSE MapVal(HstoreText(rest), LAMBDA v : Append(entries, <<key, v>>)))

hstore_from_sql(buf) ==
  LET count == Read(I(4), buf)
  IN  IF ~count.ok \/ count.val < 0 THEN Err
      ELSE Drained(FoldLeft(LAMBDA r, k : ReadThen(r, HstoreNext), Got(<<>>, count.rest),
                            [k \in 1 .. count.val |-> k]))

-----------------------------------------------------------------------------
(***************************************************************************)
(* VARBIT: the number of bits, then that many bits in whole octets.        *)
(***************************************************************************)
varbit_to_sql(len, octets) ==
  IF len > MaxI32 THEN Refused(<<>>) ELSE Written(PutInt(len, 4) \o octets)

varbit_from_sql(buf) ==
  LET len == Read(I(4), buf)
  IN  IF ~len.ok \/ len.val < 0 THEN Err
      ELSE IF Len(len.rest) # (len.val + 7) \div 8 THEN Err ELSE Got(<<len.val, len.rest>>, <<>>)

-----------------------------------------------------------------------------
(***************************************************************************)
(* Arrays: number of dimensions, whether there are nulls, element type,    *)
(* length and lower bound of each dimension, then the elements row-major.  *)
(***************************************************************************)
array_to_sql(a) ==
  LET head == PutInt(0, 4) \o PutInt(0, 4) \o oid_to_sql(a.element_type)
              \o FlattenSeq([d \in DOMAIN a.dimensions |->
                   PutInt(a.dimensions[d][1], 4) \o PutInt(a.dimensions[d][2], 4)])
      dims == Patch(head, 0, PutInt(Len(a.dimensions), 4))
      w    == WriteEach(write_nullable, a.elements, dims)
      null == \E i \in DOMAIN a.elements : a.elements[i] = NULL
  IN  IF Len(a.dimensions) > MaxI32 \/ ~w.ok THEN Refused(w.buf)
      ELSE Written(Patch(w.buf, 4, PutInt(IF null THEN 1 ELSE 0, 4)))

\* checked_mul over the dimensions; an array of no dimension is empty.
ArrayElements(dims) ==
  IF dims = <<>> THEN Got(0, <<>>)
  ELSE FoldLeft(LAMBDA r, d : IF ~r.ok \/ d[1] < 0 \/ r.val * d[1] > MaxI32 THEN Err
                              ELSE Got(r.val * d[1], <<>>),
                Got(1, <<>>), dims)

\* array_from_sql, then Array::dimensions and Array::values to their end.
array_from_sql(buf) ==
  LET head  == ReadFields(<<I(4), I(4), U(4)>>, buf)
      dims  == IF head.ok /\ head.val[1] >= 0
               THEN ReadItems(head.val[1], <<I(4), I(4)>>, head.rest) ELSE Err
      count == IF dims.ok THEN ArrayElements(dims.val) ELSE Err
      elems == IF count.ok THEN Drained(ReadItems(count.val, <<Nullable>>, dims.rest)) ELSE Err
  IN  IF ~elems.ok THEN Err
      ELSE Got([dimensions |-> dims.val, element_type |-> head.val[3],
                has_nulls |-> head.val[2] # 0, elements |-> elems.val], <<>>)

-----------------------------------------------------------------------------
(***************************************************************************)
(* Ranges: a tag of flags, then the bounds that exist.  A bound is         *)
(* <<"unbounded", NULL>>, <<"inclusive", v>> or <<"exclusive", v>>.        *)
(***************************************************************************)
empty_range_to_sql == <<RANGE_EMPTY>>

\* The length is written in front and taken back for an unbounded side.
write_bound(b, buf) == IF b[1] = "unbounded" THEN Written(buf) ELSE write_nullable(b[2], buf)

BoundFlag(b, unbounded, inclusive) ==
  CASE b[1] = "inclusive" -> inclusive
    [] b[1] = "exclusive" -> 0
    [] b[1] = "unbounded" -> unbounded

range_to_sql(lower, upper) ==
  LET lo == write_bound(lower, <<0>>)
      hi == IF lo.ok THEN write_bound(upper, lo.buf) ELSE lo
  IN  IF ~hi.ok THEN hi
      ELSE Written(Patch(hi.buf, 0,
             <<BoundFlag(lower, RANGE_LOWER_UNBOUNDED, RANGE_LOWER_INCLUSIVE)
               + BoundFlag(upper, RANGE_UPPER_UNBOUNDED, RANGE_UPPER_INCLUSIVE)>>))

read_bound(buf, tag, unbounded, inclusive) ==
  IF HasFlag(tag, unbounded) THEN Got(<<"unbounded", NULL>>, buf)
  ELSE MapVal(ReadNullable(buf),
              LAMBDA v : <<IF HasFlag(tag, inclusive) THEN "inclusive" ELSE "exclusive", v>>)

range_from_sql(buf) ==
  LET tag == Read(U(1), buf)
      lo  == IF tag.ok
             THEN read_bound(tag.rest, tag.val, RANGE_LOWER_UNBOUNDED, RANGE_LOWER_INCLUSIVE)
             ELSE Err
      hi  == IF lo.ok
             THEN read_bound(lo.rest, tag.val, RANGE_UPPER_UNBOUNDED, RANGE_UPPER_INCLUSIVE)
             ELSE Err
  IN  IF ~tag.ok THEN Err
      ELSE IF tag.val = RANGE_EMPTY THEN MapVal(Drained(tag), LAMBDA v : <<>>)
      ELSE IF ~hi.ok THEN Err
      ELSE MapVal(Drained(hi), LAMBDA v : <<lo.val, v>>)

-----------------------------------------------------------------------------
(***************************************************************************)
(* Paths and network addresses.                                            *)
(***************************************************************************)
path_to_sql(closed, points) ==
  LET out == bool_to_sql(closed) \o PutInt(0, 4)
             \o FlattenSeq([i \in DOMAIN points |-> point_to_sql(points[i])])
  IN  IF Len(points) > MaxI32 THEN Refused(out)
      ELSE Written(Patch(out, 1, PutInt(Len(points), 4)))

\* path_from_sql and PathPoints to their end.
path_from_sql(buf) ==
  LET head == ReadFields(<<U(1), I(4)>>, buf)
      pts  == IF head.ok /\ head.val[2] >= 0     \* a negative count runs into the end
              THEN Drained(ReadItems(head.val[2], <<I(8), I(8)>>, head.rest)) ELSE Err
  IN  IF pts.ok THEN Got(<<head.val[1] # 0, pts.val>>, <<>>) ELSE Err

\* An address is its octets, four or sixteen.
inet_to_sql(addr, netmask) ==
  <<IF Len(addr) = 4 THEN PGSQL_AF_INET ELSE PGSQL_AF_INET6, netmask, 0, Len(addr)>> \o addr

InetFamily(family) ==
  CASE family = PGSQL_AF_INET  -> {[len |-> 4, mask |-> 32]}
    [] family = PGSQL_AF_INET6 -> {[len |-> 16, mask |-> 128]}
    [] OTHER -> {}

inet_from_sql(buf) ==
  LET head == ReadFields(<<U(1), U(1), U(1), U(1)>>, buf)
  IN  IF ~head.ok THEN Err
      ELSE IF \A f \in InetFamily(head.val[1]) : head.val[2] > f.mask \/ head.val[4] # f.len
           THEN Err
      ELSE MapVal(Drained(ReadExact(head.val[4], head.rest)), LAMBDA a : <<a, head.val[2]>>)
=============================================================================
