------------------------------- MODULE Types --------------------------------
(***************************************************************************)
(* The types crate and the derive macros: which Rust type converts to and  *)
(* from which Postgres type, and how.                                      *)
(*                                                                         *)
(* A Rust type is <<constructor, arguments>>: <<"i32">>, <<"Option", T>>,  *)
(* <<"Vec", T>>, ...  A Postgres type is a record with its name, oid, kind *)
(* and what the kind is about (member type, labels, fields).  Times are    *)
(* counted from 2000-01-01 in nanoseconds, dates in days; what a date or   *)
(* time library can represent are the constants below.                     *)
(***************************************************************************)
EXTENDS Values, FiniteSetsExt

CONSTANTS
  MaxMicros,      \* a time library represents -MaxMicros .. MaxMicros
  MaxDays,        \* and the days -MaxDays .. MaxDays
  DayMicros,      \* microseconds of a day
  NsecPerUsec,    \* 1000 there; smaller in an instance
  I32Max, I64Max, \* octets of i32::MAX and i64::MAX
  DecDigits,      \* decimal digits of a group of NUMERIC (4)
  MaxMantissa,    \* what the mantissa of a Decimal holds (2^96 - 1)
  MaxScale,       \* and its scale (28)
  WideSpan        \* 2^128: where the sum of the groups wraps around

\* Octets of i32::MIN and i64::MIN.
MinOf(max) == [i \in DOMAIN max |-> 255 - max[i]]

Ok(v) == Got(v, <<>>)
AndThen(r, Op(_)) == IF r.ok THEN Op(r.val) ELSE r

-----------------------------------------------------------------------------
(***************************************************************************)
(* accepts.                                                                *)
(***************************************************************************)
StrNames == {"varchar", "text", "bpchar", "name", "unknown",
             "citext", "ltree", "lquery", "ltxtquery"}

\* accepts!(..) of the conversions to the wire.
ToNames ==
  [bool |-> {"bool"}, i8 |-> {"char"}, i16 |-> {"int2"}, i32 |-> {"int4"}, u32 |-> {"oid"},
   i64 |-> {"int8"}, f32 |-> {"float4"}, f64 |-> {"float8"}, bytes |-> {"bytea"},
   str |-> StrNames, HashMap |-> {"hstore"}, SystemTime |-> {"timestamp", "timestamptz"},
   IpAddr |-> {"inet"}, PgLsn |-> {"pg_lsn"}, Decimal |-> {"numeric"},
   NaiveDateTime |-> {"timestamp"}, DateTimeUtc |-> {"timestamptz"},
   NaiveDate |-> {"date"}, NaiveTime |-> {"time"},
   JiffDateTime |-> {"timestamp"}, JiffTimestamp |-> {"timestamptz"},
   JiffDate |-> {"date"}, JiffTime |-> {"time"},
   BitVec |-> {"bit", "varbit"}, Point |-> {"point"}, Rect |-> {"box"},
   LineString |-> {"path"}, IpCidr |-> {"cidr"}, IpInet |-> {"inet"},
   MacAddress |-> {"macaddr"}, Uuid |-> {"uuid"}, Json |-> {"json", "jsonb"}]

\* u32 is read from more types than it is written to.
FromNames ==
  [ToNames EXCEPT !.u32 = @ \cup {"regproc", "regprocedure", "regoper", "regoperator", "regclass",
                                  "regtype", "regnamespace", "regcollation", "xid", "cid"}]

NamesAt(fields, name) == {i \in DOMAIN fields : fields[i].name = name}

RECURSIVE accepts(_, _, _)

\* Every label must be a variant's and every variant must be there.
enum_accepts(rt, ty) ==
  /\ ty.name = rt[2].name
  /\ rt[2].allow_mismatch
     \/ /\ ty.kind = "enum"
        /\ Len(ty.of) = Len(rt[2].variants)
        /\ \A i \in DOMAIN ty.of : NamesAt(rt[2].variants, ty.of[i]) # {}

\* Mutant: the number of the fields is not compared.
composite_accepts_Subset(dir, rt, ty) ==
  /\ ty.name = rt[2].name /\ ty.kind = "composite"
  /\ \A i \in DOMAIN ty.of :
       \E j \in NamesAt(rt[2].fields, ty.of[i].name) :
         accepts(dir, rt[2].fields[j].type, ty.of[i].type)

\* Fields are matched by name, in whatever order the server has them.
composite_accepts(dir, rt, ty) ==
  /\ ty.name = rt[2].name /\ ty.kind = "composite"
  /\ Len(ty.of) = Len(rt[2].fields)
  /\ \A i \in DOMAIN ty.of :
       \E j \in NamesAt(rt[2].fields, ty.of[i].name) :
         accepts(dir, rt[2].fields[j].type, ty.of[i].type)

\* A domain may be reported as its base type when it is read.
domain_accepts(dir, rt, ty) ==
  \/ dir = "from" /\ accepts(dir, rt[2].type, ty)
  \/ ty.name = rt[2].name /\ ty.kind = "domain" /\ accepts("to", rt[2].type, ty.of)

\* dir is "to" or "from"; transparent types ask ToSql in both directions.
accepts(dir, rt, ty) ==
  CASE rt[1] \in {"Option", "Box"} -> accepts(dir, rt[2], ty)
    [] rt[1] \in {"Vec", "Array"} -> ty.kind = "array" /\ accepts(dir, rt[2], ty.of)
    [] rt[1] = "Date" -> ty.name = "date" /\ accepts(dir, rt[2], ty)
    [] rt[1] = "Timestamp" -> ty.name \in {"timestamp", "timestamptz"} /\ accepts(dir, rt[2], ty)
    [] rt[1] = "enum" -> enum_accepts(rt, ty)
    [] rt[1] = "composite" -> composite_accepts(dir, rt, ty)
    [] rt[1] = "domain" -> domain_accepts(dir, rt, ty)
    [] rt[1] = "transparent" -> accepts("to", rt[2].type, ty)
    [] dir = "to" -> ty.name \in ToNames[rt[1]]
    [] OTHER -> ty.name \in FromNames[rt[1]]

-----------------------------------------------------------------------------
(***************************************************************************)
(* Times.                                                                  *)
(***************************************************************************)
\* Integer division that truncates, as Rust's does.
Trunc(a, b) == IF a >= 0 THEN a \div b ELSE -((-a) \div b)

\* SystemTime: the distance from 2000 in whole microseconds, and its sign.
systime_to_sql(ns) == timestamp_to_sql(Trunc(ns, NsecPerUsec))
systime_from_sql(raw) == MapVal(timestamp_from_sql(raw), LAMBDA t : t * NsecPerUsec)

\* NaiveDateTime, DateTime<_>, PrimitiveDateTime, OffsetDateTime and the two
\* of jiff: num_microseconds truncates, checked_add refuses.
datetime_to_sql(ns) == timestamp_to_sql(Trunc(ns, NsecPerUsec))
datetime_from_sql(raw) ==
  AndThen(timestamp_from_sql(raw),
          LAMBDA t : IF t \in -MaxMicros .. MaxMicros THEN Ok(t * NsecPerUsec) ELSE Err)

civil_date_from_sql(raw) ==
  AndThen(date_from_sql(raw), LAMBDA d : IF d \in -MaxDays .. MaxDays THEN Ok(d) ELSE Err)

\* Time of day: chrono and time wrap around midnight, jiff refuses.
naive_time_to_sql(ns) == time_to_sql(Trunc(ns, NsecPerUsec))
naive_time_from_sql(raw) ==
  MapVal(time_from_sql(raw), LAMBDA t : (t % DayMicros) * NsecPerUsec)
jiff_time_from_sql(raw) ==
  AndThen(time_from_sql(raw),
          LAMBDA t : IF t \in 0 .. DayMicros - 1 THEN Ok(t * NsecPerUsec) ELSE Err)

-----------------------------------------------------------------------------
(***************************************************************************)
(* The other leaves.                                                       *)
(***************************************************************************)
\* SetToSeq stands for the iteration order of the map.
hashmap_to_sql(m) == hstore_to_sql(SetToSeq(m))

\* collect(): the last value of a key stays.
hashmap_from_sql(raw) ==
  MapVal(hstore_from_sql(raw),
         LAMBDA es : {es[i] : i \in {i \in DOMAIN es : \A j \in DOMAIN es :
                                                         es[j][1] = es[i][1] => j <= i}})

str_to_sql(ty, s) ==
  CASE ty.name = "ltree" -> ltree_to_sql(s)
    [] ty.name = "lquery" -> lquery_to_sql(s)
    [] ty.name = "ltxtquery" -> ltxtquery_to_sql(s)
    [] OTHER -> text_to_sql(s)

str_from_sql(ty, raw) ==
  CASE ty.name = "ltree" -> ltree_from_sql(raw)
    [] ty.name = "lquery" -> lquery_from_sql(raw)
    [] ty.name = "ltxtquery" -> ltxtquery_from_sql(raw)
    [] OTHER -> text_from_sql(raw)

\* The text itself is serde's; JSONB has a version in front.
json_to_sql(ty, text) == (IF ty.name = "jsonb" THEN <<1>> ELSE <<>>) \o text
json_from_sql(ty, raw) ==
  IF ty.name # "jsonb" THEN ReadAll(raw)
  ELSE IF raw # <<>> /\ raw[1] = 1 THEN ReadAll(Behind(1, raw)) ELSE Err

\* A bit vector is a sequence of bits; to_bytes pads the last octet.
BitAt(bits, i) == IF i \in DOMAIN bits THEN bits[i] ELSE 0
ToBytes(bits) ==
  [o \in 1 .. (Len(bits) + 7) \div 8 |->
     FoldLeft(LAMBDA a, k : 2 * a + BitAt(bits, 8 * (o - 1) + k), 0, <<1, 2, 3, 4, 5, 6, 7, 8>>)]
FromBytes(octets) ==
  [i \in 1 .. 8 * Len(octets) |->
     (octets[(i - 1) \div 8 + 1] \div 2 ^ (7 - ((i - 1) % 8))) % 2]
bitvec_to_sql(bits) == varbit_to_sql(Len(bits), ToBytes(bits))
bitvec_from_sql(raw) == MapVal(varbit_from_sql(raw), LAMBDA v : First(v[1], FromBytes(v[2])))

\* Rect: <<min, max>>.  The first point on the wire is the upper right one of
\* the server; the Rust side writes its minimum there, and Rect::new orders.
Lower(a, b) == IF a < b THEN a ELSE b
Upper(a, b) == IF a < b THEN b ELSE a
RectNew(p, q) == <<<<Lower(p[1], q[1]), Lower(p[2], q[2])>>, <<Upper(p[1], q[1]), Upper(p[2], q[2])>>>>
rect_to_sql(r) == box_to_sql(<<r[1], r[2]>>)
rect_from_sql(raw) == MapVal(box_from_sql(raw), LAMBDA b : RectNew(b[2], b[1]))

linestring_to_sql(points) == path_to_sql(FALSE, points)
linestring_from_sql(raw) == MapVal(path_from_sql(raw), LAMBDA p : p[2])

\* An address alone has the netmask of its family, and loses one it is read with.
ipaddr_to_sql(a) == inet_to_sql(a, IF Len(a) = 4 THEN 32 ELSE 128)
ipaddr_from_sql(raw) == MapVal(inet_from_sql(raw), LAMBDA v : v[1])

\* IpCidr::new refuses an address with bits behind the network's.
HostBits(a, mask) == \E i \in mask + 1 .. 8 * Len(a) : FromBytes(a)[i] = 1
cidr_from_sql(raw) ==
  AndThen(inet_from_sql(raw), LAMBDA v : IF HostBits(v[1], v[2]) THEN Err ELSE Ok(v))

-----------------------------------------------------------------------------
(***************************************************************************)
(* NUMERIC: groups of DecDigits decimal digits, the weight of the first    *)
(* group, a sign and the number of digits to show.  A Decimal is its sign, *)
(* mantissa and scale; zero keeps neither scale nor sign on the wire.      *)
(***************************************************************************)
NUMERIC_NEG == 16384
NUMERIC_SPECIAL == 49152
NBASE == 10 ^ DecDigits

CeilDiv(a, b) == (a + b - 1) \div b

\* The groups of m, most significant first.
Groups(m) ==
  LET f[k \in 0 .. m] == IF k = 0 THEN <<>> ELSE Append(f[k \div NBASE], k % NBASE) IN f[m]

\* Trailing zero groups behind the decimal point are not sent.
TrimZeros(digits, integer_groups) ==
  LET keep == {n \in 0 .. Len(digits) :
                 /\ n >= integer_groups
                 /\ \A i \in n + 1 .. Len(digits) : digits[i] = 0}
  IN  First(Min(keep \cup {Len(digits)}), digits)

decimal_to_sql(d) ==
  LET aligned == d.mant * 10 ^ (CeilDiv(d.scale, DecDigits) * DecDigits - d.scale)
      groups  == Groups(aligned)
      weight  == Len(groups) - CeilDiv(d.scale, DecDigits) - 1
      digits  == TrimZeros(groups, IF weight >= -1 THEN weight + 1 ELSE 0)
  IN  IF d.mant = 0 THEN <<0, 0, 0, 0, 0, 0, 0, 0>>
      ELSE PutInt(Len(digits), 2) \o PutInt(weight, 2)
           \o PutInt(IF d.neg THEN NUMERIC_NEG ELSE 0, 2) \o PutInt(d.scale, 2)
           \o FlattenSeq([i \in DOMAIN digits |-> PutInt(digits[i], 2)])

\* Decimal::rescale (rust_decimal): digits are added while they fit, or
\* rounded away.
Rescale(d, scale) ==
  IF scale >= d.scale
  THEN LET fits == {s \in d.scale .. scale : d.mant * 10 ^ (s - d.scale) <= MaxMantissa}
       IN  [d EXCEPT !.mant = d.mant * 10 ^ (Max(fits) - d.scale), !.scale = Max(fits)]
  ELSE LET cut == 10 ^ (d.scale - scale)
       IN  [d EXCEPT !.mant = (d.mant + cut \div 2) \div cut, !.scale = scale]

\* The 16-bit sign is special when both its upper bits are set.  Octets
\* behind the groups are ignored.
decimal_from_sql(raw) ==
  LET head  == ReadFields(<<U(2), I(2), U(2), U(2)>>, raw)
      read  == IF head.ok THEN ReadItems(head.val[1], <<U(2)>>, head.rest) ELSE Err
      whole == FoldLeft(LAMBDA a, g : (a * NBASE + g) % WideSpan, 0, read.val)
      adj   == head.val[2] - head.val[1] + 1
      mant  == IF adj > 0 THEN whole * 10 ^ (DecDigits * adj) ELSE whole
      scale == IF adj < 0 THEN DecDigits * (-adj) ELSE 0
      neg   == head.val[3] = NUMERIC_NEG
  IN  IF ~head.ok THEN Err
      ELSE IF head.val[3] >= NUMERIC_SPECIAL THEN Err
      ELSE IF ~read.ok THEN Err
      ELSE IF whole = 0 THEN Ok(Rescale([neg |-> neg, mant |-> 0, scale |-> 0], head.val[4]))
      ELSE IF mant > MaxMantissa \/ scale > MaxScale THEN Err
      ELSE Ok(Rescale([neg |-> neg, mant |-> mant, scale |-> scale], head.val[4]))

-----------------------------------------------------------------------------
(***************************************************************************)
(* ToSql and FromSql.  Writing gives octets, NULL or Unconvertible.        *)
(***************************************************************************)
OrFail(w) == IF w.ok THEN w.buf ELSE Unconvertible

leaf_to_sql(rt, ty, v) ==
  CASE rt = "bool" -> bool_to_sql(v)
    [] rt = "i8" -> char_to_sql(v)
    [] rt = "i16" -> int2_to_sql(v)
    [] rt = "i32" -> int4_to_sql(v)
    [] rt = "u32" -> oid_to_sql(v)
    [] rt = "i64" -> int8_to_sql(v)
    [] rt = "f32" -> float4_to_sql(v)
    [] rt = "f64" -> float8_to_sql(v)
    [] rt = "bytes" -> bytea_to_sql(v)
    [] rt = "str" -> str_to_sql(ty, v)
    [] rt = "HashMap" -> OrFail(hashmap_to_sql(v))
    [] rt = "SystemTime" -> systime_to_sql(v)
    [] rt = "IpAddr" -> ipaddr_to_sql(v)
    [] rt = "PgLsn" -> lsn_to_sql(v)
    [] rt = "Decimal" -> decimal_to_sql(v)
    [] rt \in {"NaiveDateTime", "DateTimeUtc", "JiffDateTime", "JiffTimestamp"} -> datetime_to_sql(v)
    [] rt \in {"NaiveDate", "JiffDate"} -> date_to_sql(v)
    [] rt \in {"NaiveTime", "JiffTime"} -> naive_time_to_sql(v)
    [] rt = "BitVec" -> OrFail(bitvec_to_sql(v))
    [] rt = "Point" -> point_to_sql(v)
    [] rt = "Rect" -> rect_to_sql(v)
    [] rt = "LineString" -> OrFail(linestring_to_sql(v))
    [] rt \in {"IpCidr", "IpInet"} -> inet_to_sql(v[1], v[2])
    [] rt = "MacAddress" -> macaddr_to_sql(v)
    [] rt = "Uuid" -> uuid_to_sql(v)
    [] rt = "Json" -> json_to_sql(ty, v)

leaf_from_sql(rt, ty, raw) ==
  CASE rt = "bool" -> bool_from_sql(raw)
    [] rt = "i8" -> char_from_sql(raw)
    [] rt = "i16" -> int2_from_sql(raw)
    [] rt = "i32" -> int4_from_sql(raw)
    [] rt = "u32" -> oid_from_sql(raw)
    [] rt = "i64" -> int8_from_sql(raw)
    [] rt = "f32" -> float4_from_sql(raw)
    [] rt = "f64" -> float8_from_sql(raw)
    [] rt = "bytes" -> bytea_from_sql(raw)
    [] rt = "str" -> str_from_sql(ty, raw)
    [] rt = "HashMap" -> hashmap_from_sql(raw)
    [] rt = "SystemTime" -> systime_from_sql(raw)
    [] rt = "IpAddr" -> ipaddr_from_sql(raw)
    [] rt = "PgLsn" -> lsn_from_sql(raw)
    [] rt = "Decimal" -> decimal_from_sql(raw)
    [] rt \in {"NaiveDateTime", "DateTimeUtc", "JiffDateTime", "JiffTimestamp"} -> datetime_from_sql(raw)
    [] rt \in {"NaiveDate", "JiffDate"} -> civil_date_from_sql(raw)
    [] rt = "NaiveTime" -> naive_time_from_sql(raw)
    [] rt = "JiffTime" -> jiff_time_from_sql(raw)
    [] rt = "BitVec" -> bitvec_from_sql(raw)
    [] rt = "Point" -> point_from_sql(raw)
    [] rt = "Rect" -> rect_from_sql(raw)
    [] rt = "LineString" -> linestring_from_sql(raw)
    [] rt = "IpCidr" -> cidr_from_sql(raw)
    [] rt = "IpInet" -> inet_from_sql(raw)
    [] rt = "MacAddress" -> macaddr_from_sql(raw)
    [] rt = "Uuid" -> uuid_from_sql(raw)
    [] rt = "Json" -> json_from_sql(ty, raw)

RECURSIVE to_sql(_, _, _), from_sql(_, _, _)

\* Option reads a NULL, every other type refuses it.
from_sql_null(rt) == IF rt[1] = "Option" THEN Ok(NULL) ELSE Err
from_sql_nullable(rt, ty, raw) == IF raw = NULL THEN from_sql_null(rt) ELSE from_sql(rt, ty, raw)

\* One dimension, from 1 on; from 0 on for the vectors that require it.
slice_to_sql(rt, ty, v) ==
  OrFail(array_to_sql(
    [dimensions |-> <<<<Len(v), IF ty.name \in {"oidvector", "int2vector"} THEN 0 ELSE 1>>>>,
     element_type |-> ty.of.oid,
     elements |-> [i \in DOMAIN v |-> to_sql(rt[2], ty.of, v[i])]]))

\* The first element that fails ends it; [T; N] wants N of them.
slice_from_sql(rt, ty, raw) ==
  AndThen(array_from_sql(raw),
          LAMBDA a :
            LET vs == [i \in DOMAIN a.elements |-> from_sql_nullable(rt[2], ty.of, a.elements[i])]
            IN  IF Len(a.dimensions) > 1 THEN Err
                ELSE IF \E i \in DOMAIN vs : ~vs[i].ok THEN vs[SelectInSeq(vs, LAMBDA r : ~r.ok)]
                ELSE IF rt[1] = "Array" /\ Len(vs) # rt[3] THEN Err
                ELSE Ok([i \in DOMAIN vs |-> vs[i].val]))

\* Date<T> and Timestamp<T>: the extreme integers are the infinities.
special_to_sql(rt, ty, v) ==
  LET max == IF rt[1] = "Date" THEN I32Max ELSE I64Max
  IN  CASE v[1] = "PosInfinity" -> max
        [] v[1] = "NegInfinity" -> MinOf(max)
        [] OTHER -> to_sql(rt[2], ty, v[2])

special_from_sql(rt, ty, raw) ==
  LET max == IF rt[1] = "Date" THEN I32Max ELSE I64Max
  IN  CASE Len(raw) # Len(max) -> Err
        [] raw = max -> Ok(<<"PosInfinity">>)
        [] raw = MinOf(max) -> Ok(<<"NegInfinity">>)
        [] OTHER -> MapVal(from_sql(rt[2], ty, raw), LAMBDA v : <<"Value", v>>)

\* A variant is its position; its label is sent as text.
enum_to_sql(rt, v) == rt[2].variants[v].label
enum_from_sql(rt, raw) ==
  LET vs == {i \in DOMAIN rt[2].variants : rt[2].variants[i].label = raw}
  IN  IF vs = {} THEN Err ELSE Ok(CHOOSE i \in vs : TRUE)

\* The server's fields in the server's order, each with its type's oid.
composite_to_sql(rt, ty, v) ==
  LET At(i) == CHOOSE j \in NamesAt(rt[2].fields, ty.of[i].name) : TRUE
      Put(i, buf) == write_nullable(to_sql(rt[2].fields[At(i)].type, ty.of[i].type, v[At(i)]),
                                    buf \o oid_to_sql(ty.of[i].type.oid))
  IN  OrFail(WriteEach(Put, [i \in DOMAIN ty.of |-> i], PutInt(Len(ty.of), 4)))

\* Octets behind the last field are ignored.
composite_from_sql(rt, ty, raw) ==
  LET count == Read(I(4), raw)
      At(i) == CHOOSE j \in NamesAt(rt[2].fields, ty.of[i].name) : TRUE
      Field(r, i) ==
        LET x == IF r.ok THEN ReadFields(<<U(4), Nullable>>, r.rest) ELSE r
            v == IF ~x.ok THEN x
                 ELSE IF x.val[1] # ty.of[i].type.oid THEN Err
                 ELSE from_sql_nullable(rt[2].fields[At(i)].type, ty.of[i].type, x.val[2])
        IN  IF v.ok THEN Got([r.val EXCEPT ![At(i)] = v.val], x.rest) ELSE v
  IN  IF ~count.ok \/ count.val # Len(ty.of) THEN Err
      ELSE FoldLeft(Field, Got([j \in DOMAIN rt[2].fields |-> NULL], count.rest),
                    [i \in DOMAIN ty.of |-> i])

\* The base type of a domain, of any other type the type itself.
Base(ty) == IF ty.kind = "domain" THEN ty.of ELSE ty

to_sql(rt, ty, v) ==
  CASE rt[1] = "Option" -> IF v = NULL THEN NULL ELSE to_sql(rt[2], ty, v)
    [] rt[1] = "Box" -> to_sql(rt[2], ty, v)
    [] rt[1] \in {"Vec", "Array"} -> slice_to_sql(rt, ty, v)
    [] rt[1] \in {"Date", "Timestamp"} -> special_to_sql(rt, ty, v)
    [] rt[1] = "enum" -> enum_to_sql(rt, v)
    [] rt[1] = "composite" -> composite_to_sql(rt, ty, v)
    [] rt[1] = "domain" -> to_sql(rt[2].type, ty.of, v)
    [] rt[1] = "transparent" -> to_sql(rt[2].type, ty, v)
    [] OTHER -> leaf_to_sql(rt[1], ty, v)

from_sql(rt, ty, raw) ==
  CASE rt[1] \in {"Option", "Box"} -> from_sql(rt[2], ty, raw)
    [] rt[1] \in {"Vec", "Array"} -> slice_from_sql(rt, ty, raw)
    [] rt[1] \in {"Date", "Timestamp"} -> special_from_sql(rt, ty, raw)
    [] rt[1] = "enum" -> enum_from_sql(rt, raw)
    [] rt[1] = "composite" -> composite_from_sql(rt, ty, raw)
    [] rt[1] = "domain" -> from_sql(rt[2].type, Base(ty), raw)
    [] rt[1] = "transparent" -> from_sql(rt[2].type, ty, raw)
    [] OTHER -> leaf_from_sql(rt[1], ty, raw)

\* A value of the wrong type is refused before anything is written.
to_sql_checked(rt, ty, v) == IF accepts("to", rt, ty) THEN to_sql(rt, ty, v) ELSE Unconvertible
=============================================================================
