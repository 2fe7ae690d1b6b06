------------------------------- MODULE Output -------------------------------
(***************************************************************************)
(* output.rs of the tools: what is shown of a value, as JSON for the tools *)
(* and tables and as text for the vertical format.                         *)
(*                                                                         *)
(* What is shown is Null, or [as |-> how, val |-> what]: the wording is    *)
(* left out, but not which value it is the wording of.                     *)
(***************************************************************************)
EXTENDS Rows

CONSTANTS
  NotFinite,     \* bit patterns of the floats JSON has no number for
  MaxJsonInt,    \* u64::MAX; an i64 holds half of it and one more below 0
  DoubleStep,    \* how far apart doubles are beyond it
  JsonDigits,    \* decimal digits a double is trusted with (15)
  UsecPerSec     \* 1000000; smaller in an instance

Null == [as |-> "null"]
Show(how, v) == [as |-> how, val |-> v]

OidTypes == {"oid", "regproc", "regprocedure", "regoper", "regoperator", "regclass", "regtype",
             "regnamespace", "regcollation", "xid", "cid"}

\* The Rust type a column is read as, and the types that have an arm.
DisplayType(name) ==
  CASE name \in {"varchar", "text", "bpchar", "name", "unknown"} -> {"str"}
    [] name = "int2" -> {"i16"}
    [] name = "int4" -> {"i32"}
    [] name \in OidTypes -> {"u32"}
    [] name = "int8" -> {"i64"}
    [] name = "float4" -> {"f32"}
    [] name = "float8" -> {"f64"}
    [] name = "numeric" -> {"Decimal"}
    [] name = "bool" -> {"bool"}
    [] name = "bytea" -> {"bytes"}
    [] name = "uuid" -> {"Uuid"}
    [] name \in {"json", "jsonb"} -> {"Json"}
    [] name \in {"timestamp", "timestamptz"} -> {"NaiveDateTime"}
    [] name = "date" -> {"NaiveDate"}
    [] name \in {"time", "timetz"} -> {"NaiveTime"}
    [] name \in {"inet", "cidr"} -> {"IpAddr"}
    [] OTHER -> {}

-----------------------------------------------------------------------------
(***************************************************************************)
(* Numbers and intervals.                                                  *)
(***************************************************************************)
Digits10(n) == CHOOSE k \in 1 .. 10 : 10 ^ (k - 1) <= n /\ n < 10 ^ k

\* A number of JSON has no trailing zeros, and zero no sign.
JsonNumber(d) ==
  LET least == CHOOSE s \in 0 .. d.scale :
                 /\ d.mant % 10 ^ (d.scale - s) = 0
                 /\ s = 0 \/ (d.mant \div 10 ^ (d.scale - s)) % 10 # 0
  IN  [neg |-> d.neg /\ d.mant # 0, mant |-> d.mant \div 10 ^ (d.scale - least), scale |-> least]

integer_digit_count(d) == IF d.mant < 10 ^ d.scale THEN 1 ELSE Digits10(d.mant \div 10 ^ d.scale)

\* A number where JSON can have it without loss, otherwise its text.
decimal_to_json(d) ==
  IF d.mant % 10 ^ d.scale = 0
  THEN IF d.mant \div 10 ^ d.scale <= (IF d.neg THEN (MaxJsonInt + 1) \div 2 ELSE MaxJsonInt)
       THEN Show("number", JsonNumber(d)) ELSE Show("text", d)
  ELSE IF integer_digit_count(d) + d.scale > JsonDigits THEN Show("text", d)
       ELSE Show("number", JsonNumber(d))

\* Microseconds, days and months; the seconds are rounded down, their sign
\* is not shown.
Abs(n) == IF n < 0 THEN -n ELSE n
IntervalTime(micros) ==
  LET secs == micros \div UsecPerSec      \* div_euclid; the parts truncate
  IN  <<Abs(Trunc(secs, 3600)), Abs(Trunc(secs - 3600 * Trunc(secs, 3600), 60)),
        Abs(secs - 60 * Trunc(secs, 60)), micros % UsecPerSec>>

format_interval(b) ==
  LET v == ReadFields(<<I(8), I(4), I(4)>>, b)
  IN  IF Len(b) # 16 THEN Show("malformed", Len(b))
      ELSE Show("interval", [years |-> Trunc(v.val[3], 12), mons |-> v.val[3] - 12 * Trunc(v.val[3], 12),
                             days |-> v.val[2], time |-> IntervalTime(v.val[1])])

-----------------------------------------------------------------------------
(***************************************************************************)
(* serde_json.  A text of JSON is null or an object, between braces its    *)
(* members, each an octet for the key and two for a number; a Value is     *)
(* <<"null">> or <<"object", the numbers by their keys>>.                  *)
(***************************************************************************)
JSON_NULL == <<110, 117, 108, 108>>
Braces == <<123, 125>>
JsonMembers(text) == ReadItems((Len(text) - 2) \div 3, <<U(1), U(2)>>, Behind(1, text))

\* The number that a Value has for an integer: beyond a u64 it is a double.
ValueNumber(n) == IF n > MaxJsonInt THEN n - (n % DoubleStep) ELSE n

\* from_slice to a Value: each key once, with its last number.
JsonValue(text) ==
  LET r == JsonMembers(text)
      m == r.val
  IN  CASE text = JSON_NULL -> Ok(<<"null">>)
        [] Len(text) < 2 \/ ~r.ok -> Err
        [] First(1, text) \o r.rest # Braces -> Err
        [] OTHER -> Ok(<<"object", [k \in {m[i][1] : i \in DOMAIN m} |->
                          ValueNumber(m[Max({i \in DOMAIN m : m[i][1] = k})][2])]>>)

-----------------------------------------------------------------------------
(***************************************************************************)
(* format_value_with_type and format_field_string.                         *)
(***************************************************************************)
\* json!(x) has no number for a float that is not finite; a JSON null is one.
ToJson(rt, v) ==
  CASE rt \in {"f32", "f64"} /\ v \in NotFinite -> Null
    [] rt = "Json" /\ v = <<"null">> -> Null
    [] rt = "Decimal" -> decimal_to_json(v)
    [] OTHER -> Show(rt, v)

ToText(rt, v) == Show(rt, v)

RawBytes(row, i) == Slice(row.storage, row.ranges[i])

\* Mutant: what cannot be read is shown as if it were NULL.
raw_bytes_fallback_Null(row, i) == Null

\* raw_bytes_fallback and raw_bytes_string_fallback: only NULL is Null.
raw_bytes_fallback(row, i) ==
  LET b == RawBytes(row, i) IN IF b = NULL THEN Null ELSE Show("unsupported", b)

\* try_get of the column; JSON is read as a serde_json::Value.
DisplayGet(row, i, rt) ==
  LET r == get_inner(row, <<"pos", i>>, <<"Option", <<rt>>>>)
  IN  IF rt = "Json" THEN AndThen(r, LAMBDA text : IF text = NULL THEN r ELSE JsonValue(text)) ELSE r

\* typed_or_raw: a value the type's reader refuses is shown by its octets.
TypedOrRaw(row, i, rt, json) ==
  LET r == DisplayGet(row, i, rt)
  IN  IF ~r.ok THEN raw_bytes_fallback(row, i)
      ELSE IF r.val = NULL THEN Null
      ELSE IF json THEN ToJson(rt, r.val) ELSE ToText(rt, r.val)

\* The two formatters are alike but for the last step: JSON or text.
Display(row, i, json) ==
  LET name == row.columns[i].type.name
      b    == RawBytes(row, i)
  IN  CASE DisplayType(name) # {} -> TypedOrRaw(row, i, CHOOSE t \in DisplayType(name) : TRUE, json)
        [] b = NULL -> Null
        [] <<name, Len(b)>> \in {<<"macaddr", 6>>, <<"macaddr8", 8>>} -> Show("octets", b)
        [] name = "interval" -> format_interval(b)
        [] OTHER -> raw_bytes_fallback(row, i)

format_value_with_type(row, i) == Display(row, i, TRUE)
format_field_string(row, i) == Display(row, i, FALSE)
=============================================================================
