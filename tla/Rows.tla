-------------------------------- MODULE Rows --------------------------------
(***************************************************************************)
(* Rows: columns of a DataRow looked up by position or by name, and rows   *)
(* in the binary COPY format in both directions.                           *)
(*                                                                         *)
(* A column is [name, type].  A name is <<letters, spelling>>: names that  *)
(* differ in case only have the same letters.  Positions count from 1.     *)
(***************************************************************************)
EXTENDS Backend, Types

CONSTANTS
  MAGIC,        \* the octets a binary COPY begins with; shorter in an instance
  CopyFlush     \* a writer sends its buffer when it is longer (4096)

-----------------------------------------------------------------------------
(***************************************************************************)
(* Row and SimpleQueryRow.                                                 *)
(***************************************************************************)
FirstOf(S) == IF S = {} THEN 0 ELSE Min(S)

\* Mutant: case is ignored although a column is spelled exactly so.
RowIdx_AnyCase(idx, columns) ==
  IF idx[1] = "pos" THEN IF idx[2] \in DOMAIN columns THEN idx[2] ELSE 0
  ELSE FirstOf({i \in DOMAIN columns : columns[i].name[1] = idx[2][1]})

\* __idx: 0 without such a column; an exact name goes before one that
\* differs in case.
RowIdx(idx, columns) ==
  IF idx[1] = "pos" THEN IF idx[2] \in DOMAIN columns THEN idx[2] ELSE 0
  ELSE LET exact == {i \in DOMAIN columns : columns[i].name = idx[2]}
           fold  == {i \in DOMAIN columns : columns[i].name[1] = idx[2][1]}
       IN  FirstOf(IF exact # {} THEN exact ELSE fold)

\* Row::new fails where the ranges cannot be read.
RowNew(columns, body) ==
  LET r == DataRowRanges(body[1], body[2])
  IN  IF r.ok THEN Ok([columns |-> columns, storage |-> body[2], ranges |-> r.val]) ELSE Err

\* The server may send fewer values than the statement has columns.
get_inner(row, idx, rt) ==
  LET i == RowIdx(idx, row.columns)
  IN  IF i = 0 THEN Err
      ELSE IF ~accepts("from", rt, row.columns[i].type) THEN Err
      ELSE IF i \notin DOMAIN row.ranges THEN Panic
      ELSE from_sql_nullable(rt, row.columns[i].type, Slice(row.storage, row.ranges[i]))

\* A simple query's values are text, whatever their column's type.
simple_get_inner(row, idx) ==
  LET i == RowIdx(idx, row.columns)
  IN  IF i = 0 THEN Err
      ELSE IF i \notin DOMAIN row.ranges THEN Panic
      ELSE Ok(Slice(row.storage, row.ranges[i]))

-----------------------------------------------------------------------------
(***************************************************************************)
(* BinaryCopyInWriter: [types, buf, sent, ok], sent being what went to the *)
(* CopyInSink, one CopyData message each.                                  *)
(***************************************************************************)
BinaryCopyInWriter(types) ==
  [types |-> types, buf |-> MAGIC \o PutInt(0, 4) \o PutInt(0, 4), sent |-> <<>>, ok |-> TRUE]

Flushed(w) == [w EXCEPT !.sent = Append(@, w.buf), !.buf = <<>>]

\* write_raw: a row of Rust values <<type, value>>.  What a failing value
\* has written stays in buf: the caller has to give the copy up.
write_raw(w, row) ==
  LET Put(i, buf) == write_nullable(to_sql_checked(row[i][1], w.types[i], row[i][2]), buf)
      out == WriteEach(Put, [i \in DOMAIN row |-> i], w.buf \o PutInt(Len(w.types), 2))
      new == [w EXCEPT !.buf = out.buf, !.ok = out.ok]
  IN  IF Len(row) # Len(w.types) THEN [w EXCEPT !.ok = FALSE]
      ELSE IF out.ok /\ Len(out.buf) > CopyFlush THEN Flushed(new) ELSE new

copy_finish(w) == Flushed([w EXCEPT !.buf = @ \o PutInt(-1, 2)])

(***************************************************************************)
(* BinaryCopyOutStream: every chunk of the server is one row, the first    *)
(* one has the header in front, the last one is the trailer.               *)
(***************************************************************************)
\* The octets behind the header, and whether rows have an oid.
CopyHeader(chunk) ==
  LET flags == Read(I(4), Behind(Len(MAGIC), chunk))
      ext   == IF flags.ok THEN Read(U(4), flags.rest) ELSE Err
      body  == IF ext.ok THEN ReadExact(ext.val, ext.rest) ELSE Err
  IN  IF First(Len(MAGIC), chunk) # MAGIC \/ ~body.ok THEN Err
      ELSE Got((flags.val \div 65536) % 2 = 1, body.rest)

\* Only -1 is NULL; another negative length is larger than what is left.
\* Octets behind the last value are ignored.
CopyRow(types, has_oids, body) ==
  LET len  == Read(I(2), body)
      want == IF has_oids THEN 1 ELSE 0
      Value(r, k) ==
        LET n == IF r.ok THEN Read(I(4), r.rest) ELSE Err
            v == IF n.ok /\ n.val >= 0 THEN ReadExact(n.val, n.rest) ELSE Err
        IN  IF ~n.ok THEN Err
            ELSE IF n.val = -1 THEN Got(Append(r.val, NULL), n.rest)
            ELSE IF v.ok THEN Got(Append(r.val, v.val), v.rest) ELSE Err
  IN  IF ~len.ok THEN [is |-> "error"]
      ELSE IF len.val = -1 THEN [is |-> "end"]
      ELSE IF len.val + want # Len(types) THEN [is |-> "error"]
      ELSE LET r == FoldLeft(Value, Got(<<>>, len.rest), [k \in DOMAIN types |-> k])
           IN  IF r.ok THEN [is |-> "row", values |-> r.val] ELSE [is |-> "error"]

\* poll_next on the chunks one by one: the rows and how it ended; running
\* out of chunks is Error::closed.
BinaryCopyOut(types, chunks) ==
  LET Step(s, chunk) ==
        LET head == IF s.header = NULL THEN CopyHeader(chunk) ELSE Got(s.header, chunk)
            row  == IF head.ok THEN CopyRow(types, head.val, head.rest) ELSE [is |-> "error"]
        IN  IF s.end # "open" THEN s
            ELSE IF row.is = "row"
                 THEN [s EXCEPT !.header = head.val, !.rows = Append(@, row.values)]
            ELSE [s EXCEPT !.end = row.is]
      s == FoldLeft(Step, [header |-> NULL, rows |-> <<>>, end |-> "open"], chunks)
  IN  [rows |-> s.rows, end |-> IF s.end = "open" THEN "closed" ELSE s.end]

\* BinaryCopyOutRow::try_get.
copy_try_get(types, values, i, rt) ==
  IF i \notin DOMAIN types THEN Err
  ELSE IF ~accepts("from", rt, types[i]) THEN Err
  ELSE from_sql_nullable(rt, types[i], values[i])
=============================================================================
