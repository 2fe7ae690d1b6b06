------------------------------ MODULE SqlText -------------------------------
(***************************************************************************)
(* SQL text: quoting literals and identifiers (escape/mod.rs), and what    *)
(* the shell does with what is typed: it cuts the input into statements at *)
(* the semicolons that are not quoted or commented (interactive.rs), and   *)
(* looks behind leading comments for the keyword (cli.rs).                 *)
(*                                                                         *)
(* Text is a sequence of characters: the ones the code looks for, and      *)
(* words, which stand for any run of letters.                              *)
(***************************************************************************)
EXTENDS Bytes

CONSTANTS
  Letters,    \* words that may begin a dollar quote's tag
  Digits      \* characters that may only continue one

Blank == {" ", "\n"}

\* trim_start and trim.
TrimStart(s) == LET n == SelectInSeq(s, LAMBDA c : c \notin Blank)
                IN  IF n = 0 THEN <<>> ELSE Behind(n - 1, s)
TrimText(s) == Reverse(TrimStart(Reverse(TrimStart(s))))

LooksAt(pattern, s, i) == IsPrefix(pattern, Behind(i - 1, s))

-----------------------------------------------------------------------------
(***************************************************************************)
(* escape_literal and escape_identifier.                                   *)
(***************************************************************************)
\* A literal with a backslash uses the escape syntax, behind a blank.
escape_internal(s, as_ident) ==
  LET q      == IF as_ident THEN "\"" ELSE "'"
      double == IF as_ident THEN {q} ELSE {q, "\\"}
      e      == ~as_ident /\ \E i \in DOMAIN s : s[i] = "\\"
  IN  (IF e THEN <<" ", "E">> ELSE <<>>) \o <<q>>
      \o FlattenSeq([i \in DOMAIN s |-> IF s[i] \in double THEN <<s[i], s[i]>> ELSE <<s[i]>>])
      \o <<q>>

escape_literal(s) == escape_internal(s, FALSE)
escape_identifier(s) == escape_internal(s, TRUE)

-----------------------------------------------------------------------------
(***************************************************************************)
(* SqlTokenizer::split_statements.  A mode says what the text at hand is:  *)
(* plain, a comment to the end of the line, a block comment of some depth, *)
(* quoted by a character or by a dollar quote's tag.                       *)
(***************************************************************************)
Plain == <<"plain">>

\* The tag of the dollar quote that begins at i, {} if none does.
DollarTag(s, i) ==
  {SubSeq(s, i + 1, j - 1) :
     j \in {j \in i + 1 .. Len(s) :
              /\ s[j] = "$"
              /\ \A k \in i + 1 .. j - 1 : s[k] \in Letters \cup (IF k = i + 1 THEN {} ELSE Digits)}}

\* Mutant: the first end of a comment ends all that are open.
InComment_Flat(depth) == IF depth = 0 THEN Plain ELSE <<"block", 1>>

\* Comments nest.
InComment(depth) == IF depth = 0 THEN Plain ELSE <<"block", depth>>

\* How many characters at i belong together, and the mode behind them.
Lex(mode, s, i) ==
  LET Take(n, m) == [width |-> n, mode |-> m]
      c == s[i]
  IN  CASE mode[1] = "line" -> Take(1, IF c = "\n" THEN Plain ELSE mode)
        [] mode[1] = "block" ->
             CASE LooksAt(<<"/", "*">>, s, i) -> Take(2, InComment(mode[2] + 1))
               [] LooksAt(<<"*", "/">>, s, i) -> Take(2, InComment(mode[2] - 1))
               [] OTHER -> Take(1, mode)
        [] mode[1] = "quote" ->
             CASE LooksAt(<<mode[2], mode[2]>>, s, i) -> Take(2, mode)
               [] c = mode[2] -> Take(1, Plain)
               [] OTHER -> Take(1, mode)
        [] mode[1] = "dollar" ->
             IF LooksAt(<<"$">> \o mode[2] \o <<"$">>, s, i) THEN Take(Len(mode[2]) + 2, Plain)
             ELSE Take(1, mode)
        [] c \in {"'", "\""} -> Take(1, <<"quote", c>>)
        [] c = "$" /\ DollarTag(s, i) # {} ->
             LET tag == CHOOSE t \in DollarTag(s, i) : TRUE IN Take(Len(tag) + 2, <<"dollar", tag>>)
        [] LooksAt(<<"-", "-">>, s, i) -> Take(2, <<"line">>)
        [] LooksAt(<<"/", "*">>, s, i) -> Take(2, InComment(1))
        [] OTHER -> Take(1, Plain)

\* The state of the loop in front of position next: what is complete, what
\* is not, and the mode.
SplitStep(st, s, i) ==
  LET l == Lex(st.mode, s, i)
      t == TrimText(st.current)
  IN  IF i < st.next THEN st
      ELSE IF st.mode = Plain /\ s[i] = ";"
           THEN [st EXCEPT !.complete = IF t = <<>> THEN @ ELSE Append(@, t),
                           !.current = <<>>, !.next = i + 1]
      ELSE [st EXCEPT !.current = @ \o SubSeq(s, i, i + l.width - 1),
                      !.mode = l.mode, !.next = i + l.width]

\* The loop over the characters of s that begin among its first n.
SplitLoop(s, n) ==
  FoldLeft(LAMBDA a, i : SplitStep(a, s, i),
           [complete |-> <<>>, current |-> <<>>, mode |-> Plain, next |-> 1], [i \in 1 .. n |-> i])

split_statements(s) ==
  LET st == SplitLoop(s, Len(s)) IN [complete |-> st.complete, remainder |-> TrimStart(st.current)]

\* SqlHelper::validate: Enter ends the input, or continues it.
validate(s) ==
  LET t == TrimText(s)
  IN  \/ t = <<>> \/ t[1] = "." \/ t = <<"?">>
      \/ TrimText(split_statements(s).remainder) = <<>>

-----------------------------------------------------------------------------
(***************************************************************************)
(* strip_leading_comments: what is behind them, <<>> behind an open one.   *)
(***************************************************************************)
\* Where the comment that begins s ends, Len(s) + 1 if it does not.
CommentEnd(s, mode) ==
  LET st == FoldLeft(LAMBDA a, i : IF i < a.next \/ a.mode = Plain THEN a
                                   ELSE LET l == Lex(a.mode, s, i)
                                        IN  [mode |-> l.mode, next |-> i + l.width],
                     [mode |-> mode, next |-> 3], [i \in DOMAIN s |-> i])
  IN  IF st.mode = Plain THEN st.next ELSE Len(s) + 1

strip_leading_comments(s) ==
  LET f[n \in 0 .. Len(s)] ==        \* of the last n characters
        LET t == TrimStart(Behind(Len(s) - n, s))
            m == CASE LooksAt(<<"-", "-">>, t, 1) -> <<"line">>
                   [] LooksAt(<<"/", "*">>, t, 1) -> <<"block", 1>>
                   [] OTHER -> Plain
        IN  IF m = Plain THEN t ELSE f[Len(t) + 1 - CommentEnd(t, m)]
  IN  f[Len(s)]

\* execute_sql_buffered: rows are asked for, or a number.
IsQuery(s) ==
  LET t == strip_leading_comments(TrimText(s))
  IN  t # <<>> /\ t[1] \in {"SELECT", "EXPLAIN", "WITH"}
=============================================================================
