------------------------------ MODULE SQLText ------------------------------
(***************************************************************************)
(* What internal/proxy/query.go reads out of the text of a query: its      *)
(* leading keyword and its consistency hint; and what PostgreSQL makes of  *)
(* the same text.                                                          *)
(*                                                                         *)
(* A text is a sequence of tokens with blanks between them.  Next to words, *)
(* line ends and comments it may have what the two readers see             *)
(* differently: a lone carriage return, other white space ("\f"), an empty *)
(* statement (";"), the delimiter that may be taken for a whole comment    *)
(* ("/*/") and a keyword with something glued to it ("BEGIN1").  Text that *)
(* neither reader looks at is left out.                                    *)
(***************************************************************************)
EXTENDS Naturals, SequencesExt

Words == {"BEGIN", "SELECT", "INSERT"}

\* What leadingKeyword returns for a text without one.
NoWord == ""

\* "\n" is a line end, with a carriage return before it or without.
Blanks == {"\n", "\r"}

\* "--" is a comment without a hint, or with a level that does not exist.
LineComments == {"--", "-- consistency=eventual", "-- consistency=bounded_staleness"}

BlockComments == {"/*", "/*/"}

Tokens == Words \cup Blanks \cup LineComments \cup BlockComments \cup {"*/", ";", "\f", "BEGIN1"}

\* One word stands for the eight that open, close or subdivide a transaction.
TransactionControl == {"BEGIN"}

\* A mutant: only white space is skipped, so that a hint hides the statement.
skipsNoComment(query) ==
    LET first == SelectInSeq(query, LAMBDA t : t \notin Blanks)
    IN  IF first # 0 /\ query[first] \in Words THEN query[first] ELSE NoWord

\* What ends the white space or the comment that t begins.  A block comment is
\* taken to end at the first "*/", be it of the delimiter that opens it.
closing(t) ==
    CASE t \in Blanks        -> Blanks
      [] t \in LineComments  -> {"\n"}
      [] t \in BlockComments -> {"*/", "/*/"}

\* The position behind the white space or the comment at i, 0 if the comment
\* does not end.
skipped(query, i) ==
    LET end == SelectInSubSeq(query, i, Len(query), LAMBDA t : t \in closing(query[i]))
    IN  IF end = 0 THEN 0 ELSE end + 1

\* The letters a token begins with.
letters(t) == CASE t \in Words -> t [] t = "BEGIN1" -> "BEGIN" [] OTHER -> NoWord

\* The first word, with white space and comments skipped; "" if there is none.
leadingKeyword(query) ==
    LET from[i \in 1 .. Len(query) + 1] ==
            IF i > Len(query) THEN NoWord
            ELSE IF query[i] \notin Blanks \cup LineComments \cup BlockComments THEN letters(query[i])
            ELSE IF skipped(query, i) = 0 THEN NoWord
            ELSE from[skipped(query, i)]
    IN  from[1]

isTransactionControl(query) == leadingKeyword(query) \in TransactionControl

\* A hint counts only as the first thing in the query; TrimSpace knows more
\* white space than leadingKeyword.  The ceiling that goes with bounded
\* staleness is left out: it only matters to the router.
consistencyFromQuery(query) ==
    LET first == SelectInSeq(query, LAMBDA t : t \notin Blanks \cup {"\f"})
    IN  CASE first # 0 /\ query[first] = "-- consistency=eventual" -> "eventual"
          [] first # 0 /\ query[first] = "-- consistency=bounded_staleness" ->
                "bounded_staleness"
          [] OTHER -> "strong"

-----------------------------------------------------------------------------
(* PostgreSQL's reading of the text.  "word" is the keyword of the first   *)
(* statement, "" if the text has none, and "error" if it is not a          *)
(* statement at all; "depth" counts the comments open in the block comment *)
(* the reader is in.  "odd" counts what leadingKeyword sees differently:   *)
(* block comments nest; "/*/" only opens one; a carriage return ends a     *)
(* line comment; a form feed is white space; and statements may be empty.  *)

ServerStart == [word |-> NoWord, comment |-> "none", depth |-> 0, odd |-> 0]

ServerToken(st, t) ==
    IF st.word # NoWord THEN st
    ELSE IF st.comment = "line" THEN
        CASE t = "\n" -> [st EXCEPT !.comment = "none"]
          [] t = "\r" -> [st EXCEPT !.comment = "none", !.odd = @ + 1]
          [] OTHER    -> st
    ELSE IF st.comment = "block" THEN
        CASE t \in BlockComments -> [st EXCEPT !.depth = @ + 1, !.odd = @ + 1]
          [] t = "*/" -> IF st.depth = 0 THEN [st EXCEPT !.comment = "none"]
                                         ELSE [st EXCEPT !.depth = @ - 1]
          [] OTHER    -> st
    ELSE
        CASE t \in Blanks           -> st
          [] t \in {"\f", ";"}      -> [st EXCEPT !.odd = @ + 1]
          [] t \in LineComments     -> [st EXCEPT !.comment = "line"]
          [] t = "/*"               -> [st EXCEPT !.comment = "block"]
          [] t = "/*/"              -> [st EXCEPT !.comment = "block", !.odd = @ + 1]
          [] t \in {"*/", "BEGIN1"} -> [st EXCEPT !.word = "error"]
          [] t \in Words            -> [st EXCEPT !.word = t]

ServerReads(query) ==
    LET end == FoldLeft(ServerToken, ServerStart, query)
    IN  IF end.comment = "block" THEN [end EXCEPT !.word = "error"] ELSE end
=============================================================================
