---------------------------- MODULE SqlComments ----------------------------
(***************************************************************************)
(* remove_comments (windmill-worker, sql_utils.rs): the one-pass scanner   *)
(* that cuts the comments and whitespace before a single SQL statement and *)
(* everything after its first ';'.  A statement is a sequence of one-     *)
(* character strings; the characters the scanner tells apart are kept and *)
(* every other character is "x".  Positions are 1-based, so the byte      *)
(* range [start_byte, end_byte) of the code is SubSeq(stmt, start, end).  *)
(* RefStatement is the statement as an SQL lexer sees it, for comparison. *)
(***************************************************************************)
EXTENDS Naturals, Sequences

Quote == "'"
DQuote == "dq"       \* the character "
Backslash == "bs"
Newline == "nl"
Space == "sp"
Chars == {"-", "/", "*", Quote, DQuote, Backslash, Newline, Space, "x", ";"}
Blank == {Space, Newline}       \* char::is_whitespace
NoChar == "nul"                 \* '\0'

\* The next character, '\0' past the end (char_indices.peek()).
NextChar(stmt, i) == IF i < Len(stmt) THEN stmt[i + 1] ELSE NoChar

\* The scanner's locals between two characters.
InitScan == [inStmt |-> FALSE, inLine |-> FALSE, inBlock |-> FALSE,
             inStr |-> FALSE, delim |-> NoChar, start |-> 0, prev |-> NoChar]

\* A quote not preceded by a backslash, outside comments, opens a string or
\* closes the one it delimits.
AfterQuote(st, c) ==
    IF ~st.inLine /\ ~st.inBlock /\ c \in {Quote, DQuote} /\ st.prev # Backslash
    THEN CASE st.inStr /\ c = st.delim -> [st EXCEPT !.inStr = FALSE, !.delim = NoChar]
           [] ~st.inStr -> [st EXCEPT !.inStr = TRUE, !.delim = c]
           [] OTHER -> st
    ELSE st

\* The if / else-if chain on comments, outside strings.  The end of a block
\* comment is handled by the caller (it skips the '/').
AfterComment(st, c, n) ==
    IF st.inStr THEN st
    ELSE CASE ~st.inBlock /\ c = "-" /\ n = "-" -> [st EXCEPT !.inLine = TRUE]
           [] st.inLine /\ c = Newline -> [st EXCEPT !.inLine = FALSE]
           [] ~st.inLine /\ c = "/" /\ n = "*" -> [st EXCEPT !.inBlock = TRUE]
           [] OTHER -> st

BlockEnds(st, c, n) == ~st.inStr /\ st.inBlock /\ c = "*" /\ n = "/"

\* Outside comments and strings the first non-blank character starts the
\* statement.
InCode(st) == ~st.inLine /\ ~st.inBlock /\ ~st.inStr
AfterStart(st, c, i) ==
    IF InCode(st) /\ ~st.inStmt /\ c \notin Blank
    THEN [st EXCEPT !.start = i, !.inStmt = TRUE] ELSE st

\* &stmt[start_byte.unwrap_or(0)..end_byte]
Slice(stmt, st, end) == SubSeq(stmt, IF st.inStmt THEN st.start ELSE 1, end)

RECURSIVE Scan(_, _, _)
Scan(stmt, i, st) ==
    IF i > Len(stmt) THEN Slice(stmt, st, Len(stmt))
    ELSE LET c == stmt[i]
             n == NextChar(stmt, i)
             q == AfterQuote(st, c)
         IN IF BlockEnds(q, c, n)
            THEN Scan(stmt, i + 2, [q EXCEPT !.inBlock = FALSE, !.prev = "/"])
            ELSE LET s == AfterStart(AfterComment(q, c, n), c, i)
                 IN IF InCode(s) /\ s.inStmt /\ c = ";"
                    THEN Slice(stmt, s, i)
                    ELSE Scan(stmt, i + 1, [s EXCEPT !.prev = c])

remove_comments(stmt) == Scan(stmt, 1, InitScan)

(***************************************************************************)
(* The reference: an SQL lexer's view of the text.  Outside comments and   *)
(* quoted text, "--" opens a comment to the end of the line and "/*" one  *)
(* to the next "*/"; a quote opens text up to the next same quote (a      *)
(* doubled quote closes and reopens, which classifies the same).          *)
(***************************************************************************)

RECURSIVE Kinds(_, _, _)
Kinds(s, i, mode) ==
    IF i > Len(s) THEN <<>>
    ELSE LET c == s[i]
             n == NextChar(s, i)
         IN CASE mode = "code" /\ c = "-" /\ n = "-" ->
                    <<"comment", "comment">> \o Kinds(s, i + 2, "line")
              [] mode = "code" /\ c = "/" /\ n = "*" ->
                    <<"comment", "comment">> \o Kinds(s, i + 2, "block")
              [] mode = "code" /\ c \in {Quote, DQuote} ->
                    <<"text">> \o Kinds(s, i + 1, c)
              [] mode = "code" -> <<"code">> \o Kinds(s, i + 1, "code")
              [] mode = "line" /\ c = Newline ->
                    <<"comment">> \o Kinds(s, i + 1, "code")
              [] mode = "block" /\ c = "*" /\ n = "/" ->
                    <<"comment", "comment">> \o Kinds(s, i + 2, "code")
              [] mode \in {"line", "block"} ->
                    <<"comment">> \o Kinds(s, i + 1, mode)
              [] c = mode -> <<"text">> \o Kinds(s, i + 1, "code")
              [] OTHER -> <<"text">> \o Kinds(s, i + 1, mode)

\* Positions of the statement's own characters that are not blank.
StmtChars(s) ==
    LET k == Kinds(s, 1, "code")
    IN {i \in 1..Len(s) : k[i] \in {"code", "text"} /\ s[i] \notin Blank}

\* Positions of ';' that end a statement.
Terminators(s) ==
    LET k == Kinds(s, 1, "code")
    IN {i \in 1..Len(s) : k[i] = "code" /\ s[i] = ";"}

MinOf(S) == CHOOSE i \in S : \A j \in S : i <= j
MaxOf(S) == CHOOSE i \in S : \A j \in S : i >= j

\* The first statement: from its first character to its ';', or to its last
\* character when it has none.
RefStatement(s) ==
    LET first == MinOf(StmtChars(s))
        ends == {i \in Terminators(s) : i >= first}
    IN SubSeq(s, first, IF ends # {} THEN MinOf(ends) ELSE MaxOf(StmtChars(s)))

\* Inputs that hold a statement.
HasStatement(s) == StmtChars(s) # {}

====
