---------------------------- MODULE MCSqlComments ----------------------------
(***************************************************************************)
(* remove_comments on every input built from a single statement: blanks   *)
(* and comments before it, the statement (a keyword, then up to two       *)
(* tokens: characters, operators and quoted text holding comment or ';'   *)
(* characters), its ';', and a blank or a comment after it.  Comment      *)
(* bodies are empty or one character, which may be '/', '*', '-' or a     *)
(* quote.  The input is chosen in the initial state and never changes.    *)
(***************************************************************************)
EXTENDS SqlComments

VARIABLE stmt

Bodies == {<<>>} \cup {<<ch>> : ch \in {"x", "/", "*", "-", Quote}}
CommentTokens ==
    {<<"-", "-">> \o b \o <<Newline>> : b \in Bodies}
        \cup {<<"/", "*">> \o b \o <<"*", "/">> : b \in Bodies}
Fillers == {<<>>, <<Space>>, <<Newline>>} \cup CommentTokens
QuotedTexts ==
    {<<qc>> \o b \o <<qc>> : qc \in {Quote, DQuote},
                             b \in {<<>>, <<"-", "-">>, <<";">>, <<"/", "*">>}}
StmtTokens == {<<"x">>, <<Space>>, <<"-">>, <<"/">>, <<"*">>} \cup QuotedTexts
Statements ==
    {<<"x">>} \cup {<<"x">> \o t : t \in StmtTokens}
        \cup {<<"x">> \o t \o u : t, u \in StmtTokens}

\* Inputs whose statement is ended by a ';' an SQL lexer sees.
Inputs ==
    {s \in {p \o st \o <<";">> \o q : p \in Fillers, st \in Statements,
                                       q \in Fillers} :
        \E i \in Terminators(s) : i >= MinOf(StmtChars(s))}

Init == stmt \in Inputs
Next == UNCHANGED stmt

\* The line-1 comment of sql_utils.rs: for an input holding a single
\* statement, remove_comments returns the statement with the comments and
\* blanks before it and everything after its ';' removed.
RemoveCommentsMatchesRef == remove_comments(stmt) = RefStatement(stmt)

====
