\* remove_comments against an SQL lexer over single-statement inputs.
INIT Init
NEXT Next
INVARIANT RemoveCommentsMatchesRef
\* The input never changes: every state is final.
CHECK_DEADLOCK FALSE
