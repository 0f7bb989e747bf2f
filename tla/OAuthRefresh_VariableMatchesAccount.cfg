\* Two concurrent refreshes of one account: the variable written after the
\* commit can disagree with the committed row.
CONSTANTS
    Refreshers = {a, b}
    MaxIssued = 3
    NONE = NONE
SPECIFICATION OAuthSpec
INVARIANT VariableMatchesAccount
\* Each refresher makes one call; once both returned nothing moves.
CHECK_DEADLOCK FALSE
