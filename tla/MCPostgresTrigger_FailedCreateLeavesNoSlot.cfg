\* A generated create that fails, and the slot it leaves.
CONSTANTS
    Requests = {r1, r2}
    Names = {n1, n2}
    NONE = NONE
SYMMETRY MCSymmetry
SPECIFICATION Spec

INVARIANT FailedCreateLeavesNoSlot
\* Every request returns and the API then serves no more: the final states
\* have no successor.
CHECK_DEADLOCK FALSE
