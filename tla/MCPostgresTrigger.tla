--------------------------- MODULE MCPostgresTrigger ---------------------------
EXTENDS PostgresTrigger, TLC

\* Requests and names are model values (two of each in the cfg: enough for
\* a handler to interleave with any other one, and for a generated name
\* beside one another request reuses); no handler tells two of them apart.
MCSymmetry == Permutations(Requests) \cup Permutations(Names)

====
