\* Two workers of one host on one cache entry: a load can report a hit for
\* an entry another worker is still writing.
CONSTANTS
    Workers = {w1, w2}
    NONE = NONE
SPECIFICATION GlobalCacheSpec
INVARIANT LoadHitComplete
\* Each worker makes one call; once both returned nothing moves.
CHECK_DEADLOCK FALSE
