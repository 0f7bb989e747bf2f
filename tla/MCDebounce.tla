----------------------------- MODULE MCDebounce -----------------------------
EXTENDS Debounce

\* Three submissions on one key cover displacement chains, a reset and the
\* worker racing a later push; two keys would only multiply the states.
MCJobs == {1, 2, 3}
MCKeys == {"k"}
MCPaths == {"push", "post"}
MCDelay == 1
\* max_total_debounces_amount = 1: the third submission of a batch resets.
MCMaxCount == 1
MCMaxAge == 2
\* Twice the number of concurrent pushers (debounce_test.rs:2485-2487).
MCPoolSize == 6
MCMaxTime == 3

=============================================================================
