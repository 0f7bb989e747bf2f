------------------------- MODULE MCObjectStoreCache -------------------------
EXTENDS ObjectStoreCache

\* Two getters can refresh at once; two setting versions, the first an
\* AwsOidc one, give a reload racing the refresh of an expired client.
MCGetters == {"g1", "g2"}
MCMaxVersion == 2
MCOidcVersions == {1}
\* Credentials live one minute: with the one-minute grace of
\* refresh_needed, a refresh happens from minute 3 on.
MCTtl == 1
MCMaxTime == 4

=============================================================================
