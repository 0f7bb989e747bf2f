\* Object store client cache and JSON line stream, global cache, OAuth refresh.
CONSTANTS
    Getters <- MCGetters
    MaxVersion <- MCMaxVersion
    OidcVersions <- MCOidcVersions
    Ttl <- MCTtl
    MaxTime <- MCMaxTime
    NONE = NONE
    Formats <- MCFormats
    MaxChunks <- MCMaxChunks
    MaxBatches <- MCMaxBatches
    ChanCap <- MCChanCap
SPECIFICATION StorageSpec
INVARIANT ProPlanServesNoStore
INVARIANT JsonTypeOK
INVARIANT ClosedOutputComplete
INVARIANT OAuthTypeOK
INVARIANT AccountRefreshTokenValid
INVARIANT NegationComplements
INVARIANT RestrictionFollowsLastRule
INVARIANT PermissionRoundTrip
PROPERTY RefreshReturns
PROPERTY StreamEnds
PROPERTY ImplementsChunkStream
