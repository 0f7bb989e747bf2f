\* get_object_store and reload_object_store_setting: CacheNotOlderThanReload.
CONSTANTS
    Getters <- MCGetters
    MaxVersion <- MCMaxVersion
    OidcVersions <- MCOidcVersions
    Ttl <- MCTtl
    MaxTime <- MCMaxTime
    NONE = NONE
SPECIFICATION Spec
INVARIANT CacheNotOlderThanReload
