SPECIFICATION CompatSpec
CONSTANTS
    Scenarios <- MCScenarios
CHECK_DEADLOCK FALSE
INVARIANTS
    TypeOK
    AskedReachesEngine
    IdentityCoherent
    PooledClientFits
    HeadersFit
    CredentialsStayHome
    CookiesStayHome
    RedirectChain
