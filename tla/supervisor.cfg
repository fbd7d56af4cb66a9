SPECIFICATION SafetySpec
CONSTANTS
    Names = {a}
    api = api
    main = main
    Threads = {api, main}
    Handles = {h1, h2}
    Servers = {s1, s2}
    Configs <- MCAll
    Ops <- MCShutdown
    CanRemove = FALSE
    None = None
SYMMETRY Symmetry
INVARIANTS
    TypeOK
    StatusHonest
    NoUseAfterClose
    FleetOwned
    HostRulesFollow
CHECK_DEADLOCK FALSE
