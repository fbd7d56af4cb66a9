SPECIFICATION FleetSpec
CONSTANTS
    Names = {a}
    api = api
    main = main
    Threads = {api, main}
    Handles = {h1, h2}
    Servers = {s1, s2}
    Configs <- MCNat
    Ops <- MCReconcile
    CanRemove = TRUE
    None = None
INVARIANT RulesKept
CHECK_DEADLOCK FALSE
