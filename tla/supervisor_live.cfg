SPECIFICATION FairFleet
CONSTANTS
    Names = {a}
    api = api
    main = main
    Threads = {api, main}
    Handles = {h1, h2, h3}
    Servers = {s1}
    Configs <- MCOn
    Ops <- MCReconcile
    CanRemove = TRUE
    None = None
PROPERTIES
    FleetResponsive
    CallsReturn
CHECK_DEADLOCK FALSE
