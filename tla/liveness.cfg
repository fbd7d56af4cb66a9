SPECIFICATION Spec
CONSTANTS
    None = None
    Sessions = {s1, s2}
    Addrs = {a, b}
    Closers = {user, monitor}
PROPERTIES
    TurnsComplete
    DepartedReleased
    GoroutinesEnd
    WgRecovers
    MeshConnects
CHECK_DEADLOCK FALSE
