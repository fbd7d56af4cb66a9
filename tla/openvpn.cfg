SPECIFICATION MCSpec
CONSTANTS
    None = None
    Turns <- StreamTurns
    Window = 2
    InboundQueue = 1
    MaxACK = 4
    Duplicates = TRUE
    Stale = {}
    MaxLosses = 0
    MayFail = FALSE
    Sessions = {s1, s2}
    Addrs = {a, b}
    Pool = {2, 3}
    MaxHalfOpen = 1
    WireSpace = 4
    MaxPeers = 3
    CanExhaust = TRUE
    CanClose = TRUE
    Closers = {user, monitor}
    Configured = "gcm"
    Ciphers = {"gcm", "cbc"}
    NoCipher = "unnamed"
    Replies <- AllReplies
CHECK_DEADLOCK FALSE
INVARIANTS
    OneSession
    SessionsConsistent
PROPERTIES
    ControlIsStream
    DialAndClose
