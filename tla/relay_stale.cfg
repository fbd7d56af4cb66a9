SPECIFICATION MCSpec
CONSTANTS
    None = None
    Parts = {"relay"}
    Size = 3
    Counters = {0, 1, 2, 3, 4, 5, 6, 7, 8, 9}
    MaxAttempts = 2
    MaxInits = 3
    MaxRekeys = 1
    MaxRestarts = 0
    MaxData = 0
    MaxReplies = 0
    MaxSecrets = 2
    Addrs = {1, 2}
    Load = "varies"
    Duplicates = TRUE
    MaxLosses = 0
    Quiet = TRUE
CHECK_DEADLOCK FALSE
PROPERTY Renegotiated
