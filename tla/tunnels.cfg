SPECIFICATION Spec
CONSTANTS
  Parts = {"ppp", "l2tp", "anyconnect", "fortinet", "toy", "gp", "pulse", "roam", "deadpeer", "dial", "serve",
           "connect", "nat", "pump", "gro", "shaper", "gate", "mgmt", "dtls"}
  Nil = Nil
INVARIANTS LeasesOwned EndsAgree Delivers CountsExact PeerWatched NothingLeft FailsClosed StoreKept
PROPERTIES UpOnce
CHECK_DEADLOCK FALSE
