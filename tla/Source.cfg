\* The threads of the source with two hosts calling at once.
SPECIFICATION FairSpec
CONSTANTS
    Caller = {h1, h2}
    Worker = worker
    Callback = callback
    Nobody = nobody
    PingInterval = 1
    PongTimeout = 1
INVARIANTS
    TypeOK
    SocketOutlivesItsUsers
    ReapingIsExclusive
    QuietAfterDisconnect
PROPERTIES
    Contract
    ConnectIsNotSwallowed
    CallsReturn
    DeadSessionRetires
    UpgradeReconnects
    SilentPeerIsDropped
