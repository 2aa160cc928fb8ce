SPECIFICATION FairSpec
CONSTANTS
    Conn = {c1}
    MaxChanges = 5
INVARIANTS
    ClientOutlivesItsUsers
PROPERTIES
    ViewSpec
    ShutdownCompletes
    ViewCatchesUp
