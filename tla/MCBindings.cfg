CONSTANTS
    Cells = {c1, c2, c3}
    Walks = {w1, w2}
    Endpoint = 1
    Broadcast = 65535
    Zero = 0
    Free = Free
    None = None
    Sources = {1, 2}
    Remotes = {1}
    Long = {a, b}
    Short = {}
    Chunk = 2
    MaxTable = 3
    MaxChanges = 4
    MaxSearches = 2
SPECIFICATION MCFairSpec
INVARIANTS
    BindingsInv
    NothingStale
    AllBound
PROPERTIES
    KeepsMembers
    WalksEnd
CHECK_DEADLOCK FALSE
