CONSTANTS
    Cells = {c1, c2, c3}
    Walks = {w1, w2}
    Endpoint = 1
    Broadcast = 65535
    Zero = 0
    Free = Free
    None = None
    Sources = {1}
    Remotes = {1}
    Long = {a,b}
    Short = {}
    Chunk = 2
    MaxTable = 2
    MaxChanges = 4
    MaxSearches = 3
SPECIFICATION MCSpec
INVARIANT NewDevicesAdded
CHECK_DEADLOCK FALSE
