SPECIFICATION Spec
CONSTANTS
    b1 = b1
    b2 = b2
    e1 = e1
    e2 = e2
    e3 = e3
    e4 = e4
    t1 = t1
    t2 = t2
    v1 = v1
    None = None
    Binding = {b1, b2}
    Bound = {{b1}, {b1, b2}}
    Engine = {e1, e2, e3, e4}
    Task = {t1, t2}
    Event = {v1}
    MaxSaves = 2
    MaxChanges = 3
SYMMETRY Symmetry
INVARIANTS NoneAtLarge DownIsDown RosterFollowsInTime PauseHolds EventsKept PurgedIfRemoved
CHECK_DEADLOCK FALSE
