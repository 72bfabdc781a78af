CONSTANTS
    Pushers = {p1, p2}
    Poppers = {c1, c2, c3}
    Items = {a, b}
    MaxQueue = 2
SPECIFICATION FairSpec
INVARIANTS TypeOK FrontExists CountIsLength WakeupPending
PROPERTIES FifoSpec SleeperGetsItem
