SPECIFICATION Spec
CONSTANTS
    Slots = {1, 2, 3}
    Nexiuum = {3}
    NexiuumEnabled = TRUE
    PageSize = 1
    Labels = {"a", "b"}
    Rows = {"plotted", "undated"}
    Polls = {p1, p2}
    MaxEdits = 1
    MaxFails = 1
    Gone = Gone
    NoSlot = NoSlot
    NoSnap = NoSnap
    NoLabel = NoLabel
INVARIANTS SnapshotIsRegular PinnedIsShown
PROPERTY CatchesUp
