\* A simulated node, one whose identifiers are Hyper-V's, and an operator who lets the page settle.
SPECIFICATION Spec
CONSTANTS
    n1 = n1
    n2 = n2
    demo = demo
    i1 = i1
    i2 = i2
    ubuntu = ubuntu
    Ubuntu = Ubuntu
    snap = snap
    NoName = NoName
    None = None
    Node = {n1, n2}
    ID = {demo, i1}
    DemoID = demo
    Name = {ubuntu, Ubuntu, NoName}
    DemoName = ubuntu
    Fold <- FoldCase
    Fresh = {n2}
    Snapshot = {snap}
    Sizes = {0, 2}
    Disks = {0, 1, 2}
    Patient = TRUE
    Clicks = 4
INVARIANT NamesDistinct
INVARIANT CheckpointsOwned
INVARIANT ActsOnWhatItShows
INVARIANT ShowsTheNode
PROPERTY LoadingEnds
CHECK_DEADLOCK FALSE
