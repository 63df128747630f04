\* Three downloads of two names, one from a server that does not say how long
\* its image is; a name asked for again once its job has ended.
SPECIFICATION Spec
CONSTANTS
    j1 = j1
    j2 = j2
    j3 = j3
    f1 = f1
    f2 = f2
    Job = {j1, j2, j3}
    Name = {f1, f2}
    NoJob = NoJob
    Blocks = 2
    Unsized = {j1}
    Overlap = "after"
SYMMETRY Symmetry
CHECK_DEADLOCK FALSE
INVARIANT TypeOK
INVARIANT CatalogImagesWhole
INVARIANT CompletedIsListed
INVARIANT NoOrphanParts
