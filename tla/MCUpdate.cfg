\* Two updates, also at the same time, two new builds, either way to set a node
\* up, installers at any time.
SPECIFICATION Spec
CONSTANTS
    j1 = j1
    j2 = j2
    j3 = j3
    Job = {j1, j2}
    Builds = 2
    Elf = Elf
    Torn = Torn
    NoFile = NoFile
    Deployments = {"task", "linux"}
    Overlap = {"update", "install"}
INVARIANT TypeOK
INVARIANT InstalledWhole
INVARIANT DoneStaysInstalled
CHECK_DEADLOCK FALSE
