\* A node as install.bat sets it up.
SPECIFICATION Spec
CONSTANTS
    j1 = j1
    j2 = j2
    j3 = j3
    Job = {j1}
    Builds = 1
    Elf = Elf
    Torn = Torn
    NoFile = NoFile
    Deployments = {"task"}
    Overlap = {}
PROPERTY RestartAsAnnounced
CHECK_DEADLOCK FALSE
