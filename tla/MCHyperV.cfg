\* Three scripts side by side, each on a machine of its own.
SPECIFICATION Spec
CONSTANTS
    ubuntu = ubuntu
    web = web
    iso = iso
    Host = Host
    Script = {1, 2, 3}
    Name = {ubuntu, web}
    Image = {iso}
    FirstName = ubuntu
    NoImage = NoImage
    NoDisk = NoDisk
    Partial = Partial
    Sizes = {1, 2}
    Disks = {1, 2}
    Exclusive = TRUE
INVARIANT HostTypeOK
INVARIANT DisksUnshared
INVARIANT NoOrphanDisks
INVARIANT RunsAsOrdered
 
PROPERTY ImplementsEngine
CHECK_DEADLOCK FALSE
