SPECIFICATION Spec
CONSTANTS
    MaxPods = 4
    Paths = {x}
    Contents = {a, b}
INVARIANTS
    MountNeverFails
    StackIsInherited
    ValidMatchesFiles
