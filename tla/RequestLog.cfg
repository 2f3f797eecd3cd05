SPECIFICATION Spec
CONSTANTS
    MaxBytes = 3
    Backups = 2
    MaxLine = 2
    MaxEvents = 5
    NoFile = NoFile
INVARIANTS
    InOrder
    KeepsTheNewest
