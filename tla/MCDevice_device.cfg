SPECIFICATION DeviceSpec
CONSTANTS
    Name <- MCName
    Spare <- MCSpare
    QuickLooks = TRUE
    Busy <- MCBusy
    Path = {"n", "m"}
    Outside = "out"
    Ttl = 4
    RenameTtl = 3
    NoteFor = 1
    Pause = 1
    FsPause = 2
    OwnLate = 1
    FsLate = 2
    MaxOps = 3
    MaxArchives = 2
    MaxSize = 2
    Lengths = {1, 3}
    MaxLines = 6
    MaxFaults = 2
CHECK_DEADLOCK FALSE
INVARIANTS TypeOK IndexAgrees SettledTree NothingLost NoStandstill EchoesStay InStep LastLinesKept
