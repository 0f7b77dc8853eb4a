SPECIFICATION Spec
CONSTANTS
    SS = 4
    PerFat = 4
    Ent = 9
    Paths <- MCPaths
    Dirs <- MCDirs
    Volumes <- MCVolumes
    Writes = {3, 9}
    Places = {0, 5}
    MaxCalls = 2
    MaxFaults = 2
    MaxAccess = 10
INVARIANTS FatTypeOK ReadBack Survives ChainsSound NothingLost ReadsWhatWasWritten ListsAll
CHECK_DEADLOCK FALSE
