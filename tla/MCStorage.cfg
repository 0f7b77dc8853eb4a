SPECIFICATION StorageSpec
CONSTANTS
    Cards <- MCCards
    B01s <- MCB01s
    Sectors = 2
    MaxFaults = 1
    MaxSwaps = 1
    MaxCalls = 1
    Window = 2
    Starts512 = {1, 2}
    Lengths = {0, 1, 3, 5}
    MaxBlocks = 4
    MaxCmds = 2
INVARIANTS SessionInv ReadyAgrees VoltageSafe HealthyCardMounts CommandInv CommandSound
PROPERTIES KeepsService TransferComplete SlowerOnly PowerOnDischarged PoweredDownAtEnd Returns
CHECK_DEADLOCK FALSE
