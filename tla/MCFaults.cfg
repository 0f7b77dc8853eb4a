CONSTANTS
    Nodes <- FewNodes
    Anc <- FewAnc
    Folders <- MCFolders
    Pack <- MCPack
    UserFiles <- MCUserFiles
    OtherFiles <- MCOtherFiles
    UpdateList <- MCUpdateList
    WipeList <- MCWipeList
    Starts <- AllCards
    MaxBoots = 2
    MaxFaults = 2
SPECIFICATION Spec
CHECK_DEADLOCK FALSE
INVARIANTS TypeOK UserDataSafe UpdateKeepsOthers SuccessIsReal
PROPERTIES PackMovedNotLost KeepsCustody
