CONSTANTS
    Nodes <- UserNodes
    Anc <- UserAnc
    Folders <- MCFolders
    Pack <- MCPack
    UserFiles <- MCUserFiles
    OtherFiles <- MCOtherFiles
    UpdateList <- MCUpdateList
    WipeList <- MCWipeList
    Starts <- FreshOnly
    MaxBoots = 3
    MaxFaults = 0
SPECIFICATION Spec
CHECK_DEADLOCK FALSE
INVARIANTS UserDataInv WipeNeedsBackup CardIsTree
