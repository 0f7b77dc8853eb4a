CONSTANTS
    Nodes <- UserNodes
    Anc <- UserAnc
    Folders <- MCFolders
    Pack <- MCPack
    UserFiles <- MCUserFiles
    OtherFiles <- MCOtherFiles
    UpdateList <- MCUpdateList
    WipeList <- MCWipeList
    Starts <- FreshOnly
    MaxBoots = 2
    MaxFaults = 0
SPECIFICATION Spec
INVARIANTS UserDataPreserved
CHECK_DEADLOCK FALSE
