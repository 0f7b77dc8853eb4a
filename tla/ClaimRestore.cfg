CONSTANTS
    Nodes <- UserNodes
    Anc <- UserAnc
    Folders <- MCFolders
    Pack <- MCPack
    UserFiles <- MCUserFiles
    OtherFiles <- MCOtherFiles
    UpdateList <- MCUpdateList
    WipeList <- MCWipeList
    Starts <- FreshOnly
    MaxBoots = 1
    MaxFaults = 1
SPECIFICATION Spec
INVARIANTS SuccessKeepsUserData
CHECK_DEADLOCK FALSE
