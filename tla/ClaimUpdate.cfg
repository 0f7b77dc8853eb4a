CONSTANTS
    Nodes <- FewNodes
    Anc <- FewAnc
    Folders <- MCFolders
    Pack <- MCPack
    UserFiles <- MCUserFiles
    OtherFiles <- MCOtherFiles
    UpdateList <- MCUpdateList
    WipeList <- MCWipeList
    Starts <- InstalledOnly
    MaxBoots = 2
    MaxFaults = 0
SPECIFICATION Spec
INVARIANTS UpdatePreserves
CHECK_DEADLOCK FALSE
