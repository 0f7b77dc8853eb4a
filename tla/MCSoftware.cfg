SPECIFICATION SoftwareSpec
CONSTANTS
  MaxPlugs = 2
  MaxLate = 1
  Sources = {1, 2}
  SlotCount = 2
  MaxRequests = 3
  Sizes = {3, 8, 9, 20, 32, 33}
  Depth = 8
  Room = 4
  MaxTrouble = 3
  Start = 1
  Requests = {1, 5}
  HeapRoom = 16
  Memories = {"lpddr4"}
  MaxFallbacks = 2
  Lines = 3
  MaxEntries = 3
  Names = {1, 2, 3, 4}
INVARIANTS SoftwareTypeOK DevicesTrue ProgramsRight
PROPERTIES HeapKeepsPromise SoftwareReturns
CHECK_DEADLOCK FALSE
