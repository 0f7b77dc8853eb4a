SPECIFICATION BoardSpec
CONSTANTS
  MaxFaults = 1
  Unreliable <- MCUnreliable
  Apart <- MCApart
  Voltages <- MCVoltages
INVARIANTS BoardTypeOK LiveAccess ClocksAlive PowerOrder HandOver
CHECK_DEADLOCK FALSE
