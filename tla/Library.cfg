SPECIFICATION Spec
CONSTANTS
  LUA_MAXCAPTURES = 3
  MAXCCALLS = 20
PROPERTIES PatternsRight TablesRight NumbersRight LoopsAsWritten OperationsRight ChunksRight PacksRight LexRight
CHECK_DEADLOCK FALSE
