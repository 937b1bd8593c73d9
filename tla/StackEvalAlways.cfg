SPECIFICATION Spec
CONSTANTS
  Programs <- AllPrograms
  Compiled <- CompiledProgram
  MaxStack = 16

INVARIANTS ResultIsThatOfTheSemantics
CHECK_DEADLOCK FALSE
