SPECIFICATION Spec
CONSTANTS
  Programs <- OrdinaryPrograms
  Compiled <- CompiledProgram
  Certificate <- Reached
  MaxStack = 16

INVARIANTS ResultIsThatOfTheSemantics TrapsCanBeRestored NothingIsLeftBehind
CHECK_DEADLOCK FALSE
