SPECIFICATION Spec
CONSTANTS
  Beyond <- MCBeyond
  Instructions <- MCInstructions
  Programs <- MCPrograms
  Layouts <- MCLayouts
INVARIANTS Aligned Agree
CHECK_DEADLOCK FALSE
