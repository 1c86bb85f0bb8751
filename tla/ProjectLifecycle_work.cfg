CONSTANTS
  Files = {f1, f2, f3}
  Items = {i1}
  NoFile = NoFile
  MaxRecent = 2
  Faults = {"refused", "short", "removed"}
SPECIFICATION Spec
INVARIANTS
  TypeOK
  EmptyWithoutProject
PROPERTIES
  ShowsTheFile
  SavedUnlessTold
\* OpenDeployProject without a project ends the program.
CHECK_DEADLOCK FALSE
