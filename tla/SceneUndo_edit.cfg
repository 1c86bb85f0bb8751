SPECIFICATION Spec
CONSTANTS
  Containers = {k1, k2}
  Components = {3, 4}
  External = {3}
  Misfits = {4}
  Outs = {3}
  Ins = {4}
  UndoLimit = 3
  MaxUid = 2
  ZeroRefused = FALSE
INVARIANTS TypeOK ConnectionsHaveEnds NodesFollowHistory FaultsNeedACause
SYMMETRY Symmetry
CHECK_DEADLOCK FALSE
