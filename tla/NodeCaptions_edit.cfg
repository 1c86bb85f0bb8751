SPECIFICATION Spec
CONSTANTS
  Nodes = {n1, n2, n3}
  Kinds = {"Application", "Component"}
  ComponentKinds = {"Component"}
  Bases = {"Application", "Component"}
  Numbers = {0, 1, 2}
  Limit = 2
  AnyReopen = FALSE
INVARIANTS TypeOK RegistryExact CaptionsUnique
PROPERTIES RenamedAsTyped LeastFreeNumber
