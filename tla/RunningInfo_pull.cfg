CONSTANTS
  MaxPackages = 3
  MaxReports = 2
  MaxDoubled = 1
  LastSizes = {10, 1024}
SPECIFICATION FairSpec
INVARIANTS
  TypeOK
  ShownWhole
PROPERTIES
  NeverBack
  NewReportShown
CHECK_DEADLOCK FALSE
