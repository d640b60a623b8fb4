SPECIFICATION LibrarySpec
CONSTANTS
  Path = {p1, p2}
  Content = {a, b}
  MaxTime = 1
  Grain = 1
  MaxChanges = 2
  MaxFaults = 1
  MaxCrashes = 1
  Under <- Apart
SYMMETRY Alike
INVARIANTS LibraryTypeOK StaleMetadataIsPending ChangesAreDetectable ScanIsExact FilesBehindFlags
PROPERTY OnlyAbsentMarkedMissing
CHECK_DEADLOCK FALSE
