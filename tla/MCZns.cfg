CONSTANTS
  zone_size = 3
  zone_capacity = 2
  zasl = 2
  zd_extension = TRUE
  Namespaces <- Shapes
  MaxNlb = 2
  MaxOverrun = 1
SPECIFICATION Spec
INVARIANTS
  ZoneListsExact
  ResourcesExact
  RefusedOnlyByExplicit
  ReportedIsTrue
  ReportExact
PROPERTIES
  ExplicitOpenKept
