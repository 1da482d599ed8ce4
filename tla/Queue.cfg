SPECIFICATION Spec
CONSTANTS
  Producers = {p1, p2, p3}
  Consumers = {c1, c2}
  Stopper = owner
  Item = {x}
  Capacity = 2
  Policies = {"DROP_NEWEST", "DROP_OLDEST", "BLOCK"}
INVARIANTS TypeOK CapacityRespected NoStranded
PROPERTIES EntriesAreTaken StopReleases
