SPECIFICATION Spec
CONSTANTS
  Keys = {1, 2, 3, 5}
  Capacity = 4
INVARIANTS
  TypeOK
  Sorted
  FindMeets
  NearestIsNearest
PROPERTIES
  InsertAddsOne
  RemoveTakesOne
