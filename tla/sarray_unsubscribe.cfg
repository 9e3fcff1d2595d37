SPECIFICATION Spec
CONSTANTS
  Keys = {1, 2, 3}
  Capacity = 3
PROPERTY RemoveAbsentKeeps
