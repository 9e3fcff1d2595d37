SPECIFICATION Spec
CONSTANTS
  Keys = {1, 2, 3, 5}
  Capacity = 4
INVARIANT FirstOfEqual
