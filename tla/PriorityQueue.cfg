\* Three times, two indices, up to six entries (three levels of the heap).
SPECIFICATION Spec
CONSTANTS
  Times = {1, 2, 3}
  Deps = {0, 3}
  Width = 4
  MaxSize = 6
PROPERTY IsMinQueue
