\* Three slots, three items: every fill level at every position of the head.
SPECIFICATION Spec
CONSTANTS
  a = a
  b = b
  c = c
  Items <- MCItems
  Capacity = 3
  MaxOverflows = 2
PROPERTIES ImplementsFifo
