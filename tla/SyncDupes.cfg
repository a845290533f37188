CONSTANTS
  n1 = n1  n2 = n2  d1 = d1  d2 = d2  c1 = c1  c2 = c2
  poll = poll  device = device
  Absent = Absent
  Names = {n1}
  Displays = {d1}
  Capses = {c1, c2}
  Syncers = {poll}
  Configs <- CloudOnly
  MaxIds = 3
SPECIFICATION Spec
CHECK_DEADLOCK FALSE
PROPERTIES DupesRemoved
