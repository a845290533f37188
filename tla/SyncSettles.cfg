CONSTANTS
  n1 = n1  n2 = n2  d1 = d1  d2 = d2  c1 = c1  c2 = c2
  poll = poll  device = device
  Absent = Absent
  Names = {n1, n2}
  Displays = {d1}
  Capses = {c1, c2}
  Syncers = {poll, device}
  Configs <- Settles
  MaxIds = 8
SPECIFICATION FairSpec
CHECK_DEADLOCK FALSE
INVARIANTS TypeOK MapsAgree NoPhantom CloudAccounted OneLivePrinter
PROPERTIES Converges CloudConverges
