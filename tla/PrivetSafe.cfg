CONSTANTS
  p1 = p1  p2 = p2
  Printers = {p1, p2}
  Ports = {1, 2}
  Listeners = {1, 2}
  Foreign = {1}
  MaxAdds = 2
  MaxStates = 2
  MaxErrors = 1
SPECIFICATION PrivetSpec
CHECK_DEADLOCK FALSE
INVARIANTS PortsExact RecordServed GroupsFollow
PROPERTIES CallsReturn
