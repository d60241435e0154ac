SPECIFICATION Spec
CONSTANTS
  s1 = s1
  s2 = s2
  k0 = k0
  k1 = k1
  k2 = k2
  p1 = p1
  p2 = p2
  Servers <- MCServers
  Numbers <- MCNumbers
  Keys <- MCKeys
  Layouts <- MCLayouts
  Passwords <- MCPasswords
  SockCap = 1
  BackCap = 2
  MaxForks = 1
  MaxCrashes = 0
INVARIANT ForkCopies
CHECK_DEADLOCK FALSE
