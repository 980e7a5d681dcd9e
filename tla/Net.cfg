SPECIFICATION NetSpec
CONSTANTS
  n1 = n1
  n2 = n2
  g1 = g1
  g2 = g2
  w1 = w1
  w2 = w2
  Names = {n1, n2}
  Gateways = {g1, g2}
  Bits = 2
  Targets <- MCTargets
  Workers = {w1, w2}
  None = None
  MaxDeaths = 2
  MaxAdds = 3
  Refusals = TRUE
  Overlap = TRUE
  Reused = FALSE
  a1 = a1
  a2 = a2
  m1 = m1
  m2 = m2
  Families = {"ip4", "ip6"}
  Addrs = {a1, a2}
  Masks = {m1, m2}
  Dhcp = Dhcp
  Lease = Lease
  Absent = Absent
  MaxNum = 2
  Base = 2
  Given <- MCGiven
  AddressLists <- MCLists
  AddrCalls = 4
  AddrDeaths = 1
SYMMETRY MCSymmetry
INVARIANTS TypeOK  WorkingInKernel ListExact
INVARIANTS AddrTypeOK KeptStored ListedExact NumbersAgree DhcpAlone
CHECK_DEADLOCK FALSE
