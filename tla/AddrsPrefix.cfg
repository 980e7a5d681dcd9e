SPECIFICATION AddrSpec
CONSTANTS
  a1 = a1
  a2 = a2
  m1 = m1
  m2 = m2
  Families = {"ip4", "ip6"}
  Addrs = {a1, a2}
  Masks = {m1, m2}
  Dhcp = Dhcp
  Lease = Lease
  Absent = Absent
  MaxNum = 2
  Base = 2
  Given <- MCGiven
  AddressLists <- MCLists
  AddrCalls = 2
  AddrDeaths = 0
INVARIANTS MaskStored
CHECK_DEADLOCK FALSE
