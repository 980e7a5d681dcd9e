SPECIFICATION Spec
CONSTANTS
  n1 = n1
  n2 = n2
  g1 = g1
  g2 = g2
  w1 = w1
  w2 = w2
  Names = {n1, n2}
  Gateways = {g1, g2}
  Bits = 2
  Targets <- MCTargets
  Workers = {w1}
  None = None
  MaxDeaths = 0
  MaxAdds = 3
  Refusals = TRUE
  Overlap = FALSE
  Reused = TRUE
PROPERTIES DefaultIsSet
CHECK_DEADLOCK FALSE
