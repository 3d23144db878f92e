SPECIFICATION GatewaySpec
CONSTANTS
  Hosts = {h1}
  Tokens = {t1}
  Rows = {r1, r2}
  Conns = {c1, c2}
  None = None
  Misfits = {}
  Ordered = TRUE
  MaxDrains = 1
  MaxFaults = 0
PROPERTY DrainingStays
