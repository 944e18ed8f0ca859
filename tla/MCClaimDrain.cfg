CONSTANTS
  b1 = b1
  n1 = n1
  n2 = n2
  g1 = g1
  s1 = s1
  NoBet = NoBet
  Bets = {b1}
  Runs = {n1, n2}
  Reads = {g1}
  Scrapes = {s1}
SPECIFICATION Spec
CHECK_DEADLOCK FALSE
INVARIANT DrainsFirst
