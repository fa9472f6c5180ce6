\* All users on core 0; the tick counter wraps.
CONSTANTS
  u = u  v = v  w = w
  a1 = a1  a2 = a2  a3 = a3
  Null = Null
  Users = {u, v, w}
  Remote = {}
  Delays <- Three
  Addrs = {a1, a2, a3}
  TickMod = 8
SPECIFICATION FairSpec
INVARIANTS TypeOK NoneOverdue HandleExact Accounted NoAssertion
PROPERTIES Implements ElapsesAtLast 
