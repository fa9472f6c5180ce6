\* A user on a second core cancels its timer while the interrupt calls a handler.
CONSTANTS
  u = u  v = v  w = w
  a1 = a1  a2 = a2  a3 = a3
  Null = Null
  Users = {u, v}
  Remote = {v}
  Delays <- Two
  Addrs = {a1, a2}
  TickMod = 8
SPECIFICATION Spec
INVARIANTS NoAssertion

