SPECIFICATION Spec
CONSTANTS
  Threads = {t1, t2}
  Keys = {k1, k2, k3}
  TTL = 2
  MaxEntries = 2
  MaxCalls = 5
  MaxTime = 3
INVARIANTS OncePerWindow RefusedInWindow
SYMMETRY Symmetric
