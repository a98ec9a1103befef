SPECIFICATION Spec
CONSTANTS
  p1 = p1  p2 = p2  c1 = c1  c2 = c2  t1 = t1  t2 = t2
  NONE = NONE  MALFORMED = MALFORMED
  Procs = {p1, p2}
  Clients = {c1, c2}
  Threads = {t1, t2}
  Providers = {q1, q2, q3, q4}
  Keys = {k1, k2}
  Elevated = {p1, p2}
  ThreadProc <- TwoThreadProc
  ClientProc <- TwoClientProc
SYMMETRY KeyAndProviderSymmetry
INVARIANTS TypeOK KeyChain LostKeyIsReported
PROPERTY ImplementsAkSlot
