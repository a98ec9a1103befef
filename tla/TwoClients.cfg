SPECIFICATION Spec
CONSTANTS
  p1 = p1  p2 = p2  c1 = c1  c2 = c2  t1 = t1  t2 = t2
  NONE = NONE  MALFORMED = MALFORMED
  Procs = {p1}
  Clients = {c1, c2}
  Threads = {t1, t2}
  Providers = {q1, q2, q3}
  Keys = {k1}
  Elevated = {p1}
  ThreadProc <- OneThreadProc
  ClientProc <- TwoClientsOneProc
SYMMETRY KeyAndProviderSymmetry
INVARIANT NoUseAfterFree
