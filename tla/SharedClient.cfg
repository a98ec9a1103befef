SPECIFICATION FairSpec
CONSTANTS
  p1 = p1  p2 = p2  c1 = c1  c2 = c2  t1 = t1  t2 = t2
  NONE = NONE  MALFORMED = MALFORMED
  Procs = {p1}
  Clients = {c1}
  Threads = {t1, t2}
  Providers = {q1, q2}
  Keys = {k1, k2}
  Elevated = {p1}
  ThreadProc <- OneThreadProc
  ClientProc <- OneClientProc
INVARIANTS NoUseAfterFree ProvidersOwned SessionsScoped
PROPERTIES ChallengeSingleUse LockReleased
