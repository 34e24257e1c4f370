SPECIFICATION FairSpec
CONSTANTS
  g1 = g1
  g2 = g2
  r1 = r1
  r2 = r2
  r3 = r3
  Visors = {g1}
  FirstVisor = g1
  Reporters = {r1, r2}
  ThreadModel = "ThreadSafe"
  Obligations = {}
INVARIANT TypeOK
INVARIANT MutualExclusion
INVARIANT TypestateAgrees
PROPERTY LockGranted
