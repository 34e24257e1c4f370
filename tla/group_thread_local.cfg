SPECIFICATION Spec
CONSTANTS
  g1 = g1
  g2 = g2
  r1 = r1
  r2 = r2
  r3 = r3
  Visors = {g1, g2}
  FirstVisor = g1
  Reporters = {r1, r2}
  ThreadModel = "ThreadLocal"
  Obligations = {}
SYMMETRY ReporterSymmetry
INVARIANT MutualExclusion
