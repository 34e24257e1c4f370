SPECIFICATION Spec
SYMMETRY TaskSymmetry
CONSTANTS
  t1 = t1
  t2 = t2
  Tasks = {t1, t2}
  Size = 4
  MaxChunk = 2
  MaxTimes = 2
  Statuses = {200, 206, 404, 503}
  Ranges = {"asked"}
INVARIANT TypeOK
INVARIANT MissingOwned
INVARIANT MissingSaved
INVARIANT OneWriter
INVARIANT ProcessInStep
PROPERTY FileSpec
PROPERTY TasksAreWriters
