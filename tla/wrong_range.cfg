SPECIFICATION Spec
CONSTANTS
  t1 = t1
  t2 = t2
  Tasks = {t1, t2}
  Size = 4
  MaxChunk = 2
  MaxTimes = 2
  Statuses = {206}
  Ranges = {"asked", "other"}
INVARIANT FileRight
