SPECIFICATION Spec
CONSTANTS
  Versions = {v1, v2}
  Lengths = {l1, l2}
  NoHeader = none
  Unknown = unknown
INVARIANT TypeOK
INVARIANT ResumableIsPinned
