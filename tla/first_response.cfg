SPECIFICATION ServerFair
CONSTANTS
  Length = 6
  MaxChunk = 3
INVARIANT TypeOK
INVARIANT RestIsExact
INVARIANT OneMoreChunk
PROPERTY AbortEnds
