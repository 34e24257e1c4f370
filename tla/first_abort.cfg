SPECIFICATION ProgramFair
CONSTANTS
  Length = 4
  MaxChunk = 2
PROPERTY AbortEnds
