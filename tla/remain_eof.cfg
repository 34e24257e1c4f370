SPECIFICATION Spec
CONSTANTS
  Apis = {"fetch_stream"}
  Length = 4
  StreamLen = 4
  MaxChunk = 2
  MaxI64 = 15
  Contracts = {{"flash", "margin"}}
INVARIANT OkIsComplete
