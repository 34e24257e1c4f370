SPECIFICATION Spec
CONSTANTS
  Apis = {"fetch_stream", "fetch_chunk", "fetch_conditional", "fetch_all", "fetch_util", "fetech_chunk", "fetch_chunk_in_remain"}
  Length = 7
  StreamLen = 9
  MaxChunk = 3
  MaxI64 = 15
  Contracts = {{}, {"flash", "fresh"}, {"margin", "fresh"}, {"flash", "margin"}, {"flash", "margin", "fresh"}}
INVARIANT TypeOK
INVARIANT RecordedWereWritten
INVARIANT Accounting
INVARIANT NoOverrun
INVARIANT NeverNegative
INVARIANT StopsAtEnd
INVARIANT StreamAligned
