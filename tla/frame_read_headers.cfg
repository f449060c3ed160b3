CONSTANTS
  Unset = Unset
  Decoded = Decoded
  Default = Default
  Contexts <- TocContexts
  Sample <- FrameSample
  TocFields <- TocFieldSample
  TocEntriesFor <- ReadHeadersEntries
SPECIFICATION FSpec
INVARIANT TocLengthMatchesHeader
