CONSTANTS
  Unset = Unset
  Decoded = Decoded
  Default = Default
  Contexts <- TocContexts
  Sample <- TocSample
SPECIFICATION Spec
INVARIANT TocEntriesAsSpecified
