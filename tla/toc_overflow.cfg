CONSTANTS
  Unset = Unset
  Decoded = Decoded
  Default = Default
  Contexts <- TocContexts
  Sample <- HugeCropSample
SPECIFICATION Spec
INVARIANT TocCountFitsU32
