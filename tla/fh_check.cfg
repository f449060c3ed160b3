CONSTANTS
  Unset = Unset
  Decoded = Decoded
  Default = Default
  Contexts <- CheckContexts
  Sample <- CheckSample
SPECIFICATION Spec
INVARIANT CheckAgreesWithSpec
