CONSTANTS
  Unset = Unset
  Decoded = Decoded
  Default = Default
  Contexts <- WalkContexts
  Sample <- WalkSample
SPECIFICATION Spec
INVARIANT TypeOK
