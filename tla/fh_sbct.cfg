CONSTANTS
  Unset = Unset
  Decoded = Decoded
  Default = Default
  Contexts <- WalkContexts
  Sample <- SbctSample
SPECIFICATION Spec
INVARIANT SaveBeforeCtDefaultAsCommented
