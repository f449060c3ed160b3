CONSTANTS
  Unset = Unset
  Decoded = Decoded
  Default = Default
  Contexts <- AlphaContexts
  Sample <- EcBlendSample
SPECIFICATION Spec
PROPERTY EcBlendingReadOnlyForNormalFrames
