CONSTANTS
  Unset = Unset
  Decoded = Decoded
  Default = Default
  Contexts <- AlphaContexts
  Sample <- AlphaSample
SPECIFICATION Spec
INVARIANT AlphaChannelIsAnExtraChannel
