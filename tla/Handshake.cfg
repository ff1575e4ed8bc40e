SPECIFICATION HSpec
CONSTANTS
  Layouts <- AllLayouts
  Banners <- TwoBanners
  Burst <- EveryByte
  IdleLines = 2
  CaptureLines = 5
  MAX_PROBE_LEN = 6
INVARIANTS
  KeysLandAsMeant
  TrustableIsNotRefused
  ProbesAnswered
PROPERTY
  StartupEnds
