SPECIFICATION OutputSpec
CONSTANTS
  Devices <- MCDevices
  Edids <- MCEdids
  Spares <- MCSpares
  Presets <- MCPresets
  Metadata <- MCMetadata
  LutSize = 5
INVARIANTS OffIsOff
