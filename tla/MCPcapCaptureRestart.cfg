CONSTANTS
  MaxPackets <- MCMaxPackets
  MaxHeld <- MCMaxHeld
  Disciplined = TRUE
SPECIFICATION Spec
PROPERTIES
  NoPacketAfterEnd
