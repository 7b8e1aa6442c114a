CONSTANTS
  MaxPackets = 5
  MaxHeld = 3
  Disciplined = TRUE
SPECIFICATION Spec
PROPERTIES
  ImplementsStream
