CONSTANTS
  MaxPackets <- MCMaxPackets
  MaxHeld <- MCMaxHeld
  Disciplined = FALSE
SPECIFICATION Spec
INVARIANTS
  PacketIntegrity
