CONSTANTS
  MaxPackets <- MCMaxPackets
  MaxHeld <- MCMaxHeld
  Disciplined = TRUE
SPECIFICATION Spec
INVARIANTS
  TypeOK
  PacketIntegrity
  CaptureInv
