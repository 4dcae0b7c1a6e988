SPECIFICATION Spec
CONSTANTS
  Relayers = {r1, r2}
  NoPacket = NoPacket
  FromHarmony = 1
  FromCosmos = 1
  MaxBacklog = 1
  PathSrc = "cosmos"
  MaxFaults = 0
INVARIANTS MessagesProvable
PROPERTIES RefusedOnlyForRival RevertsOnlyIfStale
