SPECIFICATION FairSpec
CONSTANTS
  Relayers = {r1}
  NoPacket = NoPacket
  FromHarmony = 2
  FromCosmos = 1
  MaxBacklog = 1
  PathSrc = "cosmos"
  MaxFaults = 1
INVARIANTS TypeOK
PROPERTIES RefusedOnlyForRival Delivers
