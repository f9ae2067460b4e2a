CONSTANTS
  a = a  b = b  ra = ra  rb = rb  ca = ca  cb = cb
  Sectors <- MCSectors
  CommRs <- MCCommRs
  Randomness <- MCRandomness
  ProvingSet <- MCProvingSet
  ChallengeHash <- MCChallengeHash
  WinningSectorCount = 1
  MaxReplicas = 2
  Surfaces <- MCSurfaces
  PoStProofEnums <- MCPoStProofEnums
  SectorSize = 0
SPECIFICATION Spec
INVARIANT WinningVerifiesOnlyChallengedSectors
