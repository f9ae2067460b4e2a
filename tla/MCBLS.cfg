CONSTANTS
  x1 = x1  x2 = x2  k1 = k1  k2 = k2
  Seeds <- MCSeeds
  KeyOfSeed <- MCKeyOfSeed
  Messages <- MCMessages
  MessageBytes = {0, 1}
  PublicKeyBytes = 1
  SignatureBytes = 2
  DigestBytes = 2
  MaxSigs = 2
  MaxMessageLen = 3
SPECIFICATION Spec
INVARIANT TypeOK
INVARIANT HashVerifyComplete
INVARIANT HashVerifySound
INVARIANT AggregateExact
