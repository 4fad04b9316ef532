SPECIFICATION Spec
CONSTANTS
  Profiles <- MCProfiles
  Malformed <- MCMalformed
  Usual <- Plain
  Inputs <- MCInputs
  Seeds <- MCSeeds
  PublicKey <- MCPublicKey
  Points <- MCPoints
  KeyLength = 2
  SignatureLength = 1
  SignatureBytes <- MCSignatureBytes
  Texts <- MCTexts
  KeyTexts <- MCKeyTexts
  MaxSigned = 2
  MaxEdits = 2
INVARIANTS
  TypeOK
  VerifiedIsWhatWasSigned
  GenuineVerifies
  VerdictBlamesTheRightParty
  OperatorCanRecompute
  EffectiveNamesTheConfinement
CHECK_DEADLOCK FALSE
