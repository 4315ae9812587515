SPECIFICATION Spec
CONSTANTS
  k1 = k1
  k2 = k2
  Coordinators = {k1, k2}
  Skews <- UpToSix
  MaxSkew = 6
  FirstTTL = 60
  BeatTTL = 15
  BeatInterval = 5
  ReapInterval = 5
  StuckAfter = 30
SYMMETRY Symmetry
INVARIANTS
  TypeOK
  RecoveryBound
  BeatenRecoveryBound
  OnlySilentIsReaped
  LostIsReported
