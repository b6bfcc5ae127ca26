SPECIFICATION Spec
CONSTANTS
  Epoch <- MCEpoch
  MaxSeq = 4
  Cold = Cold
  Off = Off
  Lost = Lost
INVARIANTS
  MirrorIsDurable
  AbortedSaveIsWhole
PROPERTIES
  StaysMountable
  Implements
