SPECIFICATION Spec
CONSTANTS
  ReopenAfter = 2
  Gop = 2
  Nap = 2
  MaxClients = 2
  FdLimit = 4
  OpenOutcomes = {"opened"}
INVARIANTS
  TypeOK
  
  NoDescriptorLeak
PROPERTIES
  PictureComesBack
  LossIsSeen
