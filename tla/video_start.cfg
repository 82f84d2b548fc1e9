\* The camera leaves between open() and the first frame.
SPECIFICATION Spec
CONSTANTS
  ReopenAfter = 2
  Gop = 2
  Nap = 2
  MaxClients = 1
  FdLimit = 4
  OpenOutcomes = {"opened"}
INVARIANT
  CamerasNeverEndTheDaemon
