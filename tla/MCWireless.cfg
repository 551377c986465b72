CONSTANTS
  Vals <- TwoVals
  None = None
  MaxLinks = 2
  MaxExecs = 2
  Oper <- TwoStates
  PhyReport <- Phy
  Clients <- ThreeClients
  Radios <- TwoRadios
  MaxStaged = 2
SPECIFICATION WirelessSpec
INVARIANT SocketsAccounted
PROPERTIES
  TrueMeansDone
  ReadIsKernels
  ListIsSeen
  TunesAsAsked
