SPECIFICATION NetSpec
CONSTANTS
  Pairs <- MCPairs
  TagSets <- MCTagSets
  Arrivals <- MCArrivals
  AddedTags <- MCAddedTags
  MaxFrames <- MCMaxFrames
  EtherPairs <- MCEtherPairs
  Lengths <- MCLengths
  Protos <- MCProtos
  Deliveries <- MCDeliveries
  MaxEther = 2
  MaxSets = 2
INVARIANTS
  ArrivesAsSent
  SentAgain
  ReadIsOwn
  PartsKept
