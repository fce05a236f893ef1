CONSTANTS
  r1 = r1
  r2 = r2
  p1 = p1
  Requesters <- MCRequesters
  Proxies <- MCProxies
  NoCaller = NoCaller
  Attempts = 3
  Honours = "last"
  MaxTokens = 2
  MaxFaults = 2
SPECIFICATION FairSpec
INVARIANTS
  TypeOK
PROPERTIES
  ExhaustedOnlyByFaults
  TokenNeverGoesBack
  OnlyTheGatewayBlocks
