SPECIFICATION FairSpec
CONSTANTS
  d1 = d1
  d2 = d2
  alice = alice
  bob = bob
  g = g
  a1 = a1
  a2 = a2
  b1 = b1
  b2 = b2
  b3 = b3
  Deposits = {d1}
  Customers = {alice, bob}
  Owner <- MCOwner
  Required = 2
  Hashes = {g, a1, a2, b1, b2, b3}
  NoBlock = NoBlock
  MinedIn <- MCMinedIn
  Chains <- MCChains
  FirstChain <- MCFirst
  Reports <- MCNoHeight
  MaxCrashes = 0
PROPERTIES CreditReachesBooks
