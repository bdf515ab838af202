CONSTANTS
  c1 = c1
  c2 = c2
  news = news
  chat = chat
  Conns <- TwoConns
  Channels <- TwoChannels
  MaxSubs = 2
SPECIFICATION FairSpec
INVARIANTS NoPanic RegistryOwned
PROPERTIES StopsDelivery ReadersEnd RegistryCallsReturn
