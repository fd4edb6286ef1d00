SPECIFICATION FairSpec
CONSTANTS
  h1 = h1
  h2 = h2
  s1 = s1
  s2 = s2
  Handlers = {h1, h2}
  Streams = {s1, s2}
  Capacity = 2
INVARIANTS
  ChannelsOpen
  NoChangeIsLost
PROPERTY ChangesAreTold
