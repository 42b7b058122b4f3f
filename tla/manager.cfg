\* Three websockets on one channel, two messages; consumers crash.
SPECIFICATION FairManagerSpec
CONSTANTS
  Sockets = {s1, s2, s3}
  Channels = {c1}
  MaxPublished = 2
  NoTask = NoTask
INVARIANTS
  ManagerTypeOK
  OneConsumer
  ClientsAndConsumers
  ReceivedInOrder
  NothingIsMissed
PROPERTY InboxIsDrained
CHECK_DEADLOCK FALSE
