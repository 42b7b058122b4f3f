\* Two websockets on one channel, one message; the consumer's connection to Redis may fail.
SPECIFICATION FairManagerSpec
CONSTANTS
  Sockets = {s1, s2}
  Channels = {c1}
  MaxPublished = 1
  NoTask = NoTask
PROPERTY FannedOut
CHECK_DEADLOCK FALSE
