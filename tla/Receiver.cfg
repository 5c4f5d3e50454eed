SPECIFICATION FairSpec
CONSTANTS
  Senders = {s1, s2}
  SocketQueue = 2
  MaxDatagrams = 3
  MaxErrors = 2
INVARIANTS EachOnceInOrder TelemetryToSomebodyHeard
PROPERTY NeverDeaf
CHECK_DEADLOCK FALSE
