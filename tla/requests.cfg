\* Two clients install, uninstall, subscribe and die; the queue is short,
\* but a registration and a request can wait in it together.
SPECIFICATION FairSpec
CONSTANTS
  Clients = {c1, c2}
  c1 = c1
  c2 = c2
  a = a
  Bundles = {a}
  Uses <- TwoClients
  QueueSize = 2
  MaxMessages = 4
  MaxDeaths = 1
INVARIANTS
  TypeOK
  BlocksOwned
  OwnAnswer
  NotMissed
  HeardInOrder
PROPERTIES
  AcceptedAnswered
\* The messages of the instance are used up.
CHECK_DEADLOCK FALSE
