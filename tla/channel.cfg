\* Two threads call the daemon, which may die once, at any moment.
SPECIFICATION FairSpec
CONSTANTS
  Callers = {c1, c2}
  Main = main
  Ipc = ipc
  Threads = {t1}
  MaxCalls = 3
  MaxDeaths = 1
INVARIANTS
  TypeOK
  OneInCall
  AnswerIsOwn
PROPERTIES
  CallsReturn
  SuccessGivenOnce
  DeathWakesCaller
\* The calls of the instance are used up, or one of them waits for ever.
CHECK_DEADLOCK FALSE
