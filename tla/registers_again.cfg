\* One death while the service task makes its calls.
SPECIFICATION FairSpec
CONSTANTS
  Callers = {c1}
  Main = main
  Ipc = ipc
  Threads = {t1}
  MaxCalls = 2
  MaxDeaths = 1
PROPERTIES
  RegistersAgain
CHECK_DEADLOCK FALSE
