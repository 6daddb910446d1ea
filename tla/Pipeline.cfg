SPECIFICATION Spec
CONSTANTS
  N = 2
  Wrap = 4
  Examples = {"best", "multi", "fstack"}
  MaxMessages = 4
INVARIANTS
  SlotExclusive
  ReportFinal
  CleanExit
  LogsWritten
PROPERTIES
  ImplementsFifo
  Terminates
