\* Every failure of a file system call, and a crash between any two of them.
CONSTANTS
  MaxEvents = 8
  MaxSize = 2
  MaxBackups = 2
  Legacy <- MCLegacy
  MaxCrashes = 1
  Faults = {"open", "write", "short", "close", "stat", "link", "remove", "list"}
SPECIFICATION Spec
INVARIANT PersistedIsKept
CHECK_DEADLOCK FALSE
