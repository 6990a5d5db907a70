SPECIFICATION ShellSpec
CONSTANTS
  MaxPid = 3
  Lines <- MCLines
  Programs <- MCPrograms
  BigOutput = {"dump"}
INVARIANTS ForegroundIsAwaited RunsWhatWasTyped
PROPERTY ShellComesBack
CHECK_DEADLOCK FALSE
