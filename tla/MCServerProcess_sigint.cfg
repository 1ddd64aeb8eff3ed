SPECIFICATION Spec
CONSTANTS
  c1 = c1
  c2 = c2
  Entry = {c1, c2}
  Blank = blank
  Spoiled = spoiled
  Junk = junk
  Text <- MCText
  MaxArgs = 0
  Argv <- MCArgv
  Disk <- MCDisk
  Word = {"quit", "list", "help"}
PROPERTY EndsByDisconnect
CHECK_DEADLOCK FALSE
