SPECIFICATION Spec
CONSTANTS
  c1 = c1
  c2 = c2
  Entry = {c1, c2}
  Blank = blank
  Spoiled = spoiled
  Junk = junk
  Text <- MCText
  MaxArgs = 3
  Argv <- MCArgv
  Disk <- MCDisk
  Word = {"quit", "list", "help"}
INVARIANTS TypeOK OpensNamedFiles LoopReady
PROPERTY QuitEnds
CHECK_DEADLOCK FALSE
