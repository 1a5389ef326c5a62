\* Two commands, sent in any pieces, and one that is too long to be read.
SPECIFICATION Spec
CONSTANTS
  Ends <- Commands
  BufferSize = 2
  IntMax = 3
  Room = 1
CHECK_DEADLOCK FALSE
INVARIANTS TypeOK WholeCommands
PROPERTIES KeepsDialogue Answered SessionEnds
