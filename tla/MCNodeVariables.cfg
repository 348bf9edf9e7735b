SPECIFICATION Spec
CONSTANTS
  FirstFiles <- Files
  ToolEdits <- Edits
  PageEdits <- Entries
  Heap = {0, 165}
  Whole = TRUE
  Applied = TRUE
  MaxEvents = 4
INVARIANTS
  TypeOK
  
\* Users owe no change: the system may come to rest.
CHECK_DEADLOCK FALSE
